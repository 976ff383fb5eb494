------------------------ MODULE FirmwareUpdateProofs ------------------------
(***************************************************************************)
(* Proofs about FirmwareUpdate: its types, the file system, that it        *)
(* implements Installation, and that the answer given is the true one.     *)
(* The refinement rests on that the upload writes only the slot that       *)
(* neither runs nor will be started: the two slots part only when Select   *)
(* succeeds, and then only a restart follows.  The answer rests on that    *)
(* the updater's buffer and the slot together hold what was sent.          *)
(***************************************************************************)
EXTENDS FirmwareUpdate, SequenceTheorems, TLAPS

USE SizesAssumption, ImagesAssumption DEF SizesAssumption, ImagesAssumption

(***************************************************************************)
(* Types.                                                                  *)
(***************************************************************************)
LEMMA EmptyBuffer == <<>> \in Buffers
BY DEF Buffers

LEMMA BufferSequence ==
  ASSUME NEW b \in Buffers
  PROVE  b \in Seq(Sectors)
<1>1. CASE b = <<>>
  BY <1>1
<1>2. ASSUME NEW s \in Sectors, b = <<s>>
      PROVE  b \in Seq(Sectors)
  BY <1>2
<1> QED BY <1>1, <1>2 DEF Buffers

LEMMA OneSector ==
  ASSUME NEW s \in Sectors
  PROVE  <<s>> \in Buffers
BY DEF Buffers

LEMMA SectorType ==
  ASSUME NEW f \in Image, NEW i \in 1..N
  PROVE  Sector(f, i) \in Sectors
BY DEF Sector, Sectors

LEMMA ProgrammedType ==
  ASSUME NEW slot \in SlotType, NEW at \in Nat, NEW sectors \in Seq(Sectors)
  PROVE  Programmed(slot, at, sectors) \in SlotType
<1>1. ASSUME NEW i \in 1..Capacity, i \in at + 1..at + Len(sectors)
      PROVE  sectors[i - at] \in Sectors
  <2>1. i - at \in 1..Len(sectors)
    BY <1>1
  <2> QED BY <2>1
<1> QED BY <1>1 DEF Programmed, SlotType

LEMMA AnswersType ==
  /\ <<>> \in Seq({"OK", "FAIL"})
  /\ <<"OK">> \in Seq({"OK", "FAIL"}) /\ <<"FAIL">> \in Seq({"OK", "FAIL"})
<1>1. <<>> \in Seq({"OK", "FAIL"})
  OBVIOUS
<1>2. <<"OK">> \in Seq({"OK", "FAIL"})
  OBVIOUS
<1>3. <<"FAIL">> \in Seq({"OK", "FAIL"})
  OBVIOUS
<1> QED BY <1>1, <1>2, <1>3

LEMMA TargetSlot ==
  ASSUME running \in Slots
  PROVE  Target \in Slots /\ Target # running
BY DEF Target, Slots

LEMMA IdleType == Idle \in UpdateType
BY EmptyBuffer DEF Idle, UpdateType

LEMMA AbortedType == Aborted \in UpdateType
BY IdleType DEF Aborted, UpdateType

\* Whatever is programmed, the running slot stays as it is.
LEMMA ProgramType ==
  ASSUME flash \in [Slots -> SlotType], Update \in UpdateType, running \in Slots,
         NEW sectors \in Seq(Sectors), Program(sectors)
  PROVE  flash' \in [Slots -> SlotType] /\ flash'[running] = flash[running]
<1>1. Target \in Slots /\ Target # running
  BY TargetSlot
<1>2. Update.progress \in Nat
  BY DEF UpdateType
<1>3. Programmed(flash[Target], Update.progress, sectors) \in SlotType
  BY <1>1, <1>2, ProgrammedType
<1> QED BY <1>1, <1>3 DEF Program

\* What push leaves of the updater and of the slots.
LEMMA PushType ==
  ASSUME flash \in [Slots -> SlotType], Update \in UpdateType, running \in Slots,
         faults \in 0..MaxFaults,
         NEW sectors \in Seq(Sectors), NEW kept \in Buffers,
         Push(sectors, kept)
  PROVE  /\ flash' \in [Slots -> SlotType]
         /\ Update' \in UpdateType
         /\ faults' \in 0..MaxFaults
         /\ flash'[running] = flash[running]
<1>1. <<Erased>> \in Seq(Sectors)
  BY DEF Sectors
<1>2. CASE UNCHANGED <<flash, Update, faults>>
  BY <1>2
<1>3. CASE /\ Update.progress + Len(sectors) < Capacity
           /\ Program(sectors)
           /\ Update' = [Update EXCEPT !.progress = @ + Len(sectors), !.buffer = kept,
                                       !.lead = FirstLead(sectors)]
           /\ UNCHANGED faults
  <2>1. FirstLead(sectors) \in Image \cup {None}
    <3>1. sectors # <<>> => sectors[1].image \in Image \cup {None}
      BY DEF Sectors, Erased
    <3> QED BY <3>1 DEF FirstLead, UpdateType
  <2>2. Update.progress + Len(sectors) \in 0..Capacity
    BY <1>3 DEF UpdateType
  <2>3. Update' \in UpdateType
    BY <1>3, <2>1, <2>2 DEF UpdateType
  <2> QED BY <1>3, <2>3, ProgramType
<1>4. CASE Program(sectors) /\ Update' = Aborted /\ UNCHANGED faults
  BY <1>4, AbortedType, ProgramType
<1>5. CASE Program(<<Erased>>) /\ Update' = Aborted /\ faults < MaxFaults /\ faults' = faults + 1
  <2>1. faults' \in 0..MaxFaults
    BY <1>5
  <2> QED BY <1>1, <1>5, <2>1, AbortedType, ProgramType
<1> QED BY <1>2, <1>3, <1>4, <1>5 DEF Push

(***************************************************************************)
(* The invariant.                                                          *)
(***************************************************************************)
\* An upload that is being received is of an image.
Uploading == pc = "receive" => upload.image \in Image

IType == TypeOK /\ Uploading

LEMMA InitType == Init => IType
<1> SUFFICES ASSUME Init PROVE IType
  OBVIOUS
<1>1. PICK old \in Image, new \in Image, erased \in BOOLEAN :
        flash = [s \in Slots |->
          IF s = 0 THEN Of(old) ELSE IF erased THEN Blank ELSE Of(new)]
  BY DEF Init
<1>2. ASSUME NEW f \in Image
      PROVE  Of(f) \in SlotType
  <2>1. ASSUME NEW i \in 1..Capacity
        PROVE  (IF i <= N THEN Sector(f, i) ELSE Erased) \in Sectors
    BY DEF Sector, Sectors
  <2> QED BY <2>1 DEF Of, SlotType
<1>3. Blank \in SlotType
  BY DEF Blank, SlotType, Sectors
<1>4. flash \in [Slots -> SlotType]
  BY <1>1, <1>2, <1>3
<1>5. NoUpload \in UploadType
  BY DEF NoUpload, UploadType
<1>6. spiffs \in FilesType
  <2>1. \/ spiffs = [mounted |-> TRUE, content |-> "checked"]
        \/ spiffs = [mounted |-> FALSE, content |-> "erased"]
    BY DEF Init
  <2>2. CASE spiffs = [mounted |-> TRUE, content |-> "checked"]
    BY <2>2 DEF FilesType
  <2>3. CASE spiffs = [mounted |-> FALSE, content |-> "erased"]
    BY <2>3 DEF FilesType
  <2> QED BY <2>1, <2>2, <2>3
<1>7. /\ g \in Settings /\ boot = 0 /\ running = 0
      /\ Update = Idle /\ upload = NoUpload /\ lead_bytes = None
      /\ pc = "idle" /\ answers = <<>> /\ cut = FALSE /\ faults = 0 /\ others = 0
  BY DEF Init
<1>8. Update \in UpdateType /\ upload \in UploadType
  BY <1>5, <1>7, IdleType
<1>9. /\ boot \in Slots /\ running \in Slots /\ pc \in Places
      /\ faults \in 0..MaxFaults /\ others \in 0..MaxOthers
  BY <1>7 DEF Slots, Places
<1>11. cut \in BOOLEAN
  BY <1>7, Zenon
<1>10. Uploading
  BY <1>7 DEF Uploading
<1> QED BY <1>4, <1>6, <1>7, <1>8, <1>9, <1>10, <1>11 DEF IType, TypeOK

\* One step of Restart together with whatever becomes of the file system.
LEMMA RestartType ==
  ASSUME TypeOK, Restart, spiffs' \in FilesType, faults' \in 0..MaxFaults
  PROVE  IType'
<1>1. NoUpload \in UploadType
  BY DEF NoUpload, UploadType
<1>2. answers' \in Seq({"OK", "FAIL"})
  BY AnswersType DEF Restart
<1> QED BY <1>1, <1>2, IdleType DEF IType, TypeOK, Uploading, Restart, Places

LEMMA MountType ==
  ASSUME spiffs \in FilesType, Mount
  PROVE  spiffs' \in FilesType
<1>1. PICK mounted \in Mountable(spiffs.content) : spiffs' = [spiffs EXCEPT !.mounted = mounted]
  BY DEF Mount
<1>2. mounted \in BOOLEAN
  BY DEF Mountable
<1> QED BY <1>1, <1>2 DEF FilesType

LEMMA NextType == IType /\ [Next]_vars => IType'
<1> SUFFICES ASSUME IType, [Next]_vars PROVE IType'
  OBVIOUS
<1>0. /\ flash \in [Slots -> SlotType] /\ boot \in Slots /\ running \in Slots
      /\ Update \in UpdateType /\ upload \in UploadType /\ spiffs \in FilesType
      /\ faults \in 0..MaxFaults /\ others \in 0..MaxOthers
  BY DEF IType, TypeOK
<1>1. ASSUME NEW f \in Image, NEW length \in 1..N, UploadStart(f, length)
      PROVE  IType'
  <2>1. Update' \in UpdateType
    <3>1. [Idle EXCEPT !.running = TRUE] \in UpdateType
      BY IdleType DEF UpdateType
    <3> QED BY <1>0, <1>1, <3>1 DEF UploadStart, Begin
  <2>2. upload' \in UploadType /\ upload'.image \in Image
    BY <1>1 DEF UploadStart, UploadType
  <2>3. others' \in 0..MaxOthers
    BY <1>0, <1>1 DEF UploadStart
  <2> QED BY <1>1, <2>1, <2>2, <2>3 DEF UploadStart, IType, TypeOK, Uploading, Places
<1>2. CASE UploadWrite
  <2>1. upload.image \in Image /\ upload.sent + 1 \in 1..N
    BY <1>0, <1>2 DEF UploadWrite, IType, Uploading, UploadType
  <2>2. /\ Update.buffer \in Seq(Sectors)
        /\ <<Sector(upload.image, upload.sent + 1)>> \in Buffers
    <3>1. Update.buffer \in Buffers
      BY <1>0 DEF UpdateType
    <3>2. Sector(upload.image, upload.sent + 1) \in Sectors
      BY <2>1, SectorType
    <3> QED BY <3>1, <3>2, BufferSequence, OneSector
  <2>3. /\ flash' \in [Slots -> SlotType] /\ Update' \in UpdateType
        /\ faults' \in 0..MaxFaults
    BY <1>0, <1>2, <2>2, PushType DEF UploadWrite
  <2>4. upload' \in UploadType /\ upload'.image \in Image
    BY <1>0, <1>2, <2>1 DEF UploadWrite, UploadType
  <2> QED BY <1>2, <2>1, <2>3, <2>4 DEF UploadWrite, IType, TypeOK, Uploading
<1>3. CASE UploadEnd
  <2>1. Append(Update.buffer, Erased) \in Seq(Sectors) /\ <<>> \in Buffers
    <3>1. Update.buffer \in Seq(Sectors)
      BY <1>0, BufferSequence DEF UpdateType
    <3> QED BY <3>1, EmptyBuffer DEF Sectors
  <2>2. /\ flash' \in [Slots -> SlotType] /\ Update' \in UpdateType
        /\ faults' \in 0..MaxFaults
    BY <1>0, <1>3, <2>1, PushType DEF UploadEnd
  <2> QED BY <1>3, <2>2 DEF UploadEnd, IType, TypeOK, Uploading, Places
<1>4. CASE Check \/ EndRefused
  BY <1>4 DEF Check, EndRefused, IType, TypeOK, Uploading, Places, budgets
<1>5. CASE WriteLead
  <2>1. [flash[Target] EXCEPT !.lead = Update.lead] \in SlotType
    BY <1>0, TargetSlot DEF SlotType, UpdateType
  <2>2. flash' = [flash EXCEPT ![Target] = [flash[Target] EXCEPT !.lead = Update.lead]]
    BY <1>5 DEF WriteLead
  <2>3. flash' \in [Slots -> SlotType]
    BY <1>0, <2>1, <2>2, TargetSlot
  <2> QED BY <1>5, <2>3 DEF WriteLead, IType, TypeOK, Uploading, Places, budgets
<1>6. CASE Select
  <2>1. boot' \in Slots /\ Update' \in UpdateType
    BY <1>0, <1>6, TargetSlot, IdleType, AbortedType DEF Select
  <2>2. answers' \in Seq({"OK", "FAIL"})
    BY <1>6, AnswersType DEF Select
  <2> QED BY <1>6, <2>1, <2>2 DEF Select, IType, TypeOK, Uploading, Places, budgets
<1>7. CASE Post \/ FilesPost
  <2>1. answers \in Seq({"OK", "FAIL"})
    BY DEF IType, TypeOK
  <2>2. answers' = Append(answers, "OK") \/ answers' = Append(answers, "FAIL")
    BY <1>7 DEF Post, FilesPost
  <2>3. answers' \in Seq({"OK", "FAIL"})
    BY <2>1, <2>2
  <2> QED BY <1>7, <2>3 DEF Post, FilesPost, IType, TypeOK, Uploading, Places, budgets
<1>8. CASE FilesStart
  <2>1. spiffs' \in FilesType /\ upload' \in UploadType /\ others' \in 0..MaxOthers
    BY <1>0, <1>8 DEF FilesStart, FilesType, NoUpload, UploadType
  <2> QED BY <1>8, <2>1 DEF FilesStart, IType, TypeOK, Uploading, Places
<1>9. CASE FilesWrite \/ FilesAccepted
  <2>1. spiffs' \in FilesType
    BY <1>0, <1>9 DEF FilesWrite, FilesAccepted, FilesType
  <2>2. answers' \in Seq({"OK", "FAIL"})
    BY <1>9, AnswersType DEF FilesWrite, FilesAccepted, IType, TypeOK
  <2> QED BY <1>9, <2>1, <2>2 DEF FilesWrite, FilesAccepted, IType, TypeOK, Uploading, Places, budgets
<1>10. CASE FilesRefused
  <2>1. spiffs' \in FilesType
    BY <1>10 DEF FilesRefused, FilesType
  <2> QED BY <1>0, <1>10, <2>1, RestartType DEF FilesRefused, IType
<1>11. CASE Reboot
  BY <1>0, <1>11, MountType, RestartType DEF Reboot, IType
<1>12. CASE ConnectionLost
  <2>1. faults' \in 0..MaxFaults /\ upload' \in UploadType
    BY <1>0, <1>12 DEF ConnectionLost, NoUpload, UploadType
  <2> QED BY <1>12, <2>1 DEF ConnectionLost, IType, TypeOK, Uploading, Places
<1>13. CASE PowerCut
  <2>1. faults' \in 0..MaxFaults
    BY <1>0, <1>13 DEF PowerCut
  <2> QED BY <1>0, <1>13, <2>1, MountType, RestartType DEF PowerCut, IType
<1>14. CASE UNCHANGED vars
  BY <1>14 DEF vars, budgets, IType, TypeOK, Uploading
<1> QED
  BY <1>1, <1>2, <1>3, <1>4, <1>5, <1>6, <1>7, <1>8, <1>9, <1>10, <1>11, <1>12, <1>13, <1>14
     DEF Next, Callbacks

\* The updater, the slots and the callbacks keep their types for every size of
\* slot and image.
THEOREM TypeCorrect == Spec => []TypeOK
<1>1. IType => TypeOK
  BY DEF IType
<1> QED BY <1>1, InitType, NextType, PTL DEF Spec

(***************************************************************************)
(* The file system.                                                        *)
(***************************************************************************)
\* The file system is unmounted from the first erased sector to the restart.
FilesUnmounted ==
  spiffs.content = "unchecked" /\ faults = 0 => pc = "files"

StaysUnmounted == pc = "files" => ~spiffs.mounted

\* The flight-area check never opens an unchecked file system unless an upload
\* was broken off (webinterface.cpp:181-226).
THEOREM FilesAreSettled == Spec => []FilesSettled
<1> DEFINE Inv == TypeOK /\ FilesUnmounted /\ StaysUnmounted
<1>1. Init => Inv
  <2> SUFFICES ASSUME Init PROVE FilesUnmounted /\ StaysUnmounted
    BY InitType DEF IType
  <2>1. pc = "idle" /\ spiffs.content # "unchecked"
    BY DEF Init
  <2> QED BY <2>1 DEF FilesUnmounted, StaysUnmounted
<1>2. TypeOK /\ TypeOK' /\ FilesUnmounted /\ StaysUnmounted /\ [Next]_vars
        => FilesUnmounted' /\ StaysUnmounted'
  <2> SUFFICES ASSUME TypeOK, FilesUnmounted, StaysUnmounted, [Next]_vars
               PROVE  FilesUnmounted' /\ StaysUnmounted'
    OBVIOUS
  <2>0. /\ spiffs \in FilesType /\ faults \in Nat
        /\ spiffs.content = "unchecked" /\ faults = 0 => pc = "files"
        /\ pc = "files" => ~spiffs.mounted
    BY DEF TypeOK, FilesUnmounted, StaysUnmounted
  <2> USE DEF FilesUnmounted, StaysUnmounted
  <2>1. CASE UploadWrite \/ UploadEnd
    <3>1. faults' \in {faults, faults + 1}
      BY <2>1 DEF UploadWrite, UploadEnd, Push
    <3> QED BY <2>0, <2>1, <3>1 DEF UploadWrite, UploadEnd
  <2>2. CASE \E f \in Image, length \in 1..N : UploadStart(f, length)
    BY <2>0, <2>2 DEF UploadStart
  <2>3. CASE Check \/ WriteLead \/ EndRefused \/ Select
    BY <2>0, <2>3 DEF Check, WriteLead, EndRefused, Select, budgets
  <2>4. CASE Post \/ FilesPost
    BY <2>0, <2>4 DEF Post, FilesPost, budgets
  <2>5. CASE FilesStart \/ FilesWrite \/ FilesAccepted
    BY <2>0, <2>5 DEF FilesStart, FilesWrite, FilesAccepted, FilesType, budgets
  <2>6. CASE FilesRefused \/ Reboot
    BY <2>0, <2>6 DEF FilesRefused, Reboot, Restart, Mount, FilesType
  <2>7. CASE ConnectionLost \/ PowerCut
    <3>1. faults' = faults + 1 /\ pc' = "idle"
      BY <2>7 DEF ConnectionLost, PowerCut, Restart
    <3> QED BY <2>0, <3>1
  <2>8. CASE UNCHANGED vars
    BY <2>0, <2>8 DEF vars, budgets
  <2> QED BY <2>1, <2>2, <2>3, <2>4, <2>5, <2>6, <2>7, <2>8 DEF Next, Callbacks
<1>3. TypeOK /\ FilesUnmounted /\ StaysUnmounted => FilesSettled
  BY DEF TypeOK, FilesUnmounted, StaysUnmounted, FilesSettled
<1> QED BY <1>1, <1>2, <1>3, TypeCorrect, PTL DEF Spec

(***************************************************************************)
(* The refinement.                                                         *)
(***************************************************************************)
\* The slots part only between a successful end() and the restart.
SlotsTogether == boot # running => pc \in {"post", "restart"} /\ ~Update.error

\* What runs and what will be started is whole.
Startable == Whole(flash[running]) /\ Whole(flash[boot])

\* Once the check has passed the target slot stays as it was checked.
Passed == pc \in {"end", "select"} => CheckOTANext(flash[Target].body, lead_bytes)

IInv == IType /\ SlotsTogether /\ Startable /\ Passed

\* A whole slot is the image its lead says.
LEMMA WholeImage ==
  ASSUME NEW s, Whole(s)
  PROVE  /\ ImageOf(s) = s.lead /\ s.lead \in Image
         /\ s.body[N] = Sector(s.lead, N)
<1>1. N \in 1..N
  OBVIOUS
<1> QED BY <1>1 DEF Whole, Holds, ImageOf

\* What passes the check and is whole is acceptable.
LEMMA PassedIsAcceptable ==
  ASSUME NEW s, Whole(s), NEW lead, CheckOTANext(s.body, lead)
  PROVE  ImageOf(s) \in Acceptable
<1>1. /\ ImageOf(s) = s.lead /\ s.lead \in Image
      /\ s.body[N] = Sector(s.lead, N)
  BY WholeImage
<1>2. s.body[N].image = s.lead
  BY <1>1 DEF Sector
<1> QED BY <1>1, <1>2 DEF Acceptable, CheckOTANext, CheckOTAPartition, CheckPartition, DescriptorFits

\* A step that leaves the two slots that matter alone is none of the promise's.
LEMMA QuietStep ==
  ASSUME Startable, UNCHANGED <<g, boot, running>>,
         flash'[running] = flash[running], flash'[boot] = flash[boot]
  PROVE  Startable' /\ UNCHANGED Install!vars
<1>1. Whole(flash[running])' /\ Whole(flash[boot])'
  BY DEF Startable, Whole, Holds
<1>2. ImageOf(flash[running])' = ImageOf(flash[running])
  BY DEF ImageOf, Whole, Holds
<1>3. ImageOf(flash[boot])' = ImageOf(flash[boot])
  BY DEF ImageOf, Whole, Holds
<1>4. Acceptable' = Acceptable
  BY DEF Acceptable
<1> QED BY <1>1, <1>2, <1>3, <1>4 DEF Startable, Install!vars

LEMMA RestartStep ==
  ASSUME Startable, Restart
  PROVE  SlotsTogether' /\ Startable' /\ Passed' /\ Install!PowerCycle
<1>1. /\ UNCHANGED <<g, flash, boot>> /\ running' = boot /\ pc' = "idle"
  BY DEF Restart
<1>2. Whole(flash[running])' /\ Whole(flash[boot])'
  BY <1>1 DEF Startable, Whole, Holds
<1>3. ImageOf(flash[running])' = ImageOf(flash[boot])
  BY <1>1 DEF ImageOf, Whole, Holds
<1>4. ImageOf(flash[boot])' = ImageOf(flash[boot])
  BY <1>1 DEF ImageOf, Whole, Holds
<1>5. Acceptable' = Acceptable
  BY <1>1 DEF Acceptable
<1> QED BY <1>1, <1>2, <1>3, <1>4, <1>5
        DEF SlotsTogether, Startable, Passed, Install!PowerCycle

LEMMA SelectStep ==
  ASSUME IInv, Select
  PROVE  SlotsTogether' /\ Startable' /\ Passed' /\ [Install!Next]_(Install!vars)
<1>0. /\ UNCHANGED <<g, flash, running>> /\ pc' = "post" /\ pc = "select"
  BY DEF Select
<1>1. boot = running /\ boot \in Slots
  BY <1>0 DEF IInv, IType, TypeOK, SlotsTogether
<1>2. CASE ~Whole(flash[Target])
  <2>1. UNCHANGED boot
    BY <1>2 DEF Select
  <2>2. Startable' /\ UNCHANGED Install!vars
    BY <1>0, <2>1, QuietStep DEF IInv
  <2> QED BY <1>0, <1>1, <2>1, <2>2 DEF SlotsTogether, Passed
<1>3. CASE Whole(flash[Target])
  <2>1. boot' = Target /\ Update' = Idle
    BY <1>3 DEF Select
  <2>2. Whole(flash[running])' /\ Whole(flash[boot])'
    BY <1>0, <1>3, <2>1 DEF IInv, Startable, Whole, Holds
  <2>3. ImageOf(flash[running])' = ImageOf(flash[running])
    BY <1>0 DEF ImageOf, Whole, Holds
  <2>4. ImageOf(flash[boot])' = ImageOf(flash[Target])
    BY <1>0, <2>1 DEF ImageOf, Whole, Holds
  <2>5. Acceptable' = Acceptable
    BY <1>0 DEF Acceptable
  <2>6. ImageOf(flash[Target]) \in Acceptable /\ ImageOf(flash[Target]) \in Image
    <3>1. CheckOTANext(flash[Target].body, lead_bytes)
      BY <1>0 DEF IInv, Passed
    <3> QED BY <1>3, <3>1, PassedIsAcceptable, WholeImage
  <2>7. Install!Install(ImageOf(flash[Target]))
    BY <1>1, <2>3, <2>4, <2>5, <2>6 DEF Install!Install
  <2>8. ~Update'.error
    BY <2>1 DEF Idle
  <2> QED BY <1>0, <2>2, <2>6, <2>7, <2>8
          DEF SlotsTogether, Startable, Passed, Install!Next
<1> QED BY <1>2, <1>3

LEMMA PromiseStep ==
  ASSUME IInv, [Next]_vars
  PROVE  SlotsTogether' /\ Startable' /\ Passed' /\ [Install!Next]_(Install!vars)
<1>0. /\ Startable /\ SlotsTogether /\ Passed
      /\ flash \in [Slots -> SlotType] /\ boot \in Slots /\ running \in Slots
      /\ Update \in UpdateType /\ upload \in UploadType
      /\ faults \in 0..MaxFaults
  BY DEF IInv, IType, TypeOK
<1>1. ASSUME NEW f \in Image, NEW length \in 1..N, UploadStart(f, length)
      PROVE  SlotsTogether' /\ Startable' /\ Passed' /\ UNCHANGED Install!vars
  <2>1. UNCHANGED <<g, flash, boot, running>> /\ pc = "idle" /\ pc' = "receive"
    BY <1>1 DEF UploadStart
  <2> QED BY <1>0, <2>1, QuietStep DEF SlotsTogether, Passed
<1>2. CASE UploadWrite \/ UploadEnd
  <2>1. UNCHANGED <<g, boot, running>> /\ pc = "receive" /\ pc' \in {"receive", "check"}
    BY <1>2 DEF UploadWrite, UploadEnd
  <2>2. boot = running
    BY <1>0, <2>1 DEF SlotsTogether
  <2>3. flash'[running] = flash[running]
    <3>1. CASE UploadWrite
      <4>1. upload.image \in Image /\ upload.sent + 1 \in 1..N
        BY <1>0, <3>1 DEF UploadWrite, IInv, IType, Uploading, UploadType
      <4>2. <<Sector(upload.image, upload.sent + 1)>> \in Buffers
        BY <4>1, SectorType, OneSector
      <4>3. Update.buffer \in Seq(Sectors)
        BY <1>0, BufferSequence DEF UpdateType
      <4> QED BY <1>0, <3>1, <4>2, <4>3, PushType DEF UploadWrite
    <3>2. CASE UploadEnd
      <4>1. Update.buffer \in Seq(Sectors) /\ Erased \in Sectors
        BY <1>0, BufferSequence DEF UpdateType, Sectors
      <4>2. Append(Update.buffer, Erased) \in Seq(Sectors)
        BY <4>1
      <4> QED BY <1>0, <3>2, <4>2, EmptyBuffer, PushType DEF UploadEnd
    <3> QED BY <1>2, <3>1, <3>2
  <2> QED BY <1>0, <2>1, <2>2, <2>3, QuietStep DEF SlotsTogether, Passed
<1>3. CASE Check
  <2>1. UNCHANGED <<g, flash, boot, running, lead_bytes>> /\ pc = "check"
    BY <1>3 DEF Check
  <2>2. Startable' /\ UNCHANGED Install!vars
    BY <1>0, <2>1, QuietStep
  <2>3. boot' = running'
    BY <1>0, <2>1 DEF SlotsTogether
  <2>4. pc' = "end" => CheckOTANext(flash[Target].body, lead_bytes)
    BY <1>3 DEF Check
  <2>5. CheckOTANext(flash[Target].body, lead_bytes)'
          <=> CheckOTANext(flash[Target].body, lead_bytes)
    BY <2>1 DEF CheckOTANext, CheckOTAPartition, CheckPartition, DescriptorFits,
                Descriptors, Holds, Target
  <2>6. pc' \in {"end", "post"}
    BY <1>3 DEF Check
  <2> QED BY <2>2, <2>3, <2>4, <2>5, <2>6 DEF SlotsTogether, Passed
<1>4. CASE WriteLead
  <2>1. /\ UNCHANGED <<g, boot, running, lead_bytes>> /\ pc = "end" /\ pc' = "select"
        /\ flash' = [flash EXCEPT ![Target] = [flash[Target] EXCEPT !.lead = Update.lead]]
    BY <1>4 DEF WriteLead
  <2>2. boot = running /\ Target # running /\ Target \in Slots
    BY <1>0, <2>1, TargetSlot DEF SlotsTogether
  <2>3. flash'[running] = flash[running] /\ flash'[boot] = flash[boot]
    BY <1>0, <2>1, <2>2
  <2>4. Startable' /\ UNCHANGED Install!vars
    BY <1>0, <2>1, <2>3, QuietStep
  <2>5. Target' = Target
    BY <2>1 DEF Target
  <2>6. flash'[Target].body = flash[Target].body
    BY <1>0, <2>1, <2>2 DEF SlotType
  <2>7. CheckOTANext(flash[Target].body, lead_bytes)'
          <=> CheckOTANext(flash[Target].body, lead_bytes)
    BY <2>1, <2>5, <2>6 DEF CheckOTANext, CheckOTAPartition, CheckPartition,
                            DescriptorFits, Descriptors, Holds
  <2> QED BY <1>0, <2>1, <2>2, <2>4, <2>7 DEF SlotsTogether, Passed
<1>5. CASE Select
  BY <1>5, SelectStep
<1>6. CASE EndRefused
  <2>1. UNCHANGED <<g, flash, boot, running>> /\ pc = "end" /\ pc' = "post"
    BY <1>6 DEF EndRefused
  <2> QED BY <1>0, <2>1, QuietStep DEF SlotsTogether, Passed
<1>7. CASE Post \/ FilesPost
  <2>1. /\ UNCHANGED <<g, flash, boot, running, Update>>
        /\ pc' = "restart" \/ (pc' = "idle" /\ Update.error)
    BY <1>7 DEF Post, FilesPost
  <2> QED BY <1>0, <2>1, QuietStep DEF SlotsTogether, Passed
<1>8. CASE FilesStart \/ FilesWrite \/ FilesAccepted \/ ConnectionLost
  <2>1. /\ UNCHANGED <<g, flash, boot, running>>
        /\ pc \notin {"post", "restart", "end", "select"} /\ pc' \notin {"end", "select"}
    BY <1>8 DEF FilesStart, FilesWrite, FilesAccepted, ConnectionLost
  <2> QED BY <1>0, <2>1, QuietStep DEF SlotsTogether, Passed
<1>9. CASE FilesRefused \/ Reboot \/ PowerCut
  BY <1>0, <1>9, RestartStep DEF FilesRefused, Reboot, PowerCut, Install!Next
<1>10. CASE UNCHANGED vars
  <2>1. UNCHANGED <<g, flash, boot, running, pc, Update, lead_bytes>>
    BY <1>10 DEF vars
  <2>2. Startable' /\ UNCHANGED Install!vars
    BY <1>0, <2>1, QuietStep
  <2>3. CheckOTANext(flash[Target].body, lead_bytes)'
          <=> CheckOTANext(flash[Target].body, lead_bytes)
    BY <2>1 DEF CheckOTANext, CheckOTAPartition, CheckPartition, DescriptorFits,
                Descriptors, Holds, Target
  <2> QED BY <1>0, <2>1, <2>2, <2>3 DEF SlotsTogether, Passed
<1> QED
  BY <1>1, <1>2, <1>3, <1>4, <1>5, <1>6, <1>7, <1>8, <1>9, <1>10 DEF Next, Callbacks

LEMMA InitPromise == Init => IInv /\ Install!Init
<1> SUFFICES ASSUME Init PROVE IInv /\ Install!Init
  OBVIOUS
<1>1. IType
  BY InitType
<1>2. PICK old \in Image, new \in Image, erased \in BOOLEAN :
        flash = [s \in Slots |->
          IF s = 0 THEN Of(old) ELSE IF erased THEN Blank ELSE Of(new)]
  BY DEF Init
<1>3. boot = 0 /\ running = 0 /\ pc = "idle"
  BY DEF Init
<1>4. flash[0] = Of(old)
  BY <1>2 DEF Slots
<1>5. Whole(flash[0])
  <2>1. Of(old).lead = old
    BY DEF Of
  <2>2. \A i \in 1..N : Of(old).body[i] = Sector(old, i)
    BY DEF Of
  <2> QED BY <1>4, <2>1, <2>2 DEF Whole, Holds
<1>6. ImageOf(flash[0]) \in Image
  BY <1>5, WholeImage
<1>7. Acceptable \subseteq Image
  BY DEF Acceptable
<1> QED BY <1>1, <1>3, <1>5, <1>6, <1>7
        DEF IInv, SlotsTogether, Startable, Passed, Install!Init

\* Whatever breaks off, what a power cycle starts changes in one step, from one
\* whole image to another the check accepts (webinterface.cpp:118-168,
\* check_firmware.cpp:74-92).
THEOREM AtOnce == Spec => InstallsAtOnce
<1>1. Init => IInv /\ Install!Init
  BY InitPromise
<1>2. IInv /\ [Next]_vars => IInv' /\ [Install!Next]_(Install!vars)
  BY NextType, PromiseStep DEF IInv
<1> QED BY <1>1, <1>2, PTL DEF Spec, InstallsAtOnce, Install!Spec
(***************************************************************************)
(* The answer.                                                             *)
(***************************************************************************)
Handling == pc \in {"receive", "check", "end", "select"}

\* What is being sent is at least a sector and at most the whole of an image.
Sendable ==
  Handling => /\ upload.image \in Image /\ upload.length \in 1..N
              /\ upload.sent <= upload.length

\* An upload finds the updater at rest unless an earlier one was broken off, and
\* only a failed write stops it before the end.
UpdaterFree ==
  /\ pc = "idle" /\ ~cut => ~Update.running
  /\ Update.error => ~Update.running
  /\ pc = "select" => Update.running
UpdaterRuns == Handling /\ ~cut /\ faults = 0 => Update.running

Received(k) == \A i \in 1..k : flash[Target].body[i] = Sector(upload.image, i)

\* While the file comes in, its last sector is in the buffer and the others are
\* in the flash, the lead apart.
InBuffer ==
  pc = "receive" /\ ~cut /\ Update.running =>
    \/ upload.sent = 0 /\ Update.progress = 0 /\ Update.buffer = <<>>
    \/ /\ upload.sent > 0 /\ Update.progress = upload.sent - 1
       /\ Update.buffer = <<Sector(upload.image, upload.sent)>>
       /\ Received(upload.sent - 1)
       /\ lead_bytes = upload.image
       /\ upload.sent > 1 => Update.lead = upload.image

\* After the flush all of it is, with an erased sector behind it.
InFlash ==
  pc \in {"check", "end", "select"} /\ ~cut /\ Update.running =>
    /\ Received(upload.length)
    /\ flash[Target].body[upload.length + 1] = Erased
    /\ lead_bytes = upload.image /\ Update.lead = upload.image
    /\ pc = "select" => flash[Target].lead = upload.image

UploadFollowed == Sendable /\ UpdaterFree /\ UpdaterRuns /\ InBuffer /\ InFlash

\* A sector behind the one in the buffer.
LEMMA TwoSectors ==
  ASSUME NEW a \in Sectors, NEW b \in Sectors
  PROVE  /\ Len(Append(<<a>>, b)) = 2
         /\ Append(<<a>>, b)[1] = a /\ Append(<<a>>, b)[2] = b
<1>1. Len(Append(<<a>>, b)) = 2
  OBVIOUS
<1>2. Append(<<a>>, b)[1] = a
  OBVIOUS
<1>3. Append(<<a>>, b)[2] = b
  OBVIOUS
<1> QED BY <1>1, <1>2, <1>3, Zenon

\* What programming leaves in the target slot.
LEMMA ProgramBody ==
  ASSUME flash \in [Slots -> SlotType], Update \in UpdateType, running \in Slots,
         UNCHANGED running, NEW sectors \in Seq(Sectors), Program(sectors)
  PROVE  \A i \in 1..Capacity :
           flash'[Target'].body[i] =
             IF i \in Update.progress + 1..Update.progress + Len(sectors)
               THEN sectors[i - Update.progress] ELSE flash[Target].body[i]
<1>1. Target \in Slots /\ Target' = Target
  BY TargetSlot DEF Target
<1>2. flash'[Target] = Programmed(flash[Target], Update.progress, sectors)
  BY <1>1 DEF Program
<1> QED BY <1>1, <1>2 DEF Programmed

\* A push that leaves the updater running has programmed its sectors; one that
\* stops it ran out of room or met a failed write.
LEMMA PushOutcome ==
  ASSUME Update \in UpdateType, faults \in 0..MaxFaults, NEW sectors, NEW kept,
         Push(sectors, kept)
  PROVE  \/ ~Update.running /\ UNCHANGED <<flash, Update, faults>>
         \/ /\ Update.running /\ Program(sectors) /\ UNCHANGED faults
            /\ Update'.running /\ Update'.error = Update.error
            /\ Update'.progress = Update.progress + Len(sectors)
            /\ Update'.buffer = kept /\ Update'.lead = FirstLead(sectors)
         \/ /\ Update.running /\ ~Update'.running
            /\ faults' > faults \/ Update.progress + Len(sectors) >= Capacity
<1>1. CASE /\ Update.running
           /\ Update.progress + Len(sectors) < Capacity
           /\ Program(sectors)
           /\ Update' = [Update EXCEPT !.progress = @ + Len(sectors), !.buffer = kept,
                                       !.lead = FirstLead(sectors)]
           /\ UNCHANGED faults
  BY <1>1 DEF UpdateType
<1>2. CASE Update.running /\ Update' = Aborted /\ faults' = faults + 1
  BY <1>2 DEF Aborted, Idle
<1>3. CASE Update.running /\ Update' = Aborted /\ Update.progress + Len(sectors) >= Capacity
  BY <1>3 DEF Aborted, Idle
<1> QED BY <1>1, <1>2, <1>3 DEF Push

\* One sector more: the one that was in the buffer is in the flash.
LEMMA WriteFollowed ==
  ASSUME IType, UploadFollowed, UploadWrite
  PROVE  UploadFollowed'
<1> DEFINE f == upload.image
           k == upload.sent
<1>0. /\ flash \in [Slots -> SlotType] /\ running \in Slots
      /\ Update \in UpdateType /\ upload \in UploadType /\ faults \in 0..MaxFaults
      /\ Sendable /\ UpdaterFree /\ UpdaterRuns /\ InBuffer
  BY DEF IType, TypeOK, UploadFollowed
<1>1. /\ pc = "receive" /\ pc' = "receive" /\ UNCHANGED <<running, cut>>
      /\ f \in Image /\ k \in Nat /\ k < upload.length /\ upload.length \in 1..N
      /\ upload'.image = f /\ upload'.length = upload.length /\ upload'.sent = k + 1
      /\ lead_bytes' = f
  BY <1>0 DEF UploadWrite, Sendable, Handling, UploadType
<1>2. Push(Update.buffer, <<Sector(f, k + 1)>>)
  BY DEF UploadWrite
<1>3. Sendable' /\ InFlash'
  BY <1>1 DEF Sendable, InFlash
<1>4. faults' \in Nat /\ faults' >= faults
  BY <1>0, <1>2 DEF Push
<1>5. CASE ~Update'.running
  <2>1. UpdaterRuns'
    <3> SUFFICES ASSUME ~cut, faults' = 0 PROVE FALSE
      BY <1>1, <1>5 DEF UpdaterRuns
    <3>1. faults = 0 /\ Update.running
      BY <1>0, <1>1, <1>4 DEF UpdaterRuns, Handling
    <3>2. ~(Update.progress + Len(Update.buffer) >= Capacity)
      <4>1. CASE k = 0
        BY <1>0, <1>1, <3>1, <4>1 DEF InBuffer
      <4>2. CASE k > 0
        <5>1. Update.progress = k - 1 /\ Len(Update.buffer) = 1
          <6>1. Update.progress = k - 1 /\ Update.buffer = <<Sector(f, k)>>
            BY <1>0, <1>1, <3>1, <4>2 DEF InBuffer
          <6> QED BY <6>1
        <5> QED BY <1>1, <5>1
      <4> QED BY <1>1, <4>1, <4>2
    <3>3. faults' > faults
      BY <1>0, <1>2, <1>5, <3>1, <3>2, PushOutcome
    <3> QED BY <3>1, <3>3
  <2>2. UpdaterFree' /\ InBuffer'
    BY <1>1, <1>5 DEF UpdaterFree, InBuffer
  <2> QED BY <1>3, <2>1, <2>2 DEF UploadFollowed
<1>6. CASE Update'.running
  <2>1. /\ Update.running /\ Program(Update.buffer) /\ Update'.error = Update.error
        /\ Update'.progress = Update.progress + Len(Update.buffer)
        /\ Update'.buffer = <<Sector(f, k + 1)>> /\ Update'.lead = FirstLead(Update.buffer)
    BY <1>0, <1>2, <1>6, PushOutcome
  <2>2. UpdaterFree' /\ UpdaterRuns'
    BY <1>0, <1>1, <1>6, <2>1 DEF UpdaterFree, UpdaterRuns
  <2>3. InBuffer'
    <3> SUFFICES ASSUME ~cut
                 PROVE  /\ Update'.progress = k /\ lead_bytes' = f
                        /\ \A i \in 1..k : flash'[Target'].body[i] = Sector(f, i)
                        /\ k > 0 => Update'.lead = f
      <4>1. /\ upload'.sent > 0 /\ upload'.sent - 1 = k /\ (upload'.sent > 1 <=> k > 0)
        BY <1>1
      <4> QED BY <1>1, <2>1, <4>1 DEF InBuffer, Received
    <3>1. Update.buffer \in Seq(Sectors)
      BY <1>0, BufferSequence DEF UpdateType
    <3>2. \A i \in 1..Capacity :
            flash'[Target'].body[i] =
              IF i \in Update.progress + 1..Update.progress + Len(Update.buffer)
                THEN Update.buffer[i - Update.progress] ELSE flash[Target].body[i]
      BY <1>0, <1>1, <2>1, <3>1, ProgramBody
    <3>3. CASE k = 0
      BY <1>0, <1>1, <2>1, <3>3 DEF InBuffer
    <3>4. CASE k > 0
      <4>1. /\ Update.progress = k - 1 /\ Update.buffer = <<Sector(f, k)>>
            /\ Received(k - 1) /\ (k > 1 => Update.lead = f)
        BY <1>0, <1>1, <2>1, <3>4 DEF InBuffer
      <4>2. Update'.progress = k /\ Update'.lead = f
        BY <1>1, <2>1, <3>4, <4>1 DEF FirstLead, Sector
      <4>3. \A i \in 1..k : flash'[Target'].body[i] = Sector(f, i)
        <5>1. k \in 1..Capacity /\ k - Update.progress = 1 /\ Len(Update.buffer) = 1
          BY <1>1, <3>4, <4>1
        <5>2. Update.buffer[1] = Sector(f, k)
          BY <4>1
        <5>3. flash'[Target'].body[k] = Sector(f, k)
          BY <3>2, <4>1, <5>1, <5>2
        <5>4. ASSUME NEW i \in 1..k - 1
              PROVE  flash'[Target'].body[i] = Sector(f, i)
          <6>1. i \in 1..Capacity /\ i \notin Update.progress + 1..Update.progress + 1
            BY <1>1, <4>1
          <6>2. flash[Target].body[i] = Sector(f, i)
            BY <4>1 DEF Received
          <6> QED BY <3>2, <5>1, <6>1, <6>2
        <5> QED BY <1>1, <5>3, <5>4
      <4> QED BY <1>1, <4>2, <4>3
    <3> QED BY <1>1, <3>3, <3>4
  <2> QED BY <1>3, <2>2, <2>3 DEF UploadFollowed
<1> QED BY <1>5, <1>6

\* The flush: the last sector and the erased one behind it are in the flash.
LEMMA EndFollowed ==
  ASSUME IType, UploadFollowed, UploadEnd
  PROVE  UploadFollowed'
<1> DEFINE f == upload.image
           k == upload.sent
           sectors == Append(Update.buffer, Erased)
<1>0. /\ flash \in [Slots -> SlotType] /\ running \in Slots
      /\ Update \in UpdateType /\ upload \in UploadType /\ faults \in 0..MaxFaults
      /\ Sendable /\ UpdaterFree /\ UpdaterRuns /\ InBuffer
  BY DEF IType, TypeOK, UploadFollowed
<1>1. /\ pc = "receive" /\ pc' = "check" /\ UNCHANGED <<running, cut, upload, lead_bytes>>
      /\ f \in Image /\ k = upload.length /\ k \in 1..N
      /\ Push(sectors, <<>>)
  BY <1>0 DEF UploadEnd, Sendable, Handling
<1>2. Update.buffer \in Seq(Sectors) /\ sectors \in Seq(Sectors)
  <2>1. Update.buffer \in Seq(Sectors) /\ Erased \in Sectors
    BY <1>0, BufferSequence DEF UpdateType, Sectors
  <2> QED BY <2>1
<1>3. Sendable' /\ InBuffer'
  BY <1>0, <1>1 DEF Sendable, Handling, InBuffer
<1>4. faults' \in Nat /\ faults' >= faults
  BY <1>0, <1>1 DEF Push
<1>5. ASSUME ~cut, Update.running
      PROVE  /\ Update.progress = k - 1 /\ Len(sectors) = 2
             /\ sectors[1] = Sector(f, k) /\ sectors[2] = Erased
             /\ Received(k - 1) /\ lead_bytes = f /\ (k > 1 => Update.lead = f)
  <2>1. /\ Update.progress = k - 1 /\ Update.buffer = <<Sector(f, k)>>
        /\ Received(k - 1) /\ lead_bytes = f /\ (k > 1 => Update.lead = f)
    BY <1>0, <1>1, <1>5 DEF InBuffer
  <2>2. /\ Len(sectors) = 2 /\ sectors[1] = Sector(f, k) /\ sectors[2] = Erased
    <3>1. Sector(f, k) \in Sectors /\ Erased \in Sectors
      BY <1>1, SectorType DEF Sectors
    <3> QED BY <2>1, <3>1, TwoSectors
  <2> QED BY <2>1, <2>2
<1> HIDE DEF sectors
<1>6. CASE ~Update'.running
  <2>1. UpdaterRuns'
    <3> SUFFICES ASSUME ~cut, faults' = 0 PROVE FALSE
      BY <1>1, <1>6 DEF UpdaterRuns
    <3>1. faults = 0 /\ Update.running
      BY <1>0, <1>1, <1>4 DEF UpdaterRuns, Handling
    <3>2. ~(Update.progress + Len(sectors) >= Capacity)
      <4>1. Update.progress = k - 1 /\ Len(sectors) = 2
        BY <1>5, <3>1
      <4> QED BY <1>1, <4>1
    <3>3. faults' > faults
      BY <1>0, <1>1, <1>6, <3>1, <3>2, PushOutcome
    <3> QED BY <3>1, <3>3
  <2>2. UpdaterFree' /\ InFlash'
    BY <1>1, <1>6 DEF UpdaterFree, InFlash
  <2> QED BY <1>3, <2>1, <2>2 DEF UploadFollowed
<1>7. CASE Update'.running
  <2>1. /\ Update.running /\ Program(sectors) /\ Update'.error = Update.error
        /\ Update'.lead = FirstLead(sectors)
    BY <1>0, <1>1, <1>7, PushOutcome
  <2>2. UpdaterFree' /\ UpdaterRuns'
    BY <1>0, <1>1, <1>7, <2>1 DEF UpdaterFree, UpdaterRuns
  <2>3. InFlash'
    <3> SUFFICES ASSUME ~cut
                 PROVE  /\ Received(k)' /\ flash'[Target'].body[k + 1] = Erased
                        /\ lead_bytes = f /\ Update'.lead = f
      BY <1>1 DEF InFlash
    <3>1. /\ Update.progress = k - 1 /\ Len(sectors) = 2
          /\ sectors[1] = Sector(f, k) /\ sectors[2] = Erased
          /\ Received(k - 1) /\ lead_bytes = f /\ (k > 1 => Update.lead = f)
      BY <1>5, <2>1
    <3>2. \A i \in 1..Capacity :
            flash'[Target'].body[i] =
              IF i \in Update.progress + 1..Update.progress + Len(sectors)
                THEN sectors[i - Update.progress] ELSE flash[Target].body[i]
      BY <1>0, <1>1, <1>2, <2>1, ProgramBody
    <3>3. Update'.lead = f
      <4>1. sectors # <<>> /\ sectors[1].image = f
        BY <3>1 DEF Sector
      <4>2. Update.progress = 0 <=> ~(k > 1)
        BY <1>1, <3>1
      <4> QED BY <2>1, <3>1, <4>1, <4>2 DEF FirstLead
    <3>4. \A i \in 1..k : flash'[Target'].body[i] = Sector(f, i)
      <4>1. k \in 1..Capacity /\ k - Update.progress = 1
        BY <1>1, <3>1
      <4>2. flash'[Target'].body[k] = Sector(f, k)
        BY <3>1, <3>2, <4>1
      <4>3. ASSUME NEW i \in 1..k - 1
            PROVE  flash'[Target'].body[i] = Sector(f, i)
        <5>1. i \in 1..Capacity /\ i \notin Update.progress + 1..Update.progress + 2
          BY <1>1, <3>1
        <5>2. flash[Target].body[i] = Sector(f, i)
          BY <3>1 DEF Received
        <5> QED BY <3>1, <3>2, <5>1, <5>2
      <4> QED BY <1>1, <4>2, <4>3
    <3>5. flash'[Target'].body[k + 1] = Erased
      <4>1. /\ k + 1 \in 1..Capacity /\ (k + 1) - Update.progress = 2
            /\ k + 1 \in Update.progress + 1..Update.progress + 2
        BY <1>1, <3>1
      <4> QED BY <3>1, <3>2, <4>1
    <3> QED BY <1>1, <3>1, <3>3, <3>4, <3>5 DEF Received
  <2> QED BY <1>3, <2>2, <2>3 DEF UploadFollowed
<1> QED BY <1>6, <1>7

\* A new upload takes a fresh updater unless an earlier one was broken off.
LEMMA StartFollowed ==
  ASSUME IType, UploadFollowed, NEW f \in Image, NEW length \in 1..N,
         UploadStart(f, length)
  PROVE  UploadFollowed'
<1>1. /\ pc = "idle" /\ pc' = "receive" /\ UNCHANGED <<cut, faults>>
      /\ upload' = [image |-> f, length |-> length, sent |-> 0] /\ Begin
  BY DEF UploadStart
<1>2. \/ ~Update.running /\ Update' = [Idle EXCEPT !.running = TRUE]
      \/ Update.running /\ Update' = Update
  <2>1. Update' = IF Update.running THEN Update ELSE [Idle EXCEPT !.running = TRUE]
    BY <1>1 DEF Begin
  <2>2. Update.running => Update' = Update
    BY <2>1, Zenon
  <2>3. ~Update.running => Update' = [Idle EXCEPT !.running = TRUE]
    BY <2>1, Zenon
  <2> QED BY <2>2, <2>3
<1>3. Update'.running /\ ~Update'.error
  BY <1>2 DEF Idle, UploadFollowed, UpdaterFree
<1>4. ~cut => Update'.progress = 0 /\ Update'.buffer = <<>>
  BY <1>1, <1>2 DEF Idle, UploadFollowed, UpdaterFree
<1>5. Sendable'
  BY <1>1 DEF Sendable
<1>6. UpdaterFree' /\ UpdaterRuns' /\ InBuffer' /\ InFlash'
  BY <1>1, <1>3, <1>4 DEF UpdaterFree, UpdaterRuns, InBuffer, InFlash
<1> QED BY <1>5, <1>6 DEF UploadFollowed

\* end() writes the lead behind which the sectors are.
LEMMA LeadFollowed ==
  ASSUME IType, UploadFollowed, WriteLead
  PROVE  UploadFollowed'
<1>0. flash \in [Slots -> SlotType] /\ Target \in Slots /\ Target' = Target
  BY TargetSlot DEF IType, TypeOK, WriteLead, Target
<1>1. /\ pc = "end" /\ pc' = "select" /\ Update.running
      /\ UNCHANGED <<running, Update, upload, lead_bytes, cut, faults>>
  BY DEF WriteLead, budgets
<1>2. /\ flash'[Target].lead = Update.lead
      /\ flash'[Target].body = flash[Target].body
  BY <1>0 DEF WriteLead, SlotType
<1>3. Sendable' /\ UpdaterFree' /\ UpdaterRuns' /\ InBuffer'
  BY <1>1 DEF UploadFollowed, Sendable, Handling, UpdaterFree, UpdaterRuns, InBuffer
<1>4. InFlash'
  BY <1>0, <1>1, <1>2 DEF UploadFollowed, InFlash, Received
<1> QED BY <1>3, <1>4 DEF UploadFollowed

\* A restart leaves nothing of an upload.
LEMMA RestartFollowed ==
  ASSUME Restart
  PROVE  UploadFollowed' /\ pc' = "idle"
<1>1. pc' = "idle" /\ Update' = Idle
  BY DEF Restart
<1> QED
  BY <1>1 DEF UploadFollowed, Sendable, Handling, UpdaterFree, UpdaterRuns, InBuffer,
              InFlash, Idle

LEMMA SectorFields ==
  ASSUME NEW f, NEW i
  PROVE  Sector(f, i).image = f /\ Sector(f, i).part = i
BY DEF Sector

\* The first descriptor of a whole image is its own.
LEMMA WholeFits ==
  ASSUME NEW f \in Image \ Bare, NEW body, \A i \in 1..N : body[i] = Sector(f, i)
  PROVE  DescriptorFits(body) /\ body[N].image = f
<1>1. \A i \in 1..N : body[i].image = f /\ body[i].part = i
  BY SectorFields
<1>2. N \in 1..N
  OBVIOUS
<1>3. body[N].image = f /\ body[N].part = N
  BY <1>1, <1>2, Zenon
<1>4. ASSUME NEW i \in Descriptors(body), ~(i >= N)
      PROVE  FALSE
  <2>1. i \in 1..N /\ i # N
    BY <1>4 DEF Descriptors
  <2>2. body[i].part = N
    BY DEF Descriptors
  <2> QED BY <1>1, <2>1, <2>2
<1> QED BY <1>3, <1>4 DEF DescriptorFits

\* The check lets a whole file pass that is acceptable.
LEMMA GoodFilePasses ==
  ASSUME UploadFollowed, pc = "check", ~cut, faults = 0,
         upload.length = N, upload.image \in Acceptable
  PROVE  CheckOTANext(flash[Target].body, lead_bytes)
<1> DEFINE f == upload.image
           body == flash[Target].body
<1>1. Update.running
  BY DEF UploadFollowed, UpdaterRuns, Handling
<1>2. f \in Image /\ lead_bytes = f /\ \A i \in 1..N : body[i] = Sector(f, i)
  BY <1>1 DEF UploadFollowed, Sendable, Handling, InFlash, Received
<1>3. SUFFICES ASSUME g.lock_level # -1
               PROVE  CheckOTANext(body, lead_bytes)
  BY DEF CheckOTANext
<1>4. f \notin Bare \cup Foreign /\ (g.public_keys => f \in Signed)
  BY <1>3 DEF Acceptable
<1> HIDE DEF f, body
<1>5. DescriptorFits(body) /\ body[N].image = f
  BY <1>2, <1>4, WholeFits
<1>6. Holds([lead |-> lead_bytes, body |-> body], f)
  BY <1>2 DEF Holds
<1> QED
  BY <1>4, <1>5, <1>6 DEF CheckOTANext, CheckOTAPartition, CheckPartition

\* What Select finds in the slot is the file that was sent, if it is whole.
LEMMA SelectAnswers ==
  ASSUME IType, UploadFollowed, Select
  PROVE  FirstAnswer'
<1> DEFINE f == upload.image
<1>1. /\ pc = "select" /\ UNCHANGED <<flash, running, upload, cut, faults>>
      /\ Whole(flash[Target]) => boot' = Target /\ answers' = <<"OK">>
      /\ ~Whole(flash[Target]) => answers' = <<"FAIL">>
  BY DEF Select, budgets
<1>2. SUFFICES ASSUME ~cut
               PROVE  IF Whole(flash[Target])
                        THEN upload.length = N /\ Holds(flash[Target], f)
                        ELSE upload.length # N
  <2>1. CASE Whole(flash[Target])
    BY <1>1, <1>2, <2>1 DEF FirstAnswer
  <2>2. CASE ~Whole(flash[Target])
    BY <1>1, <1>2, <2>2 DEF FirstAnswer
  <2> QED BY <2>1, <2>2
<1>3. /\ f \in Image /\ upload.length \in 1..N /\ flash[Target].lead = f
      /\ Received(upload.length) /\ flash[Target].body[upload.length + 1] = Erased
  BY <1>1, <1>2 DEF UploadFollowed, Sendable, Handling, UpdaterFree, InFlash
<1>4. CASE Whole(flash[Target])
  <2>1. Holds(flash[Target], f)
    BY <1>3, <1>4 DEF Whole, Holds
  <2>2. ASSUME upload.length # N PROVE FALSE
    <3>1. upload.length + 1 \in 1..N
      BY <1>3, <2>2
    <3>2. flash[Target].body[upload.length + 1] = Sector(f, upload.length + 1)
      BY <2>1, <3>1 DEF Holds
    <3> QED BY <1>3, <3>2 DEF Sector, Erased
  <2> QED BY <1>4, <2>1, <2>2
<1>5. CASE ~Whole(flash[Target])
  BY <1>3, <1>5 DEF Whole, Holds, Received
<1> QED BY <1>4, <1>5

LEMMA AnswerStep ==
  ASSUME IType, UploadFollowed, FirstAnswer, [Next]_vars
  PROVE  UploadFollowed' /\ FirstAnswer'
<1>0. Sendable /\ UpdaterFree /\ UpdaterRuns /\ InBuffer /\ InFlash
  BY DEF UploadFollowed
<1>1. ASSUME NEW f \in Image, NEW length \in 1..N, UploadStart(f, length)
      PROVE  UploadFollowed' /\ FirstAnswer'
  BY <1>1, StartFollowed DEF UploadStart, FirstAnswer
<1>2. CASE UploadWrite
  BY <1>2, WriteFollowed DEF UploadWrite, FirstAnswer
<1>3. CASE UploadEnd
  BY <1>3, EndFollowed DEF UploadEnd, FirstAnswer
<1>4. CASE Check
  <2>1. UNCHANGED <<flash, running, Update, upload, lead_bytes, cut, faults>>
    BY <1>4 DEF Check, budgets
  <2>2. UploadFollowed'
    BY <1>0, <1>4, <2>1 DEF Check, UploadFollowed, Sendable, Handling, UpdaterFree,
         UpdaterRuns, InBuffer, InFlash, Received, Target
  <2>3. ASSUME pc' = "post", ~cut, faults = 0, upload.length = N,
               upload.image \in Acceptable
        PROVE  FALSE
    <3>1. pc = "check" /\ ~CheckOTANext(flash[Target].body, lead_bytes)
      BY <1>4, <2>3 DEF Check
    <3> QED BY <2>3, <3>1, GoodFilePasses
  <2>4. Acceptable' = Acceptable
    BY <1>4 DEF Check, Acceptable
  <2>5. pc' = "post" => answers' = <<"FAIL">>
    BY <1>4 DEF Check
  <2> QED BY <2>1, <2>2, <2>3, <2>4, <2>5 DEF FirstAnswer
<1>5. CASE WriteLead
  BY <1>5, LeadFollowed DEF WriteLead, FirstAnswer
<1>6. CASE EndRefused
  <2>1. /\ pc = "end" /\ pc' = "post" /\ ~Update.running /\ answers' = <<"FAIL">>
        /\ UNCHANGED <<Update, cut, faults>>
    BY <1>6 DEF EndRefused, budgets
  <2>2. UploadFollowed'
    BY <1>0, <2>1 DEF UploadFollowed, Sendable, Handling, UpdaterFree, UpdaterRuns,
         InBuffer, InFlash
  <2>3. cut \/ faults # 0
    BY <1>0, <2>1 DEF UpdaterRuns, Handling
  <2> QED BY <2>1, <2>2, <2>3 DEF FirstAnswer
<1>7. CASE Select
  <2>1. pc' = "post" /\ ~Update'.running
    BY <1>7 DEF Select, Idle, Aborted
  <2>2. UploadFollowed'
    BY <2>1 DEF UploadFollowed, Sendable, Handling, UpdaterFree, UpdaterRuns,
         InBuffer, InFlash
  <2> QED BY <1>7, <2>2, SelectAnswers
<1>8. CASE Post \/ FilesPost
  <2>1. /\ UNCHANGED <<Update, cut>>
        /\ pc' = "restart" \/ (pc' = "idle" /\ Update.error)
    BY <1>8 DEF Post, FilesPost
  <2> QED BY <1>0, <2>1 DEF UploadFollowed, Sendable, Handling, UpdaterFree,
               UpdaterRuns, InBuffer, InFlash, FirstAnswer
<1>9. CASE FilesRefused \/ Reboot \/ PowerCut
  BY <1>9, RestartFollowed DEF FilesRefused, Reboot, PowerCut, FirstAnswer
<1>10. CASE FilesStart \/ FilesWrite \/ FilesAccepted
  <2>1. pc' \in {"files", "filespost"} /\ UNCHANGED <<Update, cut>>
    BY <1>10 DEF FilesStart, FilesWrite, FilesAccepted
  <2> QED BY <1>0, <2>1 DEF UploadFollowed, Sendable, Handling, UpdaterFree,
               UpdaterRuns, InBuffer, InFlash, FirstAnswer
<1>11. CASE ConnectionLost
  <2>1. pc' = "idle" /\ cut' /\ UNCHANGED Update
    BY <1>11 DEF ConnectionLost
  <2> QED BY <1>0, <2>1 DEF UploadFollowed, Sendable, Handling, UpdaterFree,
               UpdaterRuns, InBuffer, InFlash, FirstAnswer
<1>12. CASE UNCHANGED vars
  BY <1>0, <1>12 DEF vars, budgets, UploadFollowed, Sendable, Handling, UpdaterFree,
       UpdaterRuns, InBuffer, InFlash, Received, Target, FirstAnswer, Holds, Acceptable
<1> QED
  BY <1>1, <1>2, <1>3, <1>4, <1>5, <1>6, <1>7, <1>8, <1>9, <1>10, <1>11, <1>12
     DEF Next, Callbacks

\* One answer is given before the handler of the request gives the other.
AnsweredOnce ==
  /\ pc = "post" => \/ answers = <<"OK">> /\ ~Update.error
                    \/ answers = <<"FAIL">> /\ boot = running
  /\ pc = "filespost" => answers = <<"OK">>

\* The answers after the handler's.
LEMMA TwoAnswers ==
  ASSUME NEW a \in {"OK", "FAIL"}, NEW b \in {"OK", "FAIL"}
  PROVE  Append(<<a>>, b)[1] = a /\ Append(<<a>>, b)[2] = b
<1>1. Append(<<a>>, b)[1] = a
  OBVIOUS
<1>2. Append(<<a>>, b)[2] = b
  OBVIOUS
<1> QED BY <1>1, <1>2

LEMMA SecondStep ==
  ASSUME IInv, AnsweredOnce, SecondAnswer, [Next]_vars
  PROVE  AnsweredOnce' /\ SecondAnswer'
<1>0. boot # running => pc \in {"post", "restart"}
  BY DEF IInv, SlotsTogether
<1>1. CASE (\E f \in Image, length \in 1..N : UploadStart(f, length)) \/ FilesStart
  BY <1>1 DEF UploadStart, FilesStart, AnsweredOnce, SecondAnswer
<1>2. CASE Restart
  BY <1>2 DEF Restart, AnsweredOnce, SecondAnswer
<1>3. CASE UploadWrite \/ UploadEnd \/ WriteLead \/ FilesWrite \/ ConnectionLost
  <2>1. UNCHANGED <<answers, boot, running>> /\ pc' \notin {"post", "filespost"}
    BY <1>3 DEF UploadWrite, UploadEnd, WriteLead, FilesWrite, ConnectionLost, budgets
  <2> QED BY <2>1 DEF AnsweredOnce, SecondAnswer
<1>4. CASE Check
  <2>1. UNCHANGED <<boot, running>> /\ pc = "check"
    BY <1>4 DEF Check
  <2>2. \/ UNCHANGED answers /\ pc' = "end"
        \/ answers' = <<"FAIL">> /\ pc' = "post"
    BY <1>4 DEF Check
  <2> QED BY <1>0, <2>1, <2>2 DEF AnsweredOnce, SecondAnswer
<1>5. CASE EndRefused \/ FilesAccepted
  <2>1. /\ UNCHANGED <<boot, running>> /\ boot = running
        /\ \/ pc' = "post" /\ answers' = <<"FAIL">>
           \/ pc' = "filespost" /\ answers' = <<"OK">>
    BY <1>0, <1>5 DEF EndRefused, FilesAccepted
  <2> QED BY <2>1 DEF AnsweredOnce, SecondAnswer
<1>6. CASE Select
  <2>1. /\ boot = running /\ running' = running /\ pc' = "post"
        /\ \/ answers' = <<"OK">> /\ ~Update'.error
           \/ answers' = <<"FAIL">> /\ boot' = boot
    BY <1>0, <1>6 DEF Select, Idle
  <2> QED BY <2>1 DEF AnsweredOnce, SecondAnswer
<1>7. CASE Post \/ FilesPost
  <2>1. /\ UNCHANGED <<boot, running>> /\ pc' \in {"restart", "idle"}
        /\ \/ /\ answers = <<"OK">> /\ answers' = Append(<<"OK">>, "OK")
           \/ /\ answers = <<"FAIL">> /\ boot = running
              /\ \E b \in {"OK", "FAIL"} : answers' = Append(<<"FAIL">>, b)
    BY <1>7 DEF Post, FilesPost, AnsweredOnce
  <2> QED BY <2>1, TwoAnswers DEF AnsweredOnce, SecondAnswer
<1>8. CASE UNCHANGED vars
  BY <1>8 DEF vars, AnsweredOnce, SecondAnswer
<1>9. FilesRefused \/ Reboot \/ PowerCut => Restart
  BY DEF FilesRefused, Reboot, PowerCut
<1> QED
  BY <1>1, <1>2, <1>3, <1>4, <1>5, <1>6, <1>7, <1>8, <1>9 DEF Next, Callbacks

\* For every length of image and slot, as long as no upload was broken off since
\* the restart: OK is answered first only when the next start is the file that
\* was sent and, where no power was cut, no connection lost and no write failed
\* at all, FAIL only to a file that is short or not acceptable.  In every case
\* an OK is followed by an OK, and behind a FAIL nothing was installed
\* (webinterface.cpp:102-114, 145-164).
THEOREM AnswerTrue == Spec => []AnswerIsRight
<1>1. Init => UploadFollowed /\ FirstAnswer /\ AnsweredOnce /\ SecondAnswer
  <2> SUFFICES ASSUME Init
               PROVE  UploadFollowed /\ FirstAnswer /\ AnsweredOnce /\ SecondAnswer
    OBVIOUS
  <2>1. pc = "idle" /\ Update = Idle /\ answers = <<>>
    BY DEF Init
  <2>2. AnsweredOnce /\ SecondAnswer
    BY <2>1 DEF AnsweredOnce, SecondAnswer
  <2> QED BY <2>1, <2>2 DEF UploadFollowed, Sendable, Handling, UpdaterFree, UpdaterRuns,
               InBuffer, InFlash, FirstAnswer, Idle
<1>2. IInv /\ UploadFollowed /\ FirstAnswer /\ [Next]_vars
        => UploadFollowed' /\ FirstAnswer'
  BY AnswerStep DEF IInv
<1>3. IInv /\ AnsweredOnce /\ SecondAnswer /\ [Next]_vars
        => AnsweredOnce' /\ SecondAnswer'
  BY SecondStep
<1>4. IInv /\ [Next]_vars => IInv'
  BY NextType, PromiseStep DEF IInv
<1>5. Init => IInv
  BY InitPromise
<1>6. FirstAnswer /\ SecondAnswer => AnswerIsRight
  BY DEF AnswerIsRight
<1> QED BY <1>1, <1>2, <1>3, <1>4, <1>5, <1>6, PTL DEF Spec
=============================================================================
