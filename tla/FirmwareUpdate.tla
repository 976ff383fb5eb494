--------------------------- MODULE FirmwareUpdate ---------------------------
(***************************************************************************)
(* The upload of a firmware image, and of the file system with the flight  *)
(* areas, over the web interface (webinterface.cpp) and the check of what  *)
(* was uploaded (check_firmware.cpp).  Everything here runs in the loop's  *)
(* task: between two callbacks only the connection and the power supply    *)
(* may act.                                                                *)
(*                                                                         *)
(* Flash is seen in sectors.  An image is N of them; its first bytes, the  *)
(* lead, are kept apart because the updater writes them last, and its last *)
(* one carries the descriptor with the size, the board and the signature.  *)
(* Two images differ in every sector and in the lead.                      *)
(***************************************************************************)
EXTENDS Integers, Sequences

CONSTANTS Image, None, N, Capacity,
          Foreign,      \* the images whose descriptor names another board
          Bare,         \* the images without a descriptor
          Signed,       \* the images signed for one of the stored keys
          Wanted,       \* the image somebody keeps on uploading
          Settings,     \* the lock level and whether keys are stored
          MaxFaults,    \* bound on cuts and failed writes
          MaxOthers     \* bound on uploads of anything else

ASSUME SizesAssumption ==
  /\ N \in Nat /\ N > 0
  /\ Capacity \in Nat /\ Capacity > N + 1
  /\ MaxFaults \in Nat /\ MaxOthers \in Nat

ASSUME ImagesAssumption ==
  /\ None \notin Image
  /\ Wanted \in Image
  /\ Foreign \subseteq Image /\ Bare \subseteq Image /\ Signed \subseteq Image

ASSUME SettingsAssumption ==
  Settings \subseteq [lock_level : -1..2, public_keys : BOOLEAN]

Slots == {0, 1}
Erased == [image |-> None, part |-> 0]
Sector(f, i) == [image |-> f, part |-> i]
Sectors == {Erased} \cup [image : Image, part : 1..N]
Buffers == {<<>>} \cup {<<s>> : s \in Sectors}

VARIABLES
  g,           \* the parameters the check reads
  flash,       \* the two application slots
  boot,        \* the slot the next restart starts
  running,     \* the slot that runs
  Update,      \* the updater of the ESP32 library
  upload,      \* the file that is being sent and how much of it has come
  lead_bytes,  \* the image whose first bytes the upload began with
  pc,          \* where the callbacks stand
  answers,     \* what the last upload was told, by its own callback and then
               \* by the handler of the request
  spiffs,      \* the file system
  cut,         \* an upload has been broken off since the restart
  faults, others

vars == <<g, flash, boot, running, Update, upload, lead_bytes, pc, answers,
          spiffs, cut, faults, others>>
budgets == <<faults, others>>

Idle == [running |-> FALSE, error |-> FALSE, progress |-> 0,
         buffer |-> <<>>, lead |-> None]
NoUpload == [image |-> None, length |-> 0, sent |-> 0]

Target == 1 - running      \* esp_ota_get_next_update_partition

Of(f) == [lead |-> f,
          body |-> [i \in 1..Capacity |-> IF i <= N THEN Sector(f, i) ELSE Erased]]
Blank == [lead |-> None, body |-> [i \in 1..Capacity |-> Erased]]

(***************************************************************************)
(* The check of a partition.                                               *)
(***************************************************************************)
\* A slot holds f from its first to its last byte.
Holds(s, f) == /\ s.lead = f
               /\ \A i \in 1..N : s.body[i] = Sector(f, i)

Whole(s) == \E f \in Image : Holds(s, f)

\* The image a slot holds; None when it would not start.
ImageOf(s) == IF Whole(s) THEN s.lead ELSE None

Descriptors(body) ==
  {i \in 1..Capacity : body[i].image \notin Bare \cup {None} /\ body[i].part = N}

\* memmem finds the first descriptor; its size must be its own offset.
DescriptorFits(body) ==
  /\ body[N].part = N /\ body[N].image \notin Bare
  /\ \A i \in Descriptors(body) : i >= N

\* One of the stored keys signed the lead that was received and, after it,
\* what the flash holds up to the descriptor.
CheckPartition(body, lead) ==
  /\ body[N].image \in Signed
  /\ Holds([lead |-> lead, body |-> body], body[N].image)

CheckOTAPartition(body, lead) ==
  /\ DescriptorFits(body)
  /\ g.public_keys => CheckPartition(body, lead)

CheckOTANext_AnyBoard(body, lead) == g.lock_level = -1 \/ CheckOTAPartition(body, lead)
CheckOTANext(body, lead) ==
  \/ g.lock_level = -1
  \/ /\ ~(DescriptorFits(body) /\ body[N].image \in Foreign)
     /\ CheckOTAPartition(body, lead)

\* What the check is there to let through.
Acceptable ==
  IF g.lock_level = -1
    THEN Image
    ELSE {f \in Image \ (Bare \cup Foreign) : g.public_keys => f \in Signed}

(***************************************************************************)
(* The updater of the ESP32 library.  A sector waits in its buffer until   *)
(* more bytes come; sector 0 reaches the flash without the lead, which     *)
(* end() writes.  A failure resets it and leaves only the error.           *)
(***************************************************************************)
Aborted == [Idle EXCEPT !.error = TRUE]

Begin == Update' = IF Update.running THEN Update
                                     ELSE [Idle EXCEPT !.running = TRUE]

Programmed(slot, at, sectors) ==
  [lead |-> IF at = 0 /\ sectors # <<>> THEN None ELSE slot.lead,
   body |-> [i \in 1..Capacity |-> IF i \in at + 1..at + Len(sectors)
                                     THEN sectors[i - at] ELSE slot.body[i]]]

Program(sectors) ==
  flash' = [flash EXCEPT ![Target] = Programmed(@, Update.progress, sectors)]

FirstLead(sectors) ==
  IF Update.progress = 0 /\ sectors # <<>> THEN sectors[1].image ELSE Update.lead

Push_NoRoom(sectors, kept) ==
  IF ~Update.running THEN UNCHANGED <<flash, Update, faults>>
  ELSE /\ Program(sectors)
       /\ Update' = [Update EXCEPT !.progress = @ + Len(sectors), !.buffer = kept,
                                   !.lead = FirstLead(sectors)]
       /\ UNCHANGED faults

\* The sectors leave the buffer, kept is what it holds afterwards.  One byte
\* behind the last sector of the slot there is no more room.
Push(sectors, kept) ==
  \/ /\ ~Update.running
     /\ UNCHANGED <<flash, Update, faults>>
  \/ /\ Update.running
     /\ Update.progress + Len(sectors) < Capacity
     /\ Program(sectors)
     /\ Update' = [Update EXCEPT !.progress = @ + Len(sectors), !.buffer = kept,
                                 !.lead = FirstLead(sectors)]
     /\ UNCHANGED faults
  \/ /\ Update.running
     /\ Update.progress + Len(sectors) >= Capacity
     /\ Program(sectors)
     /\ Update' = Aborted
     /\ UNCHANGED faults
  \/ /\ Update.running /\ sectors # <<>> /\ faults < MaxFaults
     /\ Program(<<Erased>>)
     /\ Update' = Aborted
     /\ faults' = faults + 1

(***************************************************************************)
(* The callbacks of /update.                                               *)
(***************************************************************************)
UploadStart(f, length) ==
  /\ pc = "idle"
  /\ (f = Wanted /\ length = N) \/ others < MaxOthers
  /\ others' = IF f = Wanted /\ length = N THEN others ELSE others + 1
  /\ pc' = "receive"
  /\ upload' = [image |-> f, length |-> length, sent |-> 0]
  /\ lead_bytes' = None
  /\ answers' = <<>>
  /\ Begin
  /\ UNCHANGED <<g, flash, boot, running, spiffs, cut, faults>>

UploadWrite ==
  /\ pc = "receive" /\ upload.sent < upload.length
  /\ upload' = [upload EXCEPT !.sent = @ + 1]
  /\ lead_bytes' = upload.image
  /\ Push(Update.buffer, <<Sector(upload.image, upload.sent + 1)>>)
  /\ UNCHANGED <<g, boot, running, pc, answers, spiffs, cut, others>>

UploadEnd_NoFlush ==
  /\ pc = "receive" /\ upload.sent = upload.length
  /\ pc' = "check"
  /\ UNCHANGED <<g, flash, boot, running, Update, upload, lead_bytes, answers, spiffs,
                 cut, budgets>>

\* A sector of 0xff and a byte force the flush of the buffer.
UploadEnd ==
  /\ pc = "receive" /\ upload.sent = upload.length
  /\ Push(Append(Update.buffer, Erased), <<>>)
  /\ pc' = "check"
  /\ UNCHANGED <<g, boot, running, upload, lead_bytes, answers, spiffs, cut, others>>

Check ==
  /\ pc = "check"
  /\ IF CheckOTANext(flash[Target].body, lead_bytes)
       THEN pc' = "end" /\ UNCHANGED answers
       ELSE pc' = "post" /\ answers' = <<"FAIL">>
  /\ UNCHANGED <<g, flash, boot, running, Update, upload, lead_bytes, spiffs,
                 cut, budgets>>

WriteLead_OnlyFull ==
  /\ pc = "end" /\ Update.running
  /\ Update' = Aborted /\ answers' = <<"FAIL">> /\ pc' = "post"
  /\ UNCHANGED <<g, flash, boot, running, upload, lead_bytes, spiffs, cut, budgets>>

\* Update.end(true): the lead is written, then the slot is selected if the
\* image in it verifies.
WriteLead ==
  /\ pc = "end" /\ Update.running
  /\ flash' = [flash EXCEPT ![Target].lead = Update.lead]
  /\ pc' = "select"
  /\ UNCHANGED <<g, boot, running, Update, upload, lead_bytes, answers, spiffs,
                 cut, budgets>>

EndRefused ==
  /\ pc = "end" /\ ~Update.running
  /\ answers' = <<"FAIL">> /\ pc' = "post"
  /\ UNCHANGED <<g, flash, boot, running, Update, upload, lead_bytes, spiffs,
                 cut, budgets>>

Select ==
  /\ pc = "select"
  /\ IF Whole(flash[Target])
       THEN boot' = Target /\ Update' = Idle /\ answers' = <<"OK">>
       ELSE UNCHANGED boot /\ Update' = Aborted /\ answers' = <<"FAIL">>
  /\ pc' = "post"
  /\ UNCHANGED <<g, flash, running, upload, lead_bytes, spiffs, cut, budgets>>

\* What a restart forgets, and what setup() does first: the file system is
\* mounted.
Restart ==
  /\ running' = boot
  /\ Update' = Idle /\ upload' = NoUpload /\ lead_bytes' = None
  /\ pc' = "idle" /\ answers' = <<>>
  /\ cut' = FALSE
  /\ UNCHANGED <<g, flash, boot, others>>

\* An empty partition is no file system; a part of one may look like one.
Mountable(content) ==
  IF content = "unchecked" THEN BOOLEAN ELSE {content = "checked"}

Mount == \E mounted \in Mountable(spiffs.content) :
           spiffs' = [spiffs EXCEPT !.mounted = mounted]

\* The handler of the request.  Unless the updater has an error it answers OK,
\* also after a failed check, and restarts a second later.
Post ==
  /\ pc = "post"
  /\ IF Update.error
       THEN pc' = "idle" /\ answers' = Append(answers, "FAIL")
       ELSE pc' = "restart" /\ answers' = Append(answers, "OK")
  /\ UNCHANGED <<g, flash, boot, running, Update, upload, lead_bytes, spiffs,
                 cut, budgets>>

Reboot ==
  /\ pc = "restart"
  /\ Restart /\ Mount /\ UNCHANGED faults

(***************************************************************************)
(* The callbacks of /update_spiffs.  The partition is erased at the start, *)
(* errors of the writes are printed only.                                  *)
(***************************************************************************)
FilesStart ==
  /\ pc = "idle" /\ others < MaxOthers
  /\ others' = others + 1
  /\ pc' = "files"
  /\ answers' = <<>>
  /\ upload' = NoUpload /\ lead_bytes' = None
  /\ spiffs' = [mounted |-> FALSE, content |-> "erased"]
  /\ UNCHANGED <<g, flash, boot, running, Update, cut, faults>>

FilesWrite ==
  /\ pc = "files"
  /\ spiffs' = [spiffs EXCEPT !.content = "unchecked"]
  /\ UNCHANGED <<g, flash, boot, running, Update, upload, lead_bytes, pc,
                 answers, cut, budgets>>

FilesAccepted ==
  /\ pc = "files"
  /\ spiffs' = [spiffs EXCEPT !.content = "checked"]
  /\ pc' = "filespost" /\ answers' = <<"OK">>
  /\ UNCHANGED <<g, flash, boot, running, Update, upload, lead_bytes, cut, budgets>>

FilesRefused_Kept ==
  /\ pc = "files" /\ g.lock_level # -1
  /\ Mount
  /\ Restart /\ UNCHANGED faults

\* A file system that fails the check is erased and the module restarts
\* inside the callback.
FilesRefused ==
  /\ pc = "files" /\ g.lock_level # -1
  /\ spiffs' = [content |-> "erased", mounted |-> FALSE]
  /\ Restart /\ UNCHANGED faults

FilesPost ==
  /\ pc = "filespost"
  /\ pc' = "restart" /\ answers' = Append(answers, "OK")
  /\ UNCHANGED <<g, flash, boot, running, Update, upload, lead_bytes, spiffs,
                 cut, budgets>>

(***************************************************************************)
(* The connection and the power supply.                                    *)
(***************************************************************************)
\* A connection that breaks calls nothing: the updater stays as it is and the
\* file system unmounted.
ConnectionLost ==
  /\ pc \in {"receive", "files"}
  /\ faults < MaxFaults /\ faults' = faults + 1
  /\ pc' = "idle" /\ upload' = NoUpload
  /\ cut' = TRUE
  /\ UNCHANGED <<g, flash, boot, running, Update, lead_bytes, answers, spiffs, others>>

PowerCut ==
  /\ faults < MaxFaults /\ faults' = faults + 1
  /\ Restart /\ Mount

Init ==
  /\ g \in Settings
  /\ \E old, new \in Image, erased \in BOOLEAN :
       flash = [s \in Slots |->
         IF s = 0 THEN Of(old) ELSE IF erased THEN Blank ELSE Of(new)]
  /\ boot = 0 /\ running = 0
  /\ Update = Idle /\ upload = NoUpload /\ lead_bytes = None
  /\ pc = "idle" /\ answers = <<>>
  /\ spiffs \in {[mounted |-> TRUE, content |-> "checked"],
                 [mounted |-> FALSE, content |-> "erased"]}
  /\ cut = FALSE /\ faults = 0 /\ others = 0

Callbacks ==
  \/ UploadWrite \/ UploadEnd \/ Check \/ WriteLead \/ EndRefused \/ Select \/ Post
  \/ FilesAccepted \/ FilesRefused \/ FilesPost \/ Reboot

Next ==
  \/ \E f \in Image, length \in 1..N : UploadStart(f, length)
  \/ FilesStart \/ FilesWrite
  \/ Callbacks
  \/ ConnectionLost \/ PowerCut

Spec == Init /\ [][Next]_vars

\* The loop goes on serving its clients, an upload under way goes on unless
\* its connection breaks, and somebody goes on uploading the wanted image.
FairSpec == Spec /\ WF_vars(Callbacks) /\ WF_vars(UploadStart(Wanted, N))

(***************************************************************************)
(* Properties.                                                             *)
(***************************************************************************)
SlotType == [lead : Image \cup {None}, body : [1..Capacity -> Sectors]]
UpdateType == [running : BOOLEAN, error : BOOLEAN, progress : 0..Capacity,
               buffer : Buffers, lead : Image \cup {None}]
UploadType == [image : Image \cup {None}, length : 0..N, sent : 0..N]
FilesType == [mounted : BOOLEAN, content : {"checked", "unchecked", "erased"}]
Places == {"idle", "receive", "check", "end", "select", "post", "files", "filespost",
           "restart"}

\* Type correctness; the updater never counts more sectors than a slot has.
TypeOK ==
  /\ g \in Settings
  /\ flash \in [Slots -> SlotType] /\ boot \in Slots /\ running \in Slots
  /\ Update \in UpdateType /\ upload \in UploadType
  /\ lead_bytes \in Image \cup {None}
  /\ pc \in Places /\ answers \in Seq({"OK", "FAIL"})
  /\ spiffs \in FilesType
  /\ cut \in BOOLEAN
  /\ faults \in 0..MaxFaults /\ others \in 0..MaxOthers

\* The first answer tells what became of the upload, as long as none was
\* broken off since the restart.
FirstAnswer ==
  pc = "post" /\ ~cut =>
    /\ answers = <<"OK">> => /\ upload.length = N
                             /\ Holds(flash[boot], upload.image)
    /\ answers = <<"FAIL">> /\ faults = 0 =>
         ~(upload.length = N /\ upload.image \in Acceptable)

\* The second never takes an OK back, and the OK that follows the FAIL of a
\* refused file is said of nothing: what will be started is what runs.
SecondAnswer ==
  Len(answers) = 2 =>
    IF answers[1] = "OK" THEN answers[2] = "OK" ELSE boot = running

\* An upload is answered twice: OK first when the module will start exactly the
\* file it was sent, FAIL first only when the file was cut short, not acceptable
\* or could not be written; and whatever the second answer is, it installs
\* nothing and denies nothing (webinterface.cpp:102-114, 145-164).
AnswerIsRight == FirstAnswer /\ SecondAnswer

\* A file system the flight-area check can open was checked, unless an upload
\* of it was broken off (webinterface.cpp:181-226).
FilesSettled ==
  spiffs.mounted /\ spiffs.content = "unchecked" => faults > 0

\* Somebody who goes on uploading an acceptable image succeeds, also when an
\* upload broke off and left the updater running: the next one is appended to
\* it, fails, and makes the module restart (webinterface.cpp:102-117).
RetryInstalls ==
  Wanted \in Acceptable => <>(ImageOf(flash[boot]) = Wanted)

\* The update is an installation in one step: only a whole image that the
\* check accepts replaces the one that runs, whatever breaks off in between.
Install == INSTANCE Installation WITH
             acceptable <- Acceptable,
             installed  <- ImageOf(flash[boot]),
             executing  <- ImageOf(flash[running])

InstallsAtOnce == Install!Spec
=============================================================================
