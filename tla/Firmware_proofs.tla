--------------------------- MODULE Firmware_proofs ---------------------------
(***************************************************************************)
(* Proofs about Firmware, for every length of an image, every number of    *)
(* downloads, uploads and boots, and whatever the old counter held.        *)
(***************************************************************************)
EXTENDS Firmware, TLAPS

(***************************************************************************)
(* Update                                                                  *)
(***************************************************************************)
\* begin() and write() keep Update's type; a begun one runs or ran before.
LEMMA UpdateTypes ==
    ASSUME NEW u \in Updates, NEW part \in Parcels
    PROVE  /\ Begun(u) \in Updates /\ Begun(u).running
           /\ Written(u, part) \in Updates
           /\ Written(u, part).running = u.running
           /\ Idle \in Updates /\ ~Idle.running
           /\ Failed \in Updates /\ ~Failed.running
<1>1. u.image \in Seq(Parcels) /\ u.running \in BOOLEAN /\ u.error \in BOOLEAN
  BY DEF Updates
<1>2. Append(u.image, part) \in Seq(Parcels)
  BY <1>1
<1>3. Begun(u) \in Updates /\ Begun(u).running
  BY <1>1 DEF Begun, Updates
<1>4. Written(u, part) \in Updates /\ Written(u, part).running = u.running
  BY <1>1, <1>2 DEF Written, Updates
<1>5. Idle \in Updates /\ ~Idle.running /\ Failed \in Updates /\ ~Failed.running
  BY DEF Idle, Failed, Updates
<1> QED  BY <1>3, <1>4, <1>5

\* After end(true) nothing runs, and only an image that is no whole one can
\* become broken firmware.
LEMMA EndEffect ==
    ASSUME NEW u \in Updates, End(u)
    PROVE  /\ update' \in Updates /\ ~update'.running
           /\ firmware' \in {firmware, "new", "broken"}
           /\ firmware' = "broken" /\ firmware # "broken" =>
                  u.running /\ \A s \in Sources : u.image # Whole(s)
<1>1. /\ Idle \in Updates /\ ~Idle.running /\ Failed \in Updates /\ ~Failed.running
  BY DEF Idle, Failed, Updates
<1> QED  BY <1>1 DEF End

\* The first n parts of an image and the next one are its first n + 1 parts.
LEMMA PrefixGrows ==
    ASSUME NEW s \in Sources, NEW n \in 0..Parts, n < Parts
    PROVE  /\ Prefix(s, n) \in Seq(Parcels)
           /\ Append(Prefix(s, n), <<s, n + 1>>) = Prefix(s, n + 1)
<1>1. n \in Nat /\ n + 1 \in 1..Parts /\ Parts \in Nat
  BY PartsAssumption
<1>2. \A i \in 1..n : <<s, i>> \in Parcels
  BY <1>1 DEF Parcels
<1>3. Prefix(s, n) \in Seq(Parcels) /\ Len(Prefix(s, n)) = n
  BY <1>1, <1>2 DEF Prefix
<1>4. <<s, n + 1>> \in Parcels
  BY <1>1 DEF Parcels
<1> DEFINE a == Append(Prefix(s, n), <<s, n + 1>>)
<1>5. /\ a \in Seq(Parcels) /\ Len(a) = n + 1
      /\ \A i \in 1..n + 1 : a[i] = IF i = n + 1 THEN <<s, n + 1>> ELSE Prefix(s, n)[i]
  BY <1>1, <1>3, <1>4
<1>6. \A i \in 1..n + 1 : a[i] = <<s, i>>
  BY <1>1, <1>5 DEF Prefix
<1>7. a = [i \in 1..n + 1 |-> a[i]]
  BY <1>1, <1>5
<1> QED  BY <1>3, <1>6, <1>7 DEF Prefix

(***************************************************************************)
(* Why a boot happened                                                     *)
(***************************************************************************)
\* The steps of the boot keep what is known of the reason, and every reason
\* that is saved has been asked for since the boot.
LEMMA ReasonStep == IndInv /\ [Next]_vars => ReasonIsOwn' /\ SavedIsAsked'
<1> SUFFICES ASSUME IndInv, [Next]_vars PROVE ReasonIsOwn' /\ SavedIsAsked'
  OBVIOUS
<1>1. /\ loop \in Steps /\ ReasonIsOwn /\ SavedIsAsked
      /\ reason \in [{"loop", "web"} -> Reasons]
      /\ loop = "put" => reason["loop"] \in Kept
      /\ web = "put" => reason["web"] \in Kept
  BY DEF IndInv, TypeOK, Steps
<1> USE <1>1 DEF ReasonIsOwn, SavedIsAsked, Booted
<1>2. CASE ReadReason
  BY <1>2 DEF ReadReason, Goto, Trusts, Chip, Kept, Steps, IndInv, TypeOK
<1>3. CASE ClearReason
  BY <1>3 DEF ClearReason, Goto
<1>4. CASE ReadCounts \/ SaveCount \/ RemoveOld
  BY <1>4 DEF ReadCounts, SaveCount, RemoveOld, Goto, BootStep, reasonVars
<1>5. CASE LoopSaves
  BY <1>5 DEF LoopSaves, Saves, Goto, Kept
<1>6. CASE WebSaves
  BY <1>6 DEF WebSaves, Saves, Kept
<1>7. CASE Restart
  BY <1>7 DEF Restart, Reset, Kept
<1>8. CASE Crash
  BY <1>8 DEF Crash, Reset, Kept
<1>9. ASSUME NEW r, AskReboot(r) PROVE ReasonIsOwn' /\ SavedIsAsked'
  BY <1>9 DEF AskReboot, reasonVars
<1>10. ASSUME NEW r, RebootOnLoop(r) PROVE ReasonIsOwn' /\ SavedIsAsked'
  BY <1>10 DEF RebootOnLoop, SetReason, Goto, Calls
<1>11. ASSUME NEW r, RebootPage(r) PROVE ReasonIsOwn' /\ SavedIsAsked'
  BY <1>11 DEF RebootPage, SetReason, Calls
<1>12. CASE EndDownload
  BY <1>12 DEF EndDownload, SetReason, Goto
<1>13. CASE Posted
  BY <1>13 DEF Posted, SetReason
<1>14. ASSUME NEW length, StartDownload(length) PROVE ReasonIsOwn' /\ SavedIsAsked'
  BY <1>14 DEF StartDownload, Goto, reasonVars
<1>15. CASE DownloadRefused \/ DownloadStops
  BY <1>15 DEF DownloadRefused, DownloadStops, Goto, reasonVars
<1>16. CASE DownloadPart
  BY <1>16 DEF DownloadPart, Goto, reasonVars
<1>17. CASE StartUpload \/ UploadPart
  BY <1>17 DEF StartUpload, UploadPart, reasonVars
<1>18. CASE UploadStops \/ EmptyPost
  BY <1>18 DEF UploadStops, EmptyPost, reasonVars
<1>19. CASE UNCHANGED vars
  BY <1>19 DEF vars, reasonVars
<1> QED
  BY <1>2, <1>3, <1>4, <1>5, <1>6, <1>7, <1>8, <1>9, <1>10, <1>11, <1>12, <1>13, <1>14, <1>15,
     <1>16, <1>17, <1>18, <1>19
     DEF Next, Boot, Message, Download, WebTask, Sketch, PendingReboot, CredentialsSaved

(***************************************************************************)
(* The count                                                               *)
(***************************************************************************)
\* Each write of Diagnostics::begin() leaves enough in NVS, and nothing else
\* writes either key.
LEMMA CountStep == IndInv /\ [Next]_vars => CountKept' /\ CountInSteps'
<1> SUFFICES ASSUME IndInv, [Next]_vars PROVE CountKept' /\ CountInSteps'
  OBVIOUS
<1>1. /\ CountKept /\ CountInSteps
      /\ count \in Nat /\ old \in Nat /\ ram \in Nat /\ boots \in Nat /\ OldCount \in Nat
  BY BoundsAssumption DEF IndInv, TypeOK
<1> USE <1>1 DEF CountKept, CountInSteps
<1>2. CASE ReadReason \/ ClearReason
  BY <1>2 DEF ReadReason, ClearReason, Goto, countVars
<1>3. CASE ReadCounts
  BY <1>3 DEF ReadCounts, Goto, BootStep
<1>4. CASE SaveCount
  BY <1>4 DEF SaveCount, Goto, BootStep
<1>5. CASE RemoveOld
  BY <1>5 DEF RemoveOld, Goto, BootStep
<1>6. CASE Restart \/ Crash
  BY <1>6 DEF Restart, Crash, Reset
<1>7. CASE LoopSaves \/ WebSaves
  BY <1>7 DEF LoopSaves, WebSaves, Saves, Goto, countVars
<1>8. ASSUME NEW r, AskReboot(r) \/ RebootOnLoop(r) \/ RebootPage(r)
      PROVE  CountKept' /\ CountInSteps'
  BY <1>8 DEF AskReboot, RebootOnLoop, RebootPage, Goto, Calls, countVars
<1>9. CASE Download
  BY <1>9 DEF Download, DownloadPart, DownloadStops, EndDownload, Goto, countVars
<1>10. ASSUME NEW length, StartDownload(length) PROVE CountKept' /\ CountInSteps'
  BY <1>10 DEF StartDownload, Goto, countVars
<1>11. CASE DownloadRefused \/ StartUpload \/ UploadPart
  BY <1>11 DEF DownloadRefused, StartUpload, UploadPart, countVars
<1>12. CASE UploadStops \/ EmptyPost \/ Posted
  BY <1>12 DEF UploadStops, EmptyPost, Posted, countVars
<1>13. CASE UNCHANGED vars
  BY <1>13 DEF vars, countVars
<1> QED
  BY <1>2, <1>3, <1>4, <1>5, <1>6, <1>7, <1>8, <1>9, <1>10, <1>11, <1>12, <1>13
     DEF Next, Boot, Message, WebTask, Sketch, PendingReboot, CredentialsSaved

(***************************************************************************)
(* Types                                                                   *)
(***************************************************************************)
\* One call of the upload handler: what it leaves of Update and of the
\* firmware, before the last part and after it.
LEMMA UploadEffect ==
    ASSUME NEW u \in Updates, u.running => ~u.error, NEW n \in 1..Parts, Upload(u, n)
    PROVE  /\ put' = n
           /\ update' \in Updates
           /\ update'.running => ~update'.error
           /\ firmware' \in {firmware, "new", "broken"}
           /\ \/ n = Parts /\ web' = "post" /\ ~update'.running
              \/ /\ n < Parts /\ web' = "upload" /\ firmware' = firmware
                 /\ update'.running =>
                        u.running /\ update'.image = Append(u.image, <<"page", n>>)
           /\ firmware' = "broken" /\ firmware # "broken" =>
                  /\ n = Parts /\ u.running
                  /\ \A s \in Sources : Append(u.image, <<"page", n>>) # Whole(s)
<1> DEFINE written == IF u.error THEN u ELSE Written(u, <<"page", n>>)
<1>1. <<"page", n>> \in Parcels
  BY DEF Parcels, Sources
<1>2. /\ written \in Updates /\ written.running = u.running
      /\ u.running => ~u.error /\ written.image = Append(u.image, <<"page", n>>) /\ ~written.error
  BY <1>1, UpdateTypes DEF Written, Updates
<1> HIDE DEF written
<1>3. /\ put' = n
      /\ \/ n = Parts /\ End(written) /\ web' = "post"
         \/ n # Parts /\ update' = written /\ web' = "upload" /\ firmware' = firmware
  BY DEF Upload, IsFinal, written
<1>4. CASE n = Parts
  <2>1. End(written) /\ web' = "post"
    BY <1>3, <1>4
  <2>2. /\ update' \in Updates /\ ~update'.running
        /\ firmware' \in {firmware, "new", "broken"}
        /\ firmware' = "broken" /\ firmware # "broken" =>
               written.running /\ \A s \in Sources : written.image # Whole(s)
    BY <1>2, <2>1, EndEffect
  <2> QED  BY <1>2, <1>3, <1>4, <2>1, <2>2
<1>5. CASE n # Parts
  <2>1. n < Parts
    BY <1>5, PartsAssumption
  <2> QED  BY <1>2, <1>3, <1>5, <2>1
<1> QED  BY <1>4, <1>5

\* Every step keeps the types.
LEMMA TypeStep == IndInv /\ [Next]_vars => TypeOK'
<1> SUFFICES ASSUME IndInv, [Next]_vars PROVE TypeOK'
  OBVIOUS
<1> USE PartsAssumption, BoundsAssumption DEF TypeOK
<1>1. TypeOK /\ ImageIsOwn
  BY DEF IndInv
<1> USE <1>1 DEF Goto, Reasons, Asked, Kept, Steps
<1>2. CASE ReadReason \/ ClearReason
  <2>1. CASE ReadReason
    BY <2>1 DEF ReadReason, Trusts, updateVars, countVars
  <2>2. CASE ClearReason
    BY <2>2 DEF ClearReason, updateVars, countVars
  <2> QED  BY <1>2, <2>1, <2>2
<1>3. CASE ReadCounts \/ SaveCount \/ RemoveOld
  <2>1. CASE ReadCounts
    BY <2>1 DEF ReadCounts, BootStep, updateVars, reasonVars
  <2>2. CASE SaveCount
    BY <2>2 DEF SaveCount, BootStep, updateVars, reasonVars
  <2>3. CASE RemoveOld
    BY <2>3 DEF RemoveOld, BootStep, updateVars, reasonVars
  <2> QED  BY <1>3, <2>1, <2>2, <2>3
<1>4. CASE LoopSaves
  BY <1>4 DEF LoopSaves, Saves, updateVars, countVars
<1>5. CASE WebSaves
  BY <1>5 DEF WebSaves, Saves, updateVars, countVars
<1>6. CASE Restart \/ Crash
  <2>1. Reset /\ chip' \in Chip
    BY <1>6 DEF Restart, Crash, Chip
  <2>2. Idle \in Updates
    BY DEF Idle, Updates
  <2> QED  BY <2>1, <2>2 DEF Reset
<1>7. ASSUME NEW r \in Asked, AskReboot(r) PROVE TypeOK'
  BY <1>7 DEF AskReboot, updateVars, reasonVars, countVars
<1>8. ASSUME NEW r \in Asked, RebootOnLoop(r) PROVE TypeOK'
  BY <1>8 DEF RebootOnLoop, Calls, SetReason, updateVars, countVars
<1>9. ASSUME NEW r \in Asked, RebootPage(r) PROVE TypeOK'
  BY <1>9 DEF RebootPage, Calls, SetReason, updateVars, countVars
<1>10. ASSUME NEW length \in {0, Parts}, StartDownload(length) PROVE TypeOK'
  <2>1. Begun(update) \in Updates
    BY DEF Begun, Updates
  <2> QED
    BY <1>10, <2>1 DEF StartDownload, CurrentAtStart, reasonVars, countVars
<1>11. CASE DownloadRefused
  BY <1>11 DEF DownloadRefused, CurrentAtStart, reasonVars, countVars
<1>12. CASE DownloadPart
  <2>1. got + 1 \in 1..Parts /\ current = got
    BY <1>12 DEF DownloadPart, ImageIsOwn
  <2>2. <<"server", got + 1>> \in Parcels
    BY <2>1 DEF Parcels, Sources
  <2>3. update' \in Updates
    BY <1>12, <2>2, UpdateTypes DEF DownloadPart
  <2> QED  BY <1>12, <2>1, <2>3 DEF DownloadPart, reasonVars, countVars
<1>13. CASE DownloadStops
  <2>1. clean' \in BOOLEAN
    BY <1>13, Zenon DEF DownloadStops
  <2> QED  BY <1>13, <2>1 DEF DownloadStops, reasonVars, countVars
<1>14. CASE EndDownload
  <2>1. update' \in Updates /\ firmware' \in {firmware, "new", "broken"}
    BY <1>14, EndEffect DEF EndDownload
  <2> QED  BY <1>14, <2>1 DEF EndDownload, SetReason, countVars
<1>15. CASE StartUpload
  <2>1. Begun(update) \in Updates /\ (Begun(update).running => ~Begun(update).error)
    BY DEF Begun, Updates, ImageIsOwn
  <2>2. 1 \in 1..Parts /\ Upload(Begun(update), 1)
    BY <1>15 DEF StartUpload
  <2>3. /\ put' = 1 /\ update' \in Updates /\ firmware' \in {firmware, "new", "broken"}
        /\ web' \in {"post", "upload"}
    BY <2>1, <2>2, UploadEffect
  <2> QED  BY <1>15, <2>3 DEF StartUpload, reasonVars, countVars
<1>16. CASE UploadPart
  <2>1. put + 1 \in 1..Parts /\ Upload(update, put + 1) /\ (update.running => ~update.error)
    BY <1>16 DEF UploadPart, ImageIsOwn
  <2>2. /\ put' = put + 1 /\ update' \in Updates /\ firmware' \in {firmware, "new", "broken"}
        /\ web' \in {"post", "upload"}
    BY <2>1, UploadEffect
  <2> QED  BY <1>16, <2>1, <2>2 DEF UploadPart, reasonVars, countVars
<1>17. CASE UploadStops \/ EmptyPost
  <2>1. CASE UploadStops
    <3>1. clean' \in BOOLEAN
      BY <2>1, Zenon DEF UploadStops
    <3> QED  BY <2>1, <3>1 DEF UploadStops, reasonVars, countVars
  <2>2. CASE EmptyPost
    BY <2>2 DEF EmptyPost, updateVars, reasonVars, countVars
  <2> QED  BY <1>17, <2>1, <2>2
<1>18. CASE Posted
  <2>1. /\ UNCHANGED <<loop, pendingReboot, saved, chip, reported, askedBefore>>
        /\ UNCHANGED updateVars /\ UNCHANGED countVars
        /\ \/ web' = "idle" /\ UNCHANGED <<reason, asked>>
           \/ web' = "put" /\ SetReason("web", "ota")
    BY <1>18, Zenon DEF Posted
  <2>2. CASE web' = "idle" /\ UNCHANGED <<reason, asked>>
    BY <2>1, <2>2 DEF updateVars, countVars
  <2>3. CASE web' = "put" /\ SetReason("web", "ota")
    BY <2>1, <2>3 DEF SetReason, updateVars, countVars
  <2> QED  BY <2>1, <2>2, <2>3
<1>19. CASE UNCHANGED vars
  BY <1>19 DEF vars, updateVars, reasonVars, countVars
<1>20. CASE PendingReboot
  <2>1. pendingReboot \in Asked
    BY <1>20 DEF PendingReboot
  <2> QED  BY <1>8, <1>20, <2>1 DEF PendingReboot
<1>21. CASE CredentialsSaved
  BY <1>8, <1>21 DEF CredentialsSaved
<1>22. {"cmd", "software"} \subseteq Asked
  OBVIOUS
<1>23. CASE Message \/ Sketch
  BY <1>7, <1>10, <1>11, <1>22, <1>23 DEF Message, Sketch
<1>24. CASE WebTask
  BY <1>5, <1>9, <1>15, <1>16, <1>17, <1>18, <1>22, <1>24 DEF WebTask
<1> QED
  BY <1>2, <1>3, <1>4, <1>6, <1>12, <1>13, <1>14, <1>19, <1>20, <1>21, <1>23, <1>24
     DEF Next, Boot, Download

(***************************************************************************)
(* What is in Update                                                       *)
(***************************************************************************)
\* A step of the boot, a restart or a reboot on its way touches neither
\* Update nor the counts of parts, and starts no download.
LEMMA NoUpdateStep ==
    ASSUME IndInv, EndsWhenRead /\ ImageIsOwn,
           UNCHANGED updateVars,
           loop' = loop \/ (loop \notin {"download", "end"} /\ loop' \notin {"download", "end"}),
           web' = web \/ (web # "upload" /\ web' # "upload")
    PROVE  EndsWhenRead' /\ ImageIsOwn'
BY DEF EndsWhenRead, ImageIsOwn, updateVars

\* As long as nothing was cut short or met, Update holds what one download or
\* one upload has written; and a download ends when it has read everything.
LEMMA ImageStep == IndInv /\ [Next]_vars => EndsWhenRead' /\ ImageIsOwn'
<1> SUFFICES ASSUME IndInv, [Next]_vars PROVE EndsWhenRead' /\ ImageIsOwn'
  OBVIOUS
<1> USE PartsAssumption
<1>1. /\ EndsWhenRead /\ ImageIsOwn /\ loop \in Steps /\ update \in Updates
      /\ total \in {0, Parts} /\ got \in 0..Parts /\ put \in 0..Parts /\ clean \in BOOLEAN
  BY DEF IndInv, TypeOK
<1>2. CASE Boot
  <2>1. /\ UNCHANGED updateVars /\ web' = web
        /\ loop \notin {"download", "end"} /\ loop' \notin {"download", "end"}
    BY <1>2 DEF Boot, ReadReason, ClearReason, ReadCounts, SaveCount, RemoveOld, BootStep, Goto
  <2> QED  BY <1>1, <2>1, NoUpdateStep
<1>3. ASSUME NEW r, AskReboot(r) \/ RebootOnLoop(r) \/ RebootPage(r)
      PROVE  EndsWhenRead' /\ ImageIsOwn'
  <2>1. /\ UNCHANGED updateVars
        /\ loop' = loop \/ (loop \notin {"download", "end"} /\ loop' \notin {"download", "end"})
        /\ web' = web \/ (web # "upload" /\ web' # "upload")
    BY <1>3 DEF AskReboot, RebootOnLoop, RebootPage, Calls, Goto
  <2> QED  BY <1>1, <2>1, NoUpdateStep
<1>4. CASE LoopSaves \/ WebSaves \/ EmptyPost \/ Posted
  <2>1. /\ UNCHANGED updateVars
        /\ loop' = loop \/ (loop \notin {"download", "end"} /\ loop' \notin {"download", "end"})
        /\ web' = web \/ (web # "upload" /\ web' # "upload")
    BY <1>4 DEF LoopSaves, WebSaves, Saves, EmptyPost, Posted, Goto
  <2> QED  BY <1>1, <2>1, NoUpdateStep
<1>5. CASE Restart \/ Crash
  BY <1>5 DEF Restart, Crash, Reset, Idle, EndsWhenRead, ImageIsOwn
<1>6. ASSUME NEW length, StartDownload(length) PROVE EndsWhenRead' /\ ImageIsOwn'
  <2>1. /\ loop = "run" /\ loop' = "download" /\ current' = 0 /\ got' = 0 /\ web' = web /\ put' = put
        /\ update' = Begun(update) /\ clean' = (clean /\ web # "upload")
    BY <1>6 DEF StartDownload, Goto, CurrentAtStart
  <2>2. CASE update.running
    BY <1>1, <2>1, <2>2 DEF Begun, EndsWhenRead, ImageIsOwn
  <2>3. CASE ~update.running
    <3>1. update'.running /\ ~update'.error /\ update'.image = <<>>
      BY <2>1, <2>3 DEF Begun
    <3>2. Prefix("server", 0) = <<>>
      BY DEF Prefix
    <3> QED  BY <1>1, <2>1, <3>1, <3>2 DEF EndsWhenRead, ImageIsOwn
  <2> QED  BY <2>2, <2>3
<1>7. CASE DownloadRefused
  BY <1>1, <1>7 DEF DownloadRefused, EndsWhenRead, ImageIsOwn
<1>8. CASE DownloadPart
  <2>1. /\ loop = "download" /\ got < Parts /\ got' = got + 1 /\ current' = current + 1
        /\ loop' = IF current' = total THEN "end" ELSE "download"
        /\ update' = Written(update, <<"server", got + 1>>)
        /\ UNCHANGED <<web, put, clean>>
    BY <1>8 DEF DownloadPart, Goto
  <2>2. loop' = "end" => got' = Parts
    BY <1>1, <2>1 DEF ImageIsOwn
  <2>3. /\ update'.running = update.running /\ update'.error = update.error
        /\ update.running => update'.image = Append(update.image, <<"server", got + 1>>)
    BY <1>1, <2>1 DEF Written, Updates
  <2>4. clean /\ update.running => update'.image = Prefix("server", got')
    BY <1>1, <2>1, <2>3, PrefixGrows DEF ImageIsOwn, Sources
  <2> QED  BY <1>1, <2>1, <2>2, <2>3, <2>4 DEF EndsWhenRead, ImageIsOwn
<1>9. CASE DownloadStops
  BY <1>1, <1>9 DEF DownloadStops, Goto, EndsWhenRead, ImageIsOwn
<1>10. CASE EndDownload
  <2>1. ~update'.running
    BY <1>1, <1>10, EndEffect DEF EndDownload
  <2> QED  BY <1>1, <1>10, <2>1 DEF EndDownload, Goto, EndsWhenRead, ImageIsOwn
<1>11. CASE StartUpload
  <2>1. Begun(update) \in Updates /\ (Begun(update).running => ~Begun(update).error)
    BY <1>1 DEF Begun, Updates, ImageIsOwn
  <2>2. /\ 1 \in 1..Parts /\ Upload(Begun(update), 1) /\ web = "idle"
        /\ clean' = (clean /\ loop \notin {"download", "end"})
        /\ UNCHANGED <<loop, current, got>>
    BY <1>11 DEF StartUpload
  <2>3. /\ put' = 1 /\ update' \in Updates
        /\ update'.running => ~update'.error
        /\ \/ 1 = Parts /\ web' = "post" /\ ~update'.running
           \/ /\ 1 < Parts /\ web' = "upload"
              /\ update'.running => update'.image = Append(Begun(update).image, <<"page", 1>>)
    BY <2>1, <2>2, UploadEffect
  <2>4. clean' /\ update'.running => update'.image = Prefix("page", 1)
    <3>1. SUFFICES ASSUME clean', update'.running PROVE update'.image = Prefix("page", 1)
      OBVIOUS
    <3>2. ~update.running
      BY <1>1, <2>2, <3>1 DEF ImageIsOwn
    <3>3. Begun(update).image = Prefix("page", 0)
      BY <3>2 DEF Begun, Prefix
    <3>4. Append(Prefix("page", 0), <<"page", 1>>) = Prefix("page", 1)
      BY PrefixGrows DEF Sources
    <3> QED  BY <2>3, <3>1, <3>3, <3>4
  <2> QED  BY <1>1, <2>2, <2>3, <2>4 DEF EndsWhenRead, ImageIsOwn
<1>12. CASE UploadPart
  <2>1. /\ web = "upload" /\ put + 1 \in 1..Parts /\ put < Parts /\ Upload(update, put + 1)
        /\ update.running => ~update.error
        /\ UNCHANGED <<loop, current, got, clean>>
    BY <1>1, <1>12 DEF UploadPart, ImageIsOwn
  <2>2. /\ put' = put + 1
        /\ update'.running => ~update'.error
        /\ \/ put + 1 = Parts /\ web' = "post" /\ ~update'.running
           \/ /\ put + 1 < Parts /\ web' = "upload"
              /\ update'.running =>
                     update.running /\ update'.image = Append(update.image, <<"page", put + 1>>)
    BY <1>1, <2>1, UploadEffect
  <2>3. clean /\ update'.running => update'.image = Prefix("page", put')
    BY <1>1, <2>1, <2>2, PrefixGrows DEF ImageIsOwn, Sources
  <2> QED  BY <1>1, <2>1, <2>2, <2>3 DEF EndsWhenRead, ImageIsOwn
<1>13. CASE UploadStops
  BY <1>1, <1>13 DEF UploadStops, EndsWhenRead, ImageIsOwn
<1>14. CASE UNCHANGED vars
  BY <1>1, <1>14, NoUpdateStep DEF vars
<1> QED
  BY <1>2, <1>3, <1>4, <1>5, <1>6, <1>7, <1>8, <1>9, <1>10, <1>11, <1>12, <1>13, <1>14
     DEF Next, Message, Download, WebTask, Sketch, PendingReboot, CredentialsSaved

\* A step that makes the firmware broken ends an image that is no whole one.
LEMMA BrokenStep ==
    IndInv /\ [Next]_vars => (firmware' = "broken" /\ firmware # "broken" => ~clean')
<1> SUFFICES ASSUME IndInv, [Next]_vars, firmware' = "broken", firmware # "broken", clean'
             PROVE  FALSE
  OBVIOUS
<1> USE PartsAssumption
<1>1. /\ EndsWhenRead /\ ImageIsOwn /\ update \in Updates /\ got \in 0..Parts /\ put \in 0..Parts
  BY DEF IndInv, TypeOK
<1>2. \A s \in Sources : Whole(s) = Prefix(s, Parts)
  BY DEF Whole, Prefix
<1>3. CASE EndDownload
  <2>1. /\ loop = "end" /\ clean /\ update.running
        /\ \A s \in Sources : update.image # Whole(s)
    BY <1>1, <1>3, EndEffect DEF EndDownload, Goto
  <2> QED  BY <1>1, <1>2, <2>1 DEF EndsWhenRead, ImageIsOwn, Sources
<1>4. CASE StartUpload
  <2>1. Begun(update) \in Updates /\ (Begun(update).running => ~Begun(update).error)
    BY <1>1 DEF Begun, Updates, ImageIsOwn
  <2>2. 1 \in 1..Parts /\ Upload(Begun(update), 1) /\ web = "idle"
    BY <1>4 DEF StartUpload
  <2>3. 1 = Parts /\ \A s \in Sources : Append(Begun(update).image, <<"page", 1>>) # Whole(s)
    BY <2>1, <2>2, UploadEffect
  <2>4. CASE ~update.running
    <3>1. Begun(update).image = Prefix("page", 0)
      BY <2>4 DEF Begun, Prefix
    <3>2. Append(Prefix("page", 0), <<"page", 1>>) = Prefix("page", 1)
      BY PrefixGrows DEF Sources
    <3> QED  BY <1>2, <2>3, <3>1, <3>2 DEF Sources
  <2>5. CASE update.running
    <3>1. clean /\ loop \notin {"download", "end"}
      BY <1>4 DEF StartUpload
    <3> QED  BY <1>1, <2>2, <2>5, <3>1 DEF ImageIsOwn
  <2> QED  BY <2>4, <2>5
<1>5. CASE UploadPart
  <2>1. /\ web = "upload" /\ put + 1 \in 1..Parts /\ put < Parts /\ Upload(update, put + 1)
        /\ clean /\ (update.running => ~update.error)
    BY <1>1, <1>5 DEF UploadPart, ImageIsOwn
  <2>2. /\ put + 1 = Parts /\ update.running
        /\ \A s \in Sources : Append(update.image, <<"page", put + 1>>) # Whole(s)
    BY <1>1, <2>1, UploadEffect
  <2>3. Append(update.image, <<"page", put + 1>>) = Prefix("page", put + 1)
    BY <1>1, <2>1, <2>2, PrefixGrows DEF ImageIsOwn, Sources
  <2> QED  BY <1>2, <2>2, <2>3 DEF Sources
<1>6. CASE UNCHANGED firmware
  BY <1>6
<1> QED
  BY <1>3, <1>4, <1>5, <1>6
     DEF Next, Boot, Message, Download, WebTask, Sketch, PendingReboot, CredentialsSaved,
         ReadReason, ClearReason, ReadCounts, SaveCount, RemoveOld, DownloadRefused, StartDownload,
         AskReboot, DownloadPart, DownloadStops, RebootOnLoop, LoopSaves, WebSaves, Saves,
         UploadStops, EmptyPost, Posted, RebootPage, Restart, Crash, Reset, updateVars, vars

(***************************************************************************)
(* The theorems                                                            *)
(***************************************************************************)
\* The initial state satisfies the invariant.
LEMMA InitInv == Init => IndInv
<1> SUFFICES ASSUME Init PROVE IndInv
  OBVIOUS
<1> USE PartsAssumption, BoundsAssumption DEF Init
<1>1. TypeOK
  BY DEF TypeOK, Steps, Reasons, Kept, Chip, Idle, Updates
<1>2. ReasonIsOwn /\ CountKept /\ EndsWhenRead
  BY DEF ReasonIsOwn, CountKept, EndsWhenRead, Kept
<1>3. SavedIsAsked /\ CountInSteps /\ ImageIsOwn
  BY DEF SavedIsAsked, CountInSteps, ImageIsOwn, Idle
<1> QED  BY <1>1, <1>2, <1>3 DEF IndInv

\* The invariant holds in every reachable state.
THEOREM Invariance == Spec => []IndInv
<1>1. IndInv /\ [Next]_vars => IndInv'
  BY TypeStep, ReasonStep, CountStep, ImageStep DEF IndInv
<1> QED  BY <1>1, InitInv, PTL DEF Spec

\* The program's variables keep their types.
THEOREM TypeCorrect == Spec => []TypeOK
<1>1. IndInv => TypeOK
  BY DEF IndInv
<1> QED  BY <1>1, Invariance, PTL

\* A boot is reported as asked for only if it was, for that reason.
THEOREM ReasonIsOwnHolds == Spec => []ReasonIsOwn
<1>1. IndInv => ReasonIsOwn
  BY DEF IndInv
<1> QED  BY <1>1, Invariance, PTL

\* No crash loses a boot of the count or what the old key held.
THEOREM CountKeptHolds == Spec => []CountKept
<1>1. IndInv => CountKept
  BY DEF IndInv
<1> QED  BY <1>1, Invariance, PTL

\* A download ends only when it has read everything itself.
THEOREM EndsWhenReadHolds == Spec => []EndsWhenRead
<1>1. IndInv => EndsWhenRead
  BY DEF IndInv
<1> QED  BY <1>1, Invariance, PTL

\* Broken firmware comes only of an update that was cut short or met another.
THEOREM BrokenNeedsDisturbanceHolds == Spec => BrokenNeedsDisturbance
<1>1. IndInv /\ [Next]_vars => [firmware' = "broken" /\ firmware # "broken" => ~clean']_vars
  BY BrokenStep
<1> QED  BY <1>1, Invariance, PTL DEF Spec, BrokenNeedsDisturbance
=============================================================================
