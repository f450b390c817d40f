------------------------------ MODULE Firmware ------------------------------
(***************************************************************************)
(* New firmware, restarts and why they happened: OTAManager, the routes    *)
(* /sc/upload and /sc/reboot, System's reboot reason and what Diagnostics  *)
(* keeps in NVS.                                                           *)
(*                                                                         *)
(* Two tasks: the loop task (the boot, then a download in the handler of   *)
(* the server's "update", then reboots) and the web server's task (uploads *)
(* and the reboot page). A part is what one write of Update gets: a buffer *)
(* of the download or a piece of an upload. Requests are served once init()*)
(* has run.                                                                *)
(*                                                                         *)
(* Update is external, one object for both tasks. As the code uses it:     *)
(* begin() does nothing while an update runs; write() does nothing without *)
(* one; end(true) makes what was written the firmware of the next boot,    *)
(* whatever its length; an image that is not a whole one may be found out  *)
(* or not. The ESP8266's ESPhttpUpdate is not modelled.                    *)
(***************************************************************************)
EXTENDS Naturals, Sequences

CONSTANTS
    Parts,          \* parts of an image
    MaxAttempts,    \* bound: downloads and uploads between two boots
    MaxBoots,       \* bound: boots
    OldCount        \* what NVS holds under the old key "resetCount"

ASSUME PartsAssumption == Parts \in Nat \ {0}
ASSUME BoundsAssumption ==
    MaxAttempts \in Nat /\ MaxBoots \in Nat \ {0} /\ OldCount \in Nat

VARIABLES
    loop,           \* the loop task: a step of the boot, "run", "download", "end", "put", "restart"
    web,            \* the web server's task: "idle", "upload", "post", "put", "restart"
    reason,         \* what each of the two passes to System::reboot()
    pendingReboot,  \* _rebootReason while _pendingReboot, or "none"
    update,         \* Update: [running, error, image]
    firmware,       \* what the next boot runs: "old", "new" or "broken"
    total,          \* _totalLength in parts; 0 for the -1 of an unknown length
    current,        \* _currentLength in parts
    got,            \* parts that this download has read
    put,            \* parts that this upload has written
    attempts,
    saved,          \* NVS: the saved reason, or "none"
    chip,           \* why the chip says that this boot happened
    reported,       \* System::_rebootReason: what diagnostics report
    count,          \* NVS: "rebootCount"
    old,            \* NVS: "resetCount"
    ram,            \* Diagnostics::_rebootCount
    boots,          \* boots that have been counted
    asked,          \* reasons System::reboot() was called with since the boot
    askedBefore,    \* and before it
    clean           \* no download or upload was cut short or met another

updateVars == <<update, firmware, total, current, got, put, attempts, clean>>
reasonVars == <<saved, chip, reported, asked, askedBefore>>
countVars == <<count, old, ram, boots>>
vars == <<loop, web, reason, pendingReboot, updateVars, reasonVars, countVars>>

Sources == {"server", "page"}
Chip == {"software", "crash"}
Asked == {"ota", "cmd", "software"}
Kept == {"ota", "cmd"}
Reasons == Asked \cup {"none"}

Idle == [running |-> FALSE, error |-> FALSE, image |-> <<>>]
Whole(source) == [i \in 1..Parts |-> <<source, i>>]

----------------------------------------------------------------------------
(* Update.                                                                 *)

Begun(u) == IF u.running THEN u ELSE [running |-> TRUE, error |-> FALSE, image |-> <<>>]
Written(u, part) == IF u.running THEN [u EXCEPT !.image = Append(@, part)] ELSE u
Failed == [running |-> FALSE, error |-> TRUE, image |-> <<>>]

\* The next state of update and firmware after end(true).
End(u) ==
    \/ /\ u.running
       /\ update' = Idle
       /\ firmware' = IF u.image \in {Whole(s) : s \in Sources} THEN "new" ELSE "broken"
    \/ /\ u.running
       /\ u.image \notin {Whole(s) : s \in Sources}
       /\ update' = Failed
       /\ UNCHANGED firmware
    \/ /\ ~u.running
       /\ update' = u
       /\ UNCHANGED firmware

----------------------------------------------------------------------------
Init ==
    /\ loop = "reason" /\ web = "idle"
    /\ reason = [task \in {"loop", "web"} |-> "none"]
    /\ pendingReboot = "none"
    /\ update = Idle /\ firmware = "old"
    /\ total = 0 /\ current = 0 /\ got = 0 /\ put = 0 /\ attempts = 0
    /\ saved = "none" /\ chip = "crash" /\ reported = "none"
    /\ count = 0 /\ old = OldCount /\ ram = 0 /\ boots = 0
    /\ asked = {} /\ askedBefore = {}
    /\ clean = TRUE

\* RAM is lost; the firmware and NVS are not. Nothing shows the next boot
\* whether it runs new firmware.
Reset ==
    /\ loop' = "reason" /\ web' = "idle"
    /\ reason' = [task \in {"loop", "web"} |-> "none"]
    /\ pendingReboot' = "none"
    /\ update' = Idle
    /\ total' = 0 /\ current' = 0 /\ got' = 0 /\ put' = 0 /\ attempts' = 0
    /\ reported' = "none"
    /\ ram' = 0
    /\ askedBefore' = asked /\ asked' = {}
    /\ clean' = TRUE
    /\ UNCHANGED <<firmware, saved, count, old, boots>>

Crash ==
    /\ boots < MaxBoots
    /\ Reset
    /\ chip' = "crash"

(***************************************************************************)
(* The boot: System::rebootReason() and Diagnostics::begin()               *)
(***************************************************************************)
Goto(from, to) == loop = from /\ loop' = to

Trusts_Saved == saved # "none"
Trusts == saved # "none" /\ chip = "software"

ReadReason ==
    /\ Goto("reason", IF saved = "none" THEN "counts" ELSE "clear")
    /\ reported' = IF Trusts THEN saved ELSE chip
    /\ UNCHANGED <<web, reason, pendingReboot, updateVars, saved, chip, asked, askedBefore, countVars>>

ClearReason ==
    /\ Goto("clear", "counts")
    /\ saved' = "none"
    /\ UNCHANGED <<web, reason, pendingReboot, updateVars, chip, reported, asked, askedBefore, countVars>>

\* The new count is saved before the old key is removed.
BootStep_RemovesFirst == [counts |-> "remove", remove |-> "save", save |-> "run"]
BootStep == [counts |-> "save", save |-> IF old > 0 THEN "remove" ELSE "run", remove |-> "run"]

ReadCounts ==
    /\ Goto("counts", BootStep.counts)
    /\ ram' = count + old + 1
    /\ UNCHANGED <<web, reason, pendingReboot, updateVars, reasonVars, count, old, boots>>

SaveCount ==
    /\ Goto("save", BootStep.save)
    /\ count' = ram
    /\ boots' = boots + 1
    /\ UNCHANGED <<web, reason, pendingReboot, updateVars, reasonVars, old, ram>>

RemoveOld ==
    /\ Goto("remove", BootStep.remove)
    /\ old' = 0
    /\ UNCHANGED <<web, reason, pendingReboot, updateVars, reasonVars, count, ram, boots>>

(***************************************************************************)
(* System::reboot(), on either task: save the reason, then restart         *)
(***************************************************************************)
Booted == loop \notin {"reason", "clear", "counts", "save", "remove"}

\* The new places of a task that calls System::reboot(r).
Calls_SavesAll(r) == "put"
Calls(r) == IF r = "software" THEN "restart" ELSE "put"

SetReason(task, r) ==
    /\ reason' = [reason EXCEPT ![task] = r]
    /\ asked' = asked \cup {r}

Saves(task) ==
    /\ saved' = reason[task]
    /\ UNCHANGED <<reason, pendingReboot, updateVars, chip, reported, asked, askedBefore, countVars>>

LoopSaves == Goto("put", "restart") /\ Saves("loop") /\ UNCHANGED web
WebSaves == web = "put" /\ web' = "restart" /\ Saves("web") /\ UNCHANGED loop

Restart ==
    /\ loop = "restart" \/ web = "restart"
    /\ boots < MaxBoots
    /\ Reset
    /\ chip' = "software"

\* SocketClient::reboot(), from a message or the sketch on any task.
AskReboot(r) ==
    /\ Booted
    /\ pendingReboot' = r
    /\ UNCHANGED <<loop, web, reason, updateVars, reasonVars, countVars>>

RebootOnLoop(r) ==
    /\ Goto("run", Calls(r))
    /\ SetReason("loop", r)
    /\ UNCHANGED <<web, pendingReboot, updateVars, saved, chip, reported, askedBefore, countVars>>

\* The top of SocketClient::loop().
PendingReboot == pendingReboot # "none" /\ RebootOnLoop(pendingReboot)

\* WifiManager has connected with new credentials and saved them.
CredentialsSaved == RebootOnLoop("software")

\* /sc/reboot, and the restart after saved credentials, on the other task.
RebootPage(r) ==
    /\ Booted
    /\ web = "idle"
    /\ web' = Calls(r)
    /\ SetReason("web", r)
    /\ UNCHANGED <<loop, pendingReboot, updateVars, saved, chip, reported, askedBefore, countVars>>

(***************************************************************************)
(* OTAManager: the download, inside the handler of "update"                *)
(***************************************************************************)
CurrentAtStart_Kept == current
CurrentAtStart == 0

StartDownload(length) ==
    /\ attempts < MaxAttempts
    /\ Goto("run", "download")
    /\ total' = length
    /\ current' = CurrentAtStart
    /\ got' = 0
    /\ update' = Begun(update)
    /\ attempts' = attempts + 1
    /\ clean' = (clean /\ web # "upload")
    /\ UNCHANGED <<web, reason, pendingReboot, firmware, put, reasonVars, countVars>>

\* The server answers with something other than 200.
DownloadRefused ==
    /\ loop = "run"
    /\ current' = CurrentAtStart
    /\ UNCHANGED <<loop, web, reason, pendingReboot, update, firmware, total, got, put, attempts,
                   clean, reasonVars, countVars>>

DownloadPart ==
    /\ got < Parts
    /\ got' = got + 1
    /\ current' = current + 1
    /\ Goto("download", IF current' = total THEN "end" ELSE "download")
    /\ update' = Written(update, <<"server", got'>>)
    /\ UNCHANGED <<web, reason, pendingReboot, firmware, total, put, attempts, clean, reasonVars,
                   countVars>>

\* The connection is gone, or all of it was read and its length is not known.
\* Update goes on running.
DownloadStops ==
    /\ Goto("download", "run")
    /\ clean' = FALSE
    /\ UNCHANGED <<web, reason, pendingReboot, update, firmware, total, current, got, put, attempts,
                   reasonVars, countVars>>

\* The result of end() is not looked at.
EndDownload ==
    /\ Goto("end", "put")
    /\ End(update)
    /\ SetReason("loop", "ota")
    /\ UNCHANGED <<web, pendingReboot, total, current, got, put, attempts, clean,
                   saved, chip, reported, askedBefore, countVars>>

(***************************************************************************)
(* /sc/upload                                                              *)
(***************************************************************************)
IsFinal_Early(n) == n + 1 >= Parts
IsFinal(n) == n = Parts

\* One call of the upload handler: part n, begin() before the first and
\* end() after the last.
Upload(u, n) ==
    LET written == IF u.error THEN u ELSE Written(u, <<"page", n>>) IN
    /\ put' = n
    /\ \/ /\ IsFinal(n)
          /\ End(written)
          /\ web' = "post"
       \/ /\ ~IsFinal(n)
          /\ update' = written
          /\ web' = "upload"
          /\ UNCHANGED firmware

StartUpload ==
    /\ Booted
    /\ web = "idle"
    /\ attempts < MaxAttempts
    /\ Upload(Begun(update), 1)
    /\ attempts' = attempts + 1
    /\ clean' = (clean /\ loop \notin {"download", "end"})
    /\ UNCHANGED <<loop, reason, pendingReboot, total, current, got, reasonVars, countVars>>

UploadPart ==
    /\ web = "upload"
    /\ Upload(update, put + 1)
    /\ UNCHANGED <<loop, reason, pendingReboot, total, current, got, attempts, clean, reasonVars,
                   countVars>>

UploadStops ==
    /\ web = "upload"
    /\ web' = "idle"
    /\ clean' = FALSE
    /\ UNCHANGED <<loop, reason, pendingReboot, update, firmware, total, current, got, put, attempts,
                   reasonVars, countVars>>

\* A POST without a file comes here at once.
EmptyPost ==
    /\ Booted
    /\ web = "idle"
    /\ web' = "post"
    /\ UNCHANGED <<loop, reason, pendingReboot, updateVars, reasonVars, countVars>>

Posted ==
    /\ web = "post"
    /\ \/ update.error /\ web' = "idle" /\ UNCHANGED <<reason, asked>>
       \/ ~update.error /\ web' = "put" /\ SetReason("web", "ota")
    /\ UNCHANGED <<loop, pendingReboot, updateVars, saved, chip, reported, askedBefore, countVars>>

----------------------------------------------------------------------------
Boot == ReadReason \/ ClearReason \/ ReadCounts \/ SaveCount \/ RemoveOld

Message == DownloadRefused \/ (\E length \in {0, Parts} : StartDownload(length)) \/ AskReboot("cmd")

Download == DownloadPart \/ DownloadStops \/ EndDownload

WebTask ==
    \/ StartUpload
    \/ UploadPart
    \/ UploadStops
    \/ EmptyPost
    \/ Posted
    \/ \E r \in {"cmd", "software"} : RebootPage(r)
    \/ WebSaves

Sketch == \E r \in {"cmd", "software"} : AskReboot(r)

Next == Boot \/ Message \/ Download \/ PendingReboot \/ CredentialsSaved \/ LoopSaves \/ WebTask \/ Sketch
        \/ Restart \/ Crash

Spec == Init /\ [][Next]_vars

----------------------------------------------------------------------------
Steps == {"reason", "clear", "counts", "save", "remove", "run", "download", "end", "put", "restart"}
Parcels == Sources \X (1..Parts)
Updates == [running : BOOLEAN, error : BOOLEAN, image : Seq(Parcels)]

TypeOK ==
    /\ loop \in Steps
    /\ web \in {"idle", "upload", "post", "put", "restart"}
    /\ reason \in [{"loop", "web"} -> Reasons]
    /\ loop = "put" => reason["loop"] \in Kept
    /\ web = "put" => reason["web"] \in Kept
    /\ pendingReboot \in Reasons
    /\ update \in Updates
    /\ firmware \in {"old", "new", "broken"}
    /\ total \in {0, Parts} /\ current \in 0..Parts /\ got \in 0..Parts /\ put \in 0..Parts
    /\ attempts \in 0..MaxAttempts
    /\ saved \in Kept \cup {"none"}
    /\ chip \in Chip /\ reported \in Chip \cup Kept \cup {"none"}
    /\ count \in Nat /\ old \in {0, OldCount} /\ ram \in Nat /\ boots \in Nat
    /\ asked \subseteq Asked /\ askedBefore \subseteq Asked
    /\ clean \in BOOLEAN

\* "ota" or "cmd" is reported only for a boot that followed a reboot asked for
\* with that reason: one that was saved and then overtaken by a crash never
\* names a later boot (the comment in System::rebootReason(), System.cpp:87-88).
ReasonIsOwn ==
    reported \in Kept => reported \in askedBefore /\ chip = "software"

\* A crash between any two writes of Diagnostics::begin() loses no boot of the
\* count and nothing of the old one (Diagnostics.cpp:14-17).
CountKept == count + old >= boots + OldCount

\* end(true), which does not look at the size, is called only after this very
\* download has read everything (the comment at OTAManager.cpp:21-28).
EndsWhenRead == loop = "end" => got = Parts

\* Firmware that is no whole image comes only of an update that was cut short
\* or met another one (OTAManager.cpp:44, WebserverManager.cpp:173).
BrokenNeedsDisturbance ==
    [][firmware' = "broken" /\ firmware # "broken" => ~clean']_vars

----------------------------------------------------------------------------
(* What makes the invariants inductive.                                    *)
Prefix(source, n) == [i \in 1..n |-> <<source, i>>]

\* A saved reason is one this boot was asked for with, as soon as the one
\* left by the boot before has been cleared.
SavedIsAsked ==
    /\ web # "idle" => Booted
    /\ loop = "reason" /\ chip = "software" => saved \in askedBefore \cup {"none"}
    /\ loop \notin {"reason", "clear"} => saved \in asked \cup {"none"}
    /\ \A task \in {"loop", "web"} : reason[task] \in asked \cup {"none"}

CountInSteps ==
    /\ loop = "save" => ram = count + old + 1
    /\ loop = "remove" => count >= boots + OldCount

\* As long as nothing was cut short or met, Update runs for one of the two
\* and holds what this one has written.
ImageIsOwn ==
    /\ update.running => ~update.error
    /\ loop = "download" => current = got
    /\ web = "upload" => put < Parts
    /\ clean /\ loop \in {"download", "end"} =>
           web # "upload" /\ (update.running => update.image = Prefix("server", got))
    /\ clean /\ web = "upload" => (update.running => update.image = Prefix("page", put))
    /\ clean /\ loop \notin {"download", "end"} /\ web # "upload" => ~update.running

IndInv ==
    TypeOK /\ ReasonIsOwn /\ CountKept /\ EndsWhenRead
        /\ SavedIsAsked /\ CountInSteps /\ ImageIsOwn
=============================================================================
