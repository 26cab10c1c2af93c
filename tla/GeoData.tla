------------------------------- MODULE GeoData -------------------------------
(* The geo data files of the Xray core: GeoDataManager, which checks and     *)
(* updates them on a thread of its own (geodata/GeoDataManager.cpp,          *)
(* GeoDataDownloader.cpp, GeoDataVerifier.cpp), and the dialog that starts   *)
(* it, follows it by posted events and may be closed and opened meanwhile    *)
(* (ui/GeoDataManagerDialog.cpp).  Each step of the thread is one operation  *)
(* on the disk or the network; any may fail, and the program may end between *)
(* two of them.                                                              *)
EXTENDS Integers, Sequences

CONSTANTS KindOrder,     \* GeoDataKind in the order of updateAll
          Own,           \* a file that the user brought
          Garbage,       \* a file that the publisher never made: cut short or altered
          None,          \* no file
          MaxPublished,  \* bound: versions that the publisher brings out
          MaxOutside,    \* bound: changes to the files from outside
          MaxPosted      \* bound: events that wait while another thread is started

Kinds == {KindOrder[i] : i \in 1 .. Len(KindOrder)}
Versions == 1 .. MaxPublished
Files == Versions \cup {Own, Garbage, None}

ASSUME GeoAssumption ==
  /\ KindOrder \in Seq(STRING) /\ KindOrder # <<>>
  /\ \A i, j \in 1 .. Len(KindOrder) : KindOrder[i] = KindOrder[j] => i = j
  /\ MaxPublished \in Nat \ {0} /\ MaxOutside \in Nat /\ MaxPosted \in Nat \ {0}
ASSUME GeoNamesAssumption ==
  /\ Own \notin Int /\ Garbage \notin Int /\ None \notin Int
  /\ Own # None /\ Garbage # None /\ Own # Garbage

VARIABLES final,      \* geoip.dat and geosite.dat, as the core reads them
          temp,       \* the .download files
          bak,        \* the .bak files
          verified,   \* the settings geodata/verified/*
          published,  \* the newest version of the publisher
          outside,    \* changes from outside so far
          worker,     \* what the thread of m_updateThread is at
          hasThread,  \* m_updateThread is set
          posted,     \* events of the thread that the event loop has not delivered
          cancelled,  \* m_cancelRequested
          dialog,     \* the dialog: is open, and its buttons wait for an update
          answers,    \* the publisher answers
          up          \* the program runs, quits or is gone

disk == <<final, temp, bak, verified>>
world == <<published, outside, answers>>
window == <<hasThread, posted, cancelled, dialog, up>>
vars == <<disk, world, worker, window>>

UpdatePcs == {"next", "checksum", "fetch", "verify", "aside", "replace", "clean", "remember"}
Pcs == UpdatePcs \cup {"ended", "check", "exit"}

\* kinds are those asked for, i the one in hand, ok the result so far.  Two are history:
\* since is the newest version at the time the update was asked for, touched are the files
\* changed from outside since then.
Threads == [pc: Pcs, kinds: Seq(Kinds), i: Nat, expected: Versions \cup {None},
            ok: BOOLEAN, since: Versions, touched: SUBSET Kinds]
NewThread(pc, kinds, since) ==
  [pc |-> pc, kinds |-> kinds, i |-> 1, expected |-> None, ok |-> TRUE, since |-> since,
   touched |-> {}]
Ended == NewThread("ended", <<>>, 1)

\* "finished" is QThread::finished, the other two are updateFinished with its result.
Events == {"finished", "completed", "failed"}

GeoTypeOK ==
  /\ final \in [Kinds -> Files] /\ temp \in [Kinds -> Files] /\ bak \in [Kinds -> Files]
  /\ verified \in [Kinds -> Versions \cup {None}]
  /\ published \in Versions /\ outside \in 0 .. MaxOutside /\ answers \in BOOLEAN
  /\ worker \in Threads
  /\ hasThread \in BOOLEAN /\ cancelled \in BOOLEAN
  /\ posted \in Seq(Events)
  /\ dialog \in [open: BOOLEAN, busy: BOOLEAN]
  /\ up \in {"up", "quitting", "down"}

GeoInit ==
  /\ final \in [Kinds -> {1, Own, None}]
  /\ temp = [k \in Kinds |-> None]
  /\ bak = [k \in Kinds |-> None]
  /\ verified = [k \in Kinds |-> None]
  /\ published = 1 /\ outside = 0 /\ answers = TRUE
  /\ worker = Ended
  /\ hasThread = FALSE /\ cancelled = FALSE /\ posted = <<>>
  /\ dialog = [open |-> FALSE, busy |-> FALSE]
  /\ up = "up"

-----------------------------------------------------------------------------
(* The thread                                                                *)

Running == worker.pc # "ended"
At(pc) == worker.pc = pc
Goes(pc) == worker' = [worker EXCEPT !.pc = pc]
Kind == worker.kinds[worker.i]

\* updateFile returns false; the other files are still tried.
KindFails ==
  worker' = [worker EXCEPT !.pc = "next", !.i = @ + 1, !.expected = None, !.ok = FALSE]
KindDone == worker' = [worker EXCEPT !.pc = "next", !.i = @ + 1, !.expected = None]

\* checkAllStatus reads and hashes the files and changes none.
Check ==
  /\ At("check")
  /\ Goes("exit")
  /\ UNCHANGED <<disk, world, window>>

\* The next file unless it was cancelled; isTargetWritable may refuse the directory.
NextKind ==
  /\ At("next") /\ ~cancelled /\ worker.i <= Len(worker.kinds)
  /\ Goes("checksum") \/ KindFails
  /\ UNCHANGED <<disk, world, window>>

\* Mutant of Report: a cancelled update posts no result.
ReportQuietly ==
  /\ At("next") /\ (cancelled \/ worker.i > Len(worker.kinds))
  /\ posted' = IF cancelled THEN posted
               ELSE Append(posted, IF worker.ok THEN "completed" ELSE "failed")
  /\ Goes("exit")
  /\ UNCHANGED <<disk, world, hasThread, cancelled, dialog, up>>

\* All is done or cancelled: updateFinished is posted with the result.
Report ==
  /\ At("next") /\ (cancelled \/ worker.i > Len(worker.kinds))
  /\ posted' = Append(posted, IF worker.ok /\ ~cancelled THEN "completed" ELSE "failed")
  /\ Goes("exit")
  /\ UNCHANGED <<disk, world, hasThread, cancelled, dialog, up>>

\* run returns; from here on isRunning is false and finished is posted.
Exit ==
  /\ At("exit")
  /\ posted' = Append(posted, "finished")
  /\ worker' = Ended
  /\ UNCHANGED <<disk, world, hasThread, cancelled, dialog, up>>

\* download: the name of the newest version.  It fails when it is cancelled, when the
\* publisher does not answer in time or names nothing; then the file of an earlier
\* attempt is removed and the new one is opened.
FetchChecksum ==
  /\ At("checksum")
  /\ \/ KindFails /\ UNCHANGED temp
     \/ /\ answers /\ ~cancelled
        /\ worker' = [worker EXCEPT !.pc = "fetch", !.expected = published]
        /\ temp' = [temp EXCEPT ![Kind] = Garbage]
  /\ UNCHANGED <<final, bak, verified, world, window>>

\* A download that arrives, whole or not.
FileArrives ==
  /\ answers /\ ~cancelled
  /\ \E c \in {published, Garbage} : temp' = [temp EXCEPT ![Kind] = c]
  /\ Goes("verify")

\* The transfer is cancelled, stalls, ends with an error or cannot be written.
FileFails ==
  /\ temp' = [temp EXCEPT ![Kind] = None]
  /\ KindFails

\* downloadToFile with its overall, idle and cancel timers.
FetchFile ==
  /\ At("fetch")
  /\ FileArrives \/ FileFails
  /\ UNCHANGED <<final, bak, verified, world, window>>

\* verifySha256 of what was downloaded, the file on the disk.
Verify ==
  /\ At("verify")
  /\ \/ /\ temp[Kind] = worker.expected
        /\ Goes("aside")
        /\ UNCHANGED temp
     \/ /\ temp[Kind] # worker.expected
        /\ temp' = [temp EXCEPT ![Kind] = None]
        /\ KindFails
  /\ UNCHANGED <<final, bak, verified, world, window>>

\* Mutant of SetAside: the present file is removed, not renamed.
SetAsideByRemoval ==
  /\ At("aside")
  /\ final' = [final EXCEPT ![Kind] = None]
  /\ bak' = [bak EXCEPT ![Kind] = None]
  /\ Goes("replace")
  /\ UNCHANGED <<temp, verified, world, window>>

\* A file in place is renamed to .bak, after the .bak of an earlier update is removed.
SetAside ==
  /\ At("aside")
  /\ \/ /\ final[Kind] = None
        /\ Goes("replace")
        /\ UNCHANGED <<final, temp, bak>>
     \/ /\ final[Kind] # None
        /\ final' = [final EXCEPT ![Kind] = None]
        /\ bak' = [bak EXCEPT ![Kind] = final[Kind]]
        /\ Goes("replace")
        /\ UNCHANGED temp
     \/ /\ final[Kind] # None
        /\ bak' \in {bak, [bak EXCEPT ![Kind] = None]}
        /\ temp' = [temp EXCEPT ![Kind] = None]
        /\ KindFails
        /\ UNCHANGED final
  /\ UNCHANGED <<verified, world, window>>

\* Mutant of ReplaceFile: nobody looks whether the new file took the place.
ReplaceFileUnchecked ==
  /\ At("replace")
  /\ temp' = [temp EXCEPT ![Kind] = None]
  /\ Goes("clean")
  /\ \/ /\ final' = [final EXCEPT ![Kind] = temp[Kind]]
        /\ UNCHANGED bak
     \/ /\ bak[Kind] # None
        /\ final' = [final EXCEPT ![Kind] = bak[Kind]]
        /\ bak' = [bak EXCEPT ![Kind] = None]
  /\ UNCHANGED <<verified, world, window>>

\* The new file takes the place; when it cannot, a .bak goes back, if it can.
ReplaceFile ==
  /\ At("replace")
  /\ temp' = [temp EXCEPT ![Kind] = None]
  /\ \/ /\ final' = [final EXCEPT ![Kind] = temp[Kind]]
        /\ Goes("clean")
        /\ UNCHANGED bak
     \/ /\ bak[Kind] # None
        /\ final' = [final EXCEPT ![Kind] = bak[Kind]]
        /\ bak' = [bak EXCEPT ![Kind] = None]
        /\ KindFails
     \/ /\ KindFails
        /\ UNCHANGED <<final, bak>>
  /\ UNCHANGED <<verified, world, window>>

\* The .bak goes, or stays when it cannot be removed.
Clean ==
  /\ At("clean")
  /\ bak' \in {bak, [bak EXCEPT ![Kind] = None]}
  /\ Goes("remember")
  /\ UNCHANGED <<final, temp, verified, world, window>>

\* setVerifiedHash: the hash by which the status of the file is Verified later.
Remember ==
  /\ At("remember")
  /\ verified' = [verified EXCEPT ![Kind] = worker.expected]
  /\ KindDone
  /\ UNCHANGED <<final, temp, bak, world, window>>

UpdateStep ==
  \/ NextKind \/ Report \/ FetchChecksum \/ FetchFile \/ Verify
  \/ SetAside \/ ReplaceFile \/ Clean \/ Remember

WorkerStep == up # "down" /\ (UpdateStep \/ Check \/ Exit)

-----------------------------------------------------------------------------
(* The dialog, on the main thread                                            *)

\* checkStatus and startUpdate refuse while a thread runs.  A thread that has ended is
\* deleted, but the event it posted is still delivered.
StartThread(thread) ==
  IF Running
  THEN UNCHANGED <<worker, hasThread>>
  ELSE /\ worker' = thread
       /\ hasThread' = TRUE

CheckThread == NewThread("check", <<>>, 1)
UpdateThread(kinds) == NewThread("next", kinds, published)

\* The dialog checks the files as it opens; its buttons know of no update that runs.
OpenDialog ==
  /\ up = "up" /\ ~dialog.open
  /\ Len(posted) < MaxPosted
  /\ dialog' = [open |-> TRUE, busy |-> FALSE]
  /\ StartThread(CheckThread)
  /\ UNCHANGED <<disk, world, posted, cancelled, up>>

CloseDialog ==
  /\ up = "up" /\ dialog.open
  /\ dialog' = [open |-> FALSE, busy |-> FALSE]
  /\ UNCHANGED <<disk, world, worker, hasThread, posted, cancelled, up>>

ClickCheck ==
  /\ up = "up" /\ dialog.open
  /\ Len(posted) < MaxPosted
  /\ StartThread(CheckThread)
  /\ UNCHANGED <<disk, world, posted, cancelled, dialog, up>>

\* The buttons wait for updateFinished from now on, whether the update starts or not.
ClickUpdate(kinds) ==
  /\ up = "up" /\ dialog.open /\ ~dialog.busy
  /\ Len(posted) < MaxPosted
  /\ dialog' = [dialog EXCEPT !.busy = TRUE]
  /\ StartThread(UpdateThread(kinds))
  /\ cancelled' = (Running /\ cancelled)
  /\ UNCHANGED <<disk, world, posted, up>>

\* updateGeoIp, updateGeoSite, updateAll
Updates == {<<k>> : k \in Kinds} \cup {KindOrder}

ClickCancel ==
  /\ up = "up" /\ dialog.open /\ dialog.busy
  /\ cancelled' = TRUE
  /\ UNCHANGED <<disk, world, worker, hasThread, posted, dialog, up>>

\* onUpdateFinished
DeliverResult ==
  /\ up = "up" /\ posted # <<>> /\ Head(posted) # "finished"
  /\ posted' = Tail(posted)
  /\ dialog' = [dialog EXCEPT !.busy = FALSE]
  /\ UNCHANGED <<disk, world, worker, hasThread, cancelled, up>>

\* The slot of finished deletes the thread of m_updateThread, whichever that is by now.
DeliverFinished ==
  /\ up = "up" /\ posted # <<>> /\ Head(posted) = "finished"
  /\ hasThread /\ ~Running
  /\ posted' = Tail(posted)
  /\ hasThread' = FALSE
  /\ UNCHANGED <<disk, world, worker, cancelled, dialog, up>>

-----------------------------------------------------------------------------
(* The end of the program, its start, and the world                          *)

AllForgotten ==
  /\ up' = "down"
  /\ worker' = Ended /\ hasThread' = FALSE /\ posted' = <<>> /\ cancelled' = FALSE
  /\ dialog' = [open |-> FALSE, busy |-> FALSE]
  /\ UNCHANGED <<disk, world>>

\* The event of a thread before this one: a running thread is deleted, or none is there.
\* Either ends the program.
DeliverStale ==
  /\ up = "up" /\ posted # <<>> /\ Head(posted) = "finished"
  /\ ~hasThread \/ Running
  /\ AllForgotten

\* ~GeoDataManager cancels and waits for the thread.
Quit ==
  /\ up = "up"
  /\ up' = "quitting"
  /\ cancelled' = TRUE
  /\ dialog' = [open |-> FALSE, busy |-> FALSE]
  /\ UNCHANGED <<disk, world, worker, hasThread, posted>>

Gone == up = "quitting" /\ ~Running /\ AllForgotten

Kill == up # "down" /\ AllForgotten

Start ==
  /\ up = "down"
  /\ up' = "up"
  /\ UNCHANGED <<disk, world, worker, hasThread, posted, cancelled, dialog>>

Publish ==
  /\ published < MaxPublished
  /\ published' = published + 1
  /\ UNCHANGED <<disk, worker, window, outside, answers>>

\* The worst publisher: once silent it stays so.
FallSilent ==
  /\ answers
  /\ answers' = FALSE
  /\ UNCHANGED <<disk, worker, window, published, outside>>

\* The user, or the import of a backup, puts a file in place or takes it away; not in the
\* instant between the two renames of an update or between them and the removal of .bak.
ChangeOutside ==
  /\ ~At("replace") /\ ~At("clean")
  /\ outside < MaxOutside
  /\ outside' = outside + 1
  /\ \E k \in Kinds, c \in {Own, None} :
       /\ final' = [final EXCEPT ![k] = c]
       /\ worker' = IF worker.pc \in UpdatePcs
                    THEN [worker EXCEPT !.touched = @ \cup {k}] ELSE worker
  /\ UNCHANGED <<temp, bak, verified, published, answers, window>>

GeoNext ==
  \/ WorkerStep
  \/ OpenDialog \/ CloseDialog \/ ClickCheck \/ ClickCancel
  \/ \E kinds \in Updates : ClickUpdate(kinds)
  \/ DeliverResult \/ DeliverFinished \/ DeliverStale
  \/ Quit \/ Gone \/ Kill \/ Start
  \/ Publish \/ FallSilent \/ ChangeOutside

\* The scheduler runs the thread, the event loop delivers what was posted, and a
\* destructor that waits for a thread that has ended returns.
GeoFairness ==
  /\ WF_vars(WorkerStep)
  /\ WF_vars(DeliverResult \/ DeliverFinished \/ DeliverStale)
  /\ WF_vars(Gone)

GeoSpec == GeoInit /\ [][GeoNext]_vars /\ GeoFairness

-----------------------------------------------------------------------------
(* Properties                                                                *)

\* What can be had of a file: the one in place, or else the one set aside.
Recoverable == [k \in Kinds |-> IF final[k] # None THEN final[k] ELSE bak[k]]

Replaced == INSTANCE ReplacedFiles WITH content <- Recoverable

\* Updates implement the replacement of whole files: through failures, cancels and the
\* end of the program at any point, each file can be had as it was or as published.
FilesAreReplaced == Replaced!ReplacedSpec

\* When an update reports success, every file asked for that nobody changed meanwhile from
\* outside is in place, is a version not older than the newest at the time it was asked
\* for, and is the one whose hash is remembered.  A rename that fails and passes for done
\* would leave the old file in place under the hash of the new one.
SuccessIsUpToDate ==
  [][posted' = Append(posted, "completed")
       => \A k \in {worker.kinds[i] : i \in 1 .. Len(worker.kinds)} \ worker.touched :
            /\ final[k] \in Versions
            /\ final[k] >= worker.since
            /\ verified[k] = final[k]]_vars

\* The buttons that wait for an update that runs are given back, also when the publisher
\* falls silent: the timers of GeoDataDownloader end every transfer.
UpdateGivesBack == (dialog.busy /\ worker.pc \in UpdatePcs) ~> ~dialog.busy

\* Quitting waits for the thread and not for ever.
QuitEnds == up = "quitting" ~> up = "down"

\* Whoever waits for the update thread, the dialog or the quit, does not wait for ever.
WaitsEnd == UpdateGivesBack /\ QuitEnds

=============================================================================
