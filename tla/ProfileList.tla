----------------------------- MODULE ProfileList -----------------------------
(* The lists of profiles and subscriptions of the window, their two files,   *)
(* and what changes them: the update of subscriptions                        *)
(* (subscription/SubscriptionManager.cpp), the subscription dialog           *)
(* (ui/SubscriptionManagerDialog.cpp), the profile actions of the window and *)
(* the results of tests (ui/MainWindow.cpp).  A download runs an event loop  *)
(* of its own, in which the user goes on working: the unfinished handlers    *)
(* form a stack, and only the innermost can end.                             *)
EXTENDS Integers, SequencesExt, ListOps

CONSTANTS Subscriptions,
          Servers,      \* what computeSourceKey tells apart
          Manual,       \* no subscription
          Gone,         \* a reference to a subscription that was moved or destroyed
          Found,        \* what the files may hold when the program starts
          MaxIds,       \* bound: profiles that are ever made
          MaxActs,      \* bound: acts of the user
          MaxDepth,     \* bound: handlers nested in one another
          MaxLinks      \* bound: links in a downloaded list

ASSUME NamesAssumption == Manual \notin Subscriptions /\ Gone \notin Subscriptions

VARIABLES profiles,  \* m_allProfiles, which the dialog works on too
          subs,      \* m_subscriptions, likewise
          saved,     \* profiles.json and subscriptions.json
          stack,     \* the handlers that wait in an event loop, innermost last
          jobs,      \* the tests under way, each with its copy of the profile
          issued,    \* the ids given out
          acts,      \* bounded counter
          fetched,   \* history: the last download that ended, and its links
          returned   \* history: a test gave a profile back to a subscription

vars == <<profiles, subs, saved, stack, jobs, issued, acts, fetched, returned>>

Ids == 1 .. MaxIds
Owners == Subscriptions \cup {Manual}
ProfileRecords ==
  [id : Ids, sub : Owners, server : Servers, missing : BOOLEAN]
SubscriptionRecords == [id : Subscriptions, enabled : BOOLEAN]
Links == UNION {[1 .. n -> Servers] : n \in 1 .. MaxLinks}

\* The files were written by this program: profiles have ids of their own, which are
\* numbered here, and a subscription has one profile for a server.
ASSUME FoundAssumption ==
  \A found \in Found :
    /\ found \in [profiles : Seq(ProfileRecords), subs : Seq(SubscriptionRecords)]
    /\ \A i, j \in DOMAIN found.profiles :
         /\ found.profiles[i].id <= Len(found.profiles)
         /\ i # j =>
              /\ found.profiles[i].id # found.profiles[j].id
              /\ found.profiles[i].sub = Manual
                 \/ <<found.profiles[i].sub, found.profiles[i].server>>
                      # <<found.profiles[j].sub, found.profiles[j].server>>
    /\ Len(found.profiles) <= MaxIds
ASSUME BoundsAssumption == {MaxIds, MaxActs, MaxDepth, MaxLinks} \subseteq Nat

\* The manager dialog, an edit of a profile with its copy, and an update: the window or
\* the dialog runs it, "ref" is what the reference it holds denotes now, "last" what it
\* last read there, "started" whose list it downloads, "left" what updateAll has before it.
Frames ==
  [op : {"dialog"}]
    \cup [op : {"edit"}, copy : ProfileRecords]
    \cup [op : {"update"}, via : {"window", "dialog"}, ref : Subscriptions \cup {Gone},
          last : Subscriptions, started : Subscriptions, left : Nat]

ProfileListTypeOK ==
  /\ profiles \in Seq(ProfileRecords)
  /\ subs \in Seq(SubscriptionRecords)
  /\ saved \in [profiles : Seq(ProfileRecords), subs : Seq(SubscriptionRecords)]
  /\ stack \in Seq(Frames)
  /\ Len(stack) <= MaxDepth
  /\ jobs \subseteq [copy : ProfileRecords, begun : BOOLEAN]
  /\ issued \in 0 .. MaxIds
  /\ acts \in 0 .. MaxActs

ListInit ==
  /\ saved \in Found
  /\ profiles = saved.profiles
  /\ subs = saved.subs
  /\ stack = <<>>
  /\ jobs = {}
  /\ issued = Len(saved.profiles)
  /\ acts = 0
  /\ fetched = [sub |-> Manual, servers |-> {}, undisturbed |-> FALSE]
  /\ returned = FALSE

Top == IF stack = <<>> THEN [op |-> "none"] ELSE Last(stack)
InUpdate(via) == Top.op = "update" /\ Top.via = via

\* The window takes no input under a dialog; an update takes nothing away from either.
InWindow == stack = <<>> \/ InUpdate("window")
InDialog == Top.op = "dialog" \/ InUpdate("dialog")
UserActs == acts < MaxActs /\ acts' = acts + 1

PositionOf(s) == FirstOf({i \in DOMAIN subs : subs[i].id = s})
PositionOfId(id) == FirstOf({i \in DOMAIN profiles : profiles[i].id = id})

-----------------------------------------------------------------------------
(* The files                                                                 *)

\* saveAll and persistAll stop at the first file that cannot be written; a kill between
\* the two files leaves the same.
SaveWindow ==
  \E written \in {{}, {"profiles"}, {"profiles", "subs"}} :
    saved' = [profiles |-> IF "profiles" \in written THEN profiles' ELSE saved.profiles,
              subs |-> IF "subs" \in written THEN subs' ELSE saved.subs]

SaveDialog ==
  \E written \in {{}, {"subs"}, {"profiles", "subs"}} :
    saved' = [profiles |-> IF "profiles" \in written THEN profiles' ELSE saved.profiles,
              subs |-> IF "subs" \in written THEN subs' ELSE saved.subs]

SaveProfiles ==
  \E written \in BOOLEAN :
    saved' = IF written THEN [saved EXCEPT !.profiles = profiles'] ELSE saved

-----------------------------------------------------------------------------
(* References into m_subscriptions                                           *)

\* now maps what a reference denoted to what it denotes now.
WithRefs(now) ==
  [i \in DOMAIN stack |->
    IF stack[i].op = "update" THEN [stack[i] EXCEPT !.ref = now[@]] ELSE stack[i]]

Refs == Subscriptions \cup {Gone}
Lost == [r \in Refs |-> Gone]

\* The list is written in place, or its elements are copied to new memory because the
\* table of the dialog shares them or the list grows.
InPlaceOrCopied == \E copied \in BOOLEAN :
  stack' = IF copied THEN WithRefs(Lost) ELSE stack

\* removeAt moves the elements behind the removed one into its place, or, for the first
\* one, moves none.
AfterRemoval(row) ==
  LET next(r) == IF r = Gone \/ PositionOf(r) = Len(subs) THEN Gone
                 ELSE subs[PositionOf(r) + 1].id IN
  \/ stack' = WithRefs(Lost)
  \/ stack' = WithRefs([r \in Refs |-> IF r # Gone /\ PositionOf(r) >= row THEN next(r) ELSE r])
  \/ row = 1 /\ stack' = WithRefs([r \in Refs |-> IF r = subs[row].id THEN Gone ELSE r])

-----------------------------------------------------------------------------
(* The update of one subscription                                            *)

Incoming(s, server, id) ==
  [id |-> id, sub |-> s, server |-> server, missing |-> FALSE]

IsOf(p, s, server) == p.sub = s /\ p.server = server

\* Mutant of MergeLink: a profile that was added by this download is not found again.
MergeLinkOnce(state, s, server) ==
  LET known == {i \in DOMAIN profiles : IsOf(profiles[i], s, server)} IN
  IF known # {}
  THEN [state EXCEPT !.list[LastOf(known)] = Incoming(s, server, @.id)]
  ELSE [list |-> Append(state.list, Incoming(s, server, state.ids + 1)), ids |-> state.ids + 1]

\* One link of the list: the profile of this subscription with the same key is replaced
\* and keeps its id, or a new one is added.
MergeLink(state, s, server) ==
  LET known == {i \in DOMAIN state.list : IsOf(state.list[i], s, server)} IN
  IF known # {}
  THEN [state EXCEPT !.list[LastOf(known)] = Incoming(s, server, @.id)]
  ELSE [list |-> Append(state.list, Incoming(s, server, state.ids + 1)), ids |-> state.ids + 1]

\* Mutant of MarkMissing: the owner is not looked at.
MarkMissingAny(list, s, seen) ==
  [i \in DOMAIN list |->
    IF list[i].server \notin seen THEN [list[i] EXCEPT !.missing = TRUE] ELSE list[i]]

MarkMissing(list, s, seen) ==
  [i \in DOMAIN list |->
    IF list[i].sub = s /\ list[i].server \notin seen THEN [list[i] EXCEPT !.missing = TRUE]
    ELSE list[i]]

\* The lists after each link, one after the other.
MergedLists(s, links) ==
  LET after[n \in 0 .. Len(links)] ==
        IF n = 0 THEN [list |-> profiles, ids |-> issued]
        ELSE MergeLink(after[n - 1], s, links[n])
  IN after

MergeLinks(s, links) ==
  LET merged == MergedLists(s, links)[Len(links)] IN
  /\ merged.ids <= MaxIds
  /\ profiles' = MarkMissing(merged.list, s, ToSet(links))
  /\ issued' = merged.ids

\* How far updateAll still goes from the element at this position, without the disabled
\* ones, for which nothing is done.
EnabledFrom(position, count) ==
  {i \in position .. (position + count - 1) : i \in DOMAIN subs /\ subs[i].enabled}

\* updateSubscription up to the download: what comes before it is done at once.
UpdateFrame(via, position, left) ==
  [op |-> "update", via |-> via, ref |-> subs[position].id, last |-> subs[position].id,
   started |-> subs[position].id, left |-> left]

BeginUpdate(via, first, count) ==
  /\ UserActs
  /\ Len(stack) < MaxDepth
  /\ EnabledFrom(first, count) # {}
  /\ LET position == FirstOf(EnabledFrom(first, count)) IN
     \E copied \in BOOLEAN :
       stack' = Append(IF copied THEN WithRefs(Lost) ELSE stack,
                       UpdateFrame(via, position, count - (position - first) - 1))
  /\ UNCHANGED <<profiles, subs, saved, jobs, issued, fetched, returned>>

\* onUpdateSelectedSubscription and onUpdateAllSubscriptions, from the menu at any time.
WindowUpdates ==
  /\ InWindow
  /\ \/ \E row \in DOMAIN subs : BeginUpdate("window", row, 1)
     \/ Len(subs) > 1 /\ BeginUpdate("window", 1, Len(subs))

DialogUpdates ==
  /\ InDialog
  /\ \/ \E row \in DOMAIN subs : BeginUpdate("dialog", row, 1)
     \/ Len(subs) > 1 /\ BeginUpdate("dialog", 1, Len(subs))

\* What the handler reads through its reference: memory that was given back may still
\* hold what it held.  Other contents are left out, a crash is Restart.
ReadThrough(frame) == IF frame.ref = Gone THEN frame.last ELSE frame.ref

\* The download ends: refused, failed, timed out or not to be parsed, or with links.
Downloaded(frame) ==
  \/ /\ fetched' = [sub |-> frame.started, servers |-> {}, undisturbed |-> FALSE]
     /\ UNCHANGED <<profiles, issued>>
  \/ \E links \in Links :
       /\ MergeLinks(ReadThrough(frame), links)
       /\ fetched' = [sub |-> frame.started, servers |-> ToSet(links),
                      undisturbed |-> frame.ref = frame.started]

\* updateAll goes on with the elements behind; without one it has left the list.
UpdateGoesOn(frame) ==
  LET position == PositionOf(frame.ref) + 1
      ahead == EnabledFrom(position, frame.left) IN
  /\ frame.ref # Gone
  /\ ahead # {}
  /\ LET next == FirstOf(ahead) IN
     stack' = Append(Front(stack),
                UpdateFrame(frame.via, next, frame.left - (next - position) - 1))
  /\ UNCHANGED saved

UpdateReturns(frame) ==
  /\ frame.ref = Gone \/ EnabledFrom(PositionOf(frame.ref) + 1, frame.left) = {}
  /\ stack' = Front(stack)
  /\ IF frame.via = "window" THEN SaveWindow ELSE SaveDialog

DownloadEnds ==
  /\ Top.op = "update"
  /\ UNCHANGED <<subs, jobs, acts, returned>>
  /\ Downloaded(Top)
  /\ UpdateGoesOn(Top) \/ UpdateReturns(Top)

-----------------------------------------------------------------------------
(* The subscription dialog                                                   *)

OpenDialog ==
  /\ InWindow
  /\ UserActs
  /\ Len(stack) < MaxDepth
  /\ stack' = Append(stack, [op |-> "dialog"])
  /\ UNCHANGED <<profiles, subs, saved, jobs, issued, fetched, returned>>

CloseDialog ==
  /\ Top.op = "dialog"
  /\ stack' = Front(stack)
  /\ UNCHANGED <<profiles, subs, saved, jobs, issued, acts, fetched, returned>>

AddSubscription ==
  /\ InDialog
  /\ UserActs
  /\ \E s \in Subscriptions :
       /\ PositionOf(s) = 0
       /\ subs' = Append(subs, [id |-> s, enabled |-> TRUE])
  /\ InPlaceOrCopied
  /\ UNCHANGED <<profiles, jobs, issued, fetched, returned>>
  /\ SaveDialog

\* Of what can be edited, the model keeps whether the subscription is enabled.
EditSubscription ==
  /\ InDialog
  /\ UserActs
  /\ \E row \in DOMAIN subs : subs' = [subs EXCEPT ![row].enabled = ~@]
  /\ InPlaceOrCopied
  /\ UNCHANGED <<profiles, jobs, issued, fetched, returned>>
  /\ SaveDialog

WithoutSubscription(s, keep) ==
  IF keep
  THEN [i \in DOMAIN profiles |->
         IF profiles[i].sub = s THEN [profiles[i] EXCEPT !.sub = Manual, !.missing = FALSE]
         ELSE profiles[i]]
  ELSE Kept(profiles, {p \in ToSet(profiles) : p.sub # s})

DeleteSubscription ==
  /\ InDialog
  /\ UserActs
  /\ \E row \in DOMAIN subs, keep \in BOOLEAN :
       /\ profiles' = WithoutSubscription(subs[row].id, keep)
       /\ subs' = RemoveAt(subs, row)
       /\ AfterRemoval(row)
  /\ UNCHANGED <<jobs, issued, fetched, returned>>
  /\ SaveDialog

-----------------------------------------------------------------------------
(* The profile actions of the window                                         *)

\* Added by hand, or imported from links and saved at once.
AddProfile ==
  /\ InWindow
  /\ UserActs
  /\ issued < MaxIds
  /\ issued' = issued + 1
  /\ \E server \in Servers :
       profiles' = Append(profiles, Incoming(Manual, server, issued + 1))
  /\ UNCHANGED <<subs, stack, jobs, fetched, returned>>
  /\ UNCHANGED saved \/ SaveWindow

\* editProfile works on a copy while its dialog is open.  What it edits is left out; what
\* it writes back is the whole copy.
EditBegins ==
  /\ InWindow
  /\ UserActs
  /\ Len(stack) < MaxDepth
  /\ \E i \in DOMAIN profiles : stack' = Append(stack, [op |-> "edit", copy |-> profiles[i]])
  /\ UNCHANGED <<profiles, subs, saved, jobs, issued, fetched, returned>>

EditEnds ==
  /\ Top.op = "edit"
  /\ stack' = Front(stack)
  /\ \/ profiles' = [profiles EXCEPT ![PositionOfId(Top.copy.id)] = Top.copy]
     \/ UNCHANGED profiles
  /\ UNCHANGED <<subs, saved, jobs, issued, acts, fetched, returned>>

\* The list keeps its length while the question is asked: the index stays right.
DeleteProfile ==
  /\ InWindow
  /\ UserActs
  /\ \E i \in DOMAIN profiles : profiles' = RemoveAt(profiles, i)
  /\ UNCHANGED <<subs, saved, stack, jobs, issued, fetched, returned>>

SaveAll ==
  /\ InWindow
  /\ UserActs
  /\ UNCHANGED <<profiles, subs, stack, jobs, issued, fetched, returned>>
  /\ SaveWindow

\* A file of profiles that cannot be read leaves none, and the subscriptions alone.
LoadProfiles ==
  /\ InWindow
  /\ UserActs
  /\ \/ /\ profiles' = saved.profiles
        /\ subs' = saved.subs
        /\ stack' = WithRefs(Lost)
     \/ /\ profiles' = <<>>
        /\ UNCHANGED <<subs, stack>>
  /\ UNCHANGED <<saved, jobs, issued, fetched, returned>>

-----------------------------------------------------------------------------
(* Tests, whose results come in every event loop                             *)

\* startTestsForIds copies the profiles that are to be tested; batches that overlap are in
\* ProfileTests.
TestsBegin ==
  /\ InWindow
  /\ UserActs
  /\ jobs = {}
  /\ \E chosen \in SUBSET {i \in DOMAIN profiles : ~profiles[i].missing} \ {{}} :
       jobs' = {[copy |-> profiles[i], begun |-> FALSE] : i \in chosen}
  /\ UNCHANGED <<profiles, subs, saved, stack, issued, fetched, returned>>

\* Mutant of Recorded: a profile that is not in the list any more comes back.
RecordedAgain(copy) ==
  LET i == PositionOfId(copy.id) IN
  /\ profiles' = IF i = 0 THEN Append(profiles, copy) ELSE [profiles EXCEPT ![i] = copy]
  /\ returned' = (returned \/ (i # 0 /\ copy.sub # profiles[i].sub))

\* onProfileUpdated: the whole profile is replaced by the copy, with the result in it.
Recorded(copy) ==
  LET i == PositionOfId(copy.id) IN
  /\ profiles' = IF i = 0 THEN profiles ELSE [profiles EXCEPT ![i] = copy]
  /\ returned' = (returned \/ (i # 0 /\ copy.sub # profiles[i].sub))

\* A test is shown when it begins and when it ends, also by a cancellation.
TestShown ==
  /\ \E j \in jobs :
       /\ Recorded(j.copy)
       /\ \/ jobs' = jobs \ {j}
          \/ ~j.begun /\ jobs' = (jobs \ {j}) \cup {[j EXCEPT !.begun = TRUE]}
  /\ UNCHANGED <<subs, stack, issued, acts, fetched>>
  /\ SaveProfiles

-----------------------------------------------------------------------------
\* A quit, a kill or a crash, and the next start: loadAllOnStartup.
Restart ==
  /\ UserActs
  /\ profiles' = saved.profiles
  /\ subs' = saved.subs
  /\ stack' = <<>>
  /\ jobs' = {}
  /\ UNCHANGED <<saved, issued, fetched, returned>>

Next ==
  \/ WindowUpdates \/ DialogUpdates \/ DownloadEnds
  \/ OpenDialog \/ CloseDialog
  \/ AddSubscription \/ EditSubscription \/ DeleteSubscription
  \/ AddProfile \/ EditBegins \/ EditEnds \/ DeleteProfile
  \/ SaveAll \/ LoadProfiles
  \/ TestsBegin \/ TestShown
  \/ Restart

ListSpec == ListInit /\ [][Next]_vars

-----------------------------------------------------------------------------
(* Properties                                                                *)

\* Neither list nor file ever has two profiles with one id, nor two of one subscription
\* for one server, whatever updates, results, reloads and deletions nest in one another,
\* unless a test gave a profile back: a merge always finds the profile it is to replace
\* (updateSubscription).
OneProfilePerServer ==
  \A list \in {profiles, saved.profiles} : \A i, j \in DOMAIN list :
    i # j =>
      /\ list[i].id # list[j].id
      /\ ~returned /\ list[i].sub # Manual => ~IsOf(list[j], list[i].sub, list[i].server)

\* README.md: "Manual profiles are never changed or deleted", "Failed updates keep
\* existing profiles unchanged": the end of an update erases no profile, changes only
\* those of one subscription, its own if its reference was left alone, and, when it
\* failed, none.
UpdateTouchesOwn ==
  [][DownloadEnds =>
      /\ \E s \in Subscriptions :
           /\ fetched'.undisturbed => s = fetched'.sub
           /\ \A i \in DOMAIN profiles :
                /\ profiles'[i].id = profiles[i].id
                /\ profiles'[i] # profiles[i] => profiles[i].sub = s
      /\ fetched'.servers = {} => profiles' = profiles]_vars

\* An update whose reference was left alone makes the profiles of its subscription that
\* are not marked those of the downloaded list.
SyncedWithList ==
  [][DownloadEnds /\ fetched'.undisturbed =>
      {p.server : p \in {q \in ToSet(profiles') : q.sub = fetched'.sub /\ ~q.missing}}
        = fetched'.servers]_vars

\* An update does what it has to and nothing else.
UpdateIsExact == UpdateTouchesOwn /\ SyncedWithList

\* A profile that left the list comes back only out of the file: no result of a test that
\* was still under way brings it back (onProfileUpdated).
DeletedStaysDeleted ==
  [][\A id \in 1 .. issued :
      PositionOfId(id) = 0 /\ PositionOfId(id)' # 0 => profiles' = saved.profiles]_vars

=============================================================================
