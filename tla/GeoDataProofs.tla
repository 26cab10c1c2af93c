---------------------------- MODULE GeoDataProofs ----------------------------
(* Proofs about GeoData for every set of files and every bound: updates      *)
(* implement ReplacedFiles, and an update that reports success is up to date.*)
EXTENDS GeoData, SequenceTheorems, TLAPS

UpTo(n) == (1 .. n) \cup {Own, None}

\* From the checksum on the thread has a file in hand.
HandInv ==
  /\ worker.i >= 1
  /\ worker.pc \in UpdatePcs \ {"next"} => worker.i <= Len(worker.kinds)

\* What is on the disk came from the publisher or the user.
DiskInv == final \in [Kinds -> UpTo(published)] /\ bak \in [Kinds -> UpTo(published)]

\* The checksum names a version as new as any on the disk, and stays so: only the thread
\* brings versions.
Fetching == {"fetch", "verify", "aside", "replace", "clean", "remember"}
ExpectInv ==
  worker.pc \in Fetching =>
    /\ worker.expected \in 1 .. published
    /\ final \in [Kinds -> UpTo(worker.expected)]
    /\ bak \in [Kinds -> UpTo(worker.expected)]

\* What is put in place is what was verified, and the place is free.
PlaceInv ==
  /\ worker.pc \in {"aside", "replace"} => temp[Kind] = worker.expected
  /\ worker.pc = "replace" => final[Kind] = None
  /\ worker.pc = "clean" => final[Kind] # None /\ final[Kind] = worker.expected
  /\ worker.pc = "remember" /\ Kind \notin worker.touched => final[Kind] = worker.expected

\* A file that is done: in place, new enough, and the one whose hash is remembered, unless
\* it was changed from outside.
UpToDate(k) ==
  k \notin worker.touched => /\ final[k] \in Versions
                             /\ final[k] >= worker.since
                             /\ verified[k] = final[k]

\* No file is asked for twice.
Apart(kinds) == \A a, b \in 1 .. Len(kinds) : kinds[a] = kinds[b] => a = b

\* The files done so far are up to date unless a failure is remembered.
DoneInv ==
  /\ worker.pc \in UpdatePcs => worker.since <= published
  /\ worker.pc \in Fetching => worker.expected >= worker.since
  /\ worker.pc \in UpdatePcs /\ worker.ok =>
       \A j \in 1 .. Len(worker.kinds) : j < worker.i => UpToDate(worker.kinds[j])
  /\ worker.pc \in UpdatePcs => Apart(worker.kinds)

GeoInv == GeoTypeOK /\ HandInv /\ DiskInv /\ ExpectInv /\ PlaceInv /\ DoneInv

-----------------------------------------------------------------------------
(* Lemmas                                                                    *)

\* The kinds, and the orders in which updates ask for them.
LEMMA KindsFacts ==
  /\ KindOrder \in Seq(Kinds)
  /\ Updates \subseteq Seq(Kinds)
  /\ \A kinds \in Updates : Apart(kinds)
<1>1. KindOrder \in Seq(Kinds) /\ Apart(KindOrder)
  BY GeoAssumption DEF Kinds, Apart
<1>2. \A k \in Kinds : Apart(<<k>>)
  BY DEF Apart
<1> QED
  BY <1>1, <1>2 DEF Updates

\* A new thread belongs to the type.
LEMMA ThreadFacts ==
  ASSUME NEW pc \in Pcs, NEW kinds \in Seq(Kinds), NEW since \in Versions
  PROVE  NewThread(pc, kinds, since) \in Threads
BY DEF NewThread, Threads

LEMMA EndedFacts == Ended \in Threads /\ Ended.pc = "ended" /\ Ended.i = 1
<1>1. <<>> \in Seq(Kinds) /\ 1 \in Versions /\ "ended" \in Pcs
  BY GeoAssumption DEF Versions, Pcs
<1> QED
  BY <1>1, ThreadFacts DEF Ended, NewThread

\* The file in hand is one of the files.
LEMMA KindInHand ==
  ASSUME GeoTypeOK, HandInv, worker.pc \in UpdatePcs \ {"next"}
  PROVE  Kind \in Kinds
BY DEF GeoTypeOK, HandInv, Kind, Threads

\* What a failure and a success make of the thread.
LEMMA FailureFacts ==
  ASSUME GeoTypeOK, KindFails
  PROVE  /\ worker' \in Threads
         /\ worker'.pc = "next" /\ ~worker'.ok /\ worker'.i = worker.i + 1
         /\ worker'.since = worker.since /\ worker'.kinds = worker.kinds
         /\ worker'.touched = worker.touched
<1>1. worker \in [pc: Pcs, kinds: Seq(Kinds), i: Nat, expected: Versions \cup {None},
                  ok: BOOLEAN, since: Versions, touched: SUBSET Kinds]
  BY DEF GeoTypeOK, Threads
<1>2. worker.i + 1 \in Nat /\ "next" \in Pcs
  BY <1>1 DEF Pcs, UpdatePcs
<1> QED
  BY <1>1, <1>2 DEF KindFails, Threads

LEMMA DoneFacts ==
  ASSUME GeoTypeOK, KindDone
  PROVE  /\ worker' \in Threads
         /\ worker'.pc = "next" /\ worker'.ok = worker.ok /\ worker'.i = worker.i + 1
         /\ worker'.since = worker.since /\ worker'.kinds = worker.kinds
         /\ worker'.touched = worker.touched
<1>1. worker \in [pc: Pcs, kinds: Seq(Kinds), i: Nat, expected: Versions \cup {None},
                  ok: BOOLEAN, since: Versions, touched: SUBSET Kinds]
  BY DEF GeoTypeOK, Threads
<1>2. worker.i + 1 \in Nat /\ "next" \in Pcs
  BY <1>1 DEF Pcs, UpdatePcs
<1> QED
  BY <1>1, <1>2 DEF KindDone, Threads

LEMMA GoesFacts ==
  ASSUME GeoTypeOK, NEW pc \in Pcs, Goes(pc)
  PROVE  /\ worker' \in Threads
         /\ worker'.pc = pc /\ worker'.ok = worker.ok /\ worker'.i = worker.i
         /\ worker'.since = worker.since /\ worker'.kinds = worker.kinds
         /\ worker'.touched = worker.touched
         /\ worker'.expected = worker.expected
BY DEF GeoTypeOK, Goes, Threads

LEMMA FetchFacts ==
  ASSUME GeoTypeOK, worker' = [worker EXCEPT !.pc = "fetch", !.expected = published]
  PROVE  /\ worker' \in Threads
         /\ worker'.pc = "fetch" /\ worker'.expected = published
         /\ worker'.ok = worker.ok /\ worker'.i = worker.i
         /\ worker'.since = worker.since /\ worker'.kinds = worker.kinds
         /\ worker'.touched = worker.touched
<1>1. worker \in [pc: Pcs, kinds: Seq(Kinds), i: Nat, expected: Versions \cup {None},
                  ok: BOOLEAN, since: Versions, touched: SUBSET Kinds]
  BY DEF GeoTypeOK, Threads
<1>2. published \in Versions /\ "fetch" \in Pcs
  BY DEF GeoTypeOK, Pcs, UpdatePcs
<1> QED
  BY <1>1, <1>2 DEF Threads

LEMMA PcsFacts ==
  /\ UpdatePcs \subseteq Pcs /\ Fetching \subseteq UpdatePcs \ {"next"}
  /\ "exit" \in Pcs /\ "exit" \notin UpdatePcs /\ "check" \notin UpdatePcs
  /\ "ended" \notin UpdatePcs /\ "next" \in UpdatePcs
BY DEF Pcs, UpdatePcs, Fetching

LEMMA UpToFacts ==
  ASSUME GeoTypeOK, NEW e \in 1 .. published
  PROVE  e \in Versions /\ UpTo(e) \subseteq UpTo(published) /\ UpTo(published) \subseteq Files
<1>1. published \in Int /\ MaxPublished \in Int /\ published <= MaxPublished
  BY GeoAssumption DEF GeoTypeOK, Versions
<1> QED
  BY <1>1 DEF Versions, UpTo, Files

-----------------------------------------------------------------------------
(* The invariant                                                             *)

\* What the invariant asks when no update runs.
LEMMA NoUpdate ==
  ASSUME GeoTypeOK', DiskInv', worker'.pc \notin UpdatePcs, worker'.i >= 1
  PROVE  GeoInv'
BY PcsFacts DEF GeoInv, HandInv, ExpectInv, PlaceInv, DoneInv, UpdatePcs, Fetching

LEMMA GeoInitInv == GeoInit => GeoInv
<1> SUFFICES ASSUME GeoInit PROVE GeoInv
  OBVIOUS
<1>1. 1 \in Versions /\ published = 1 /\ 0 \in 0 .. MaxOutside /\ <<>> \in Seq(Events)
  BY GeoAssumption DEF GeoInit, Versions
<1>2. final \in [Kinds -> {1, Own, None}] /\ bak = [k \in Kinds |-> None]
      /\ temp = [k \in Kinds |-> None] /\ verified = [k \in Kinds |-> None]
  BY DEF GeoInit
<1>3. final \in [Kinds -> Files] /\ bak \in [Kinds -> Files] /\ temp \in [Kinds -> Files]
      /\ verified \in [Kinds -> Versions \cup {None}]
  BY <1>1, <1>2 DEF Files
<1>4. GeoTypeOK
  BY <1>1, <1>3, EndedFacts DEF GeoInit, GeoTypeOK
<1>5. DiskInv
  BY <1>1, <1>2 DEF DiskInv, UpTo
<1>6. worker.pc = "ended" /\ worker.i = 1
  BY EndedFacts DEF GeoInit
<1> QED
  BY <1>4, <1>5, <1>6 DEF GeoInv, HandInv, ExpectInv, PlaceInv, DoneInv, UpdatePcs, Fetching

\* The files done so far stay as they are while the thread works on another.
LEMMA DoneKept ==
  ASSUME GeoInv, worker.pc \in UpdatePcs, UNCHANGED <<verified, published>>,
         worker'.ok = worker.ok, worker'.i = worker.i, worker'.kinds = worker.kinds,
         worker'.since = worker.since, worker'.touched = worker.touched,
         worker'.pc \in Fetching => worker'.expected >= worker.since,
         \A k \in Kinds : final'[k] = final[k] \/ (k = Kind /\ worker.pc # "next")
  PROVE  DoneInv'
<1>1. worker \in Threads /\ HandInv /\ DoneInv
  BY DEF GeoInv, GeoTypeOK
<1>2. worker.kinds \in Seq(Kinds) /\ worker.i \in Nat
  BY <1>1 DEF Threads
<1>3. ASSUME worker.ok, NEW j \in 1 .. Len(worker.kinds), j < worker.i
      PROVE  UpToDate(worker.kinds[j])'
  <2>1. worker.kinds[j] \in Kinds
    BY <1>2
  <2>2. UpToDate(worker.kinds[j])
    BY <1>1, <1>3 DEF DoneInv
  <2>3. final'[worker.kinds[j]] = final[worker.kinds[j]]
    <3>1. CASE worker.pc = "next"
      BY <2>1, <3>1
    <3>2. CASE worker.pc # "next"
      <4>1. worker.i \in 1 .. Len(worker.kinds)
        BY <1>1, <1>2, <3>2 DEF HandInv
      <4>2. worker.kinds[j] # Kind
        BY <1>1, <1>2, <1>3, <4>1 DEF DoneInv, Apart, Kind
      <4> QED
        BY <2>1, <4>2
    <3> QED
      BY <3>1, <3>2
  <2> QED
    BY <2>2, <2>3 DEF UpToDate
<1>4. Apart(worker.kinds)'
  BY <1>1 DEF DoneInv, Apart
<1>5. worker.since <= published
  BY <1>1 DEF DoneInv
<1> QED
  BY <1>3, <1>4, <1>5 DEF DoneInv

\* A file in hand that fails: what was downloaded does not matter any more.
LEMMA FailureKeepsInv ==
  ASSUME GeoInv, GeoTypeOK', DiskInv', KindFails, published' = published,
         worker.pc \in UpdatePcs
  PROVE  GeoInv'
<1>1. /\ worker'.pc = "next" /\ ~worker'.ok /\ worker'.since = worker.since
      /\ worker'.i >= 1 /\ worker'.kinds = worker.kinds
  BY FailureFacts DEF GeoInv, HandInv, GeoTypeOK, Threads
<1>2. Apart(worker'.kinds)
  BY <1>1 DEF GeoInv, DoneInv
<1> QED
  BY <1>1, <1>2 DEF GeoInv, HandInv, ExpectInv, PlaceInv, DoneInv, UpdatePcs, Fetching, Apart

\* A step of an update, one case per operation.
LEMMA UpdateStepKeepsInv ==
  ASSUME GeoInv, UpdateStep
  PROVE  GeoInv'
<1>0. GeoTypeOK /\ HandInv /\ DiskInv /\ ExpectInv /\ PlaceInv /\ DoneInv
  BY DEF GeoInv
<1>1. CASE NextKind
  <2>1. worker' \in Threads
    BY <1>0, <1>1, FailureFacts, GoesFacts DEF NextKind, Pcs, UpdatePcs
  <2>2. GeoTypeOK' /\ DiskInv' /\ UNCHANGED <<final, bak, temp, verified, published>>
    BY <2>1, <1>0, <1>1 DEF NextKind, GeoTypeOK, DiskInv, UpTo, disk, world, window
  <2>3. CASE KindFails
    BY <2>2, <2>3, <1>1, FailureKeepsInv, PcsFacts DEF NextKind, At, world
  <2>4. CASE Goes("checksum")
    <3>1. /\ worker'.pc = "checksum" /\ worker'.i = worker.i /\ worker'.kinds = worker.kinds
          /\ worker'.ok = worker.ok /\ worker'.since = worker.since
          /\ worker'.touched = worker.touched
      BY <1>0, <2>4, GoesFacts DEF Pcs, UpdatePcs
    <3>2. worker.i <= Len(worker.kinds) /\ worker.pc = "next"
      BY <1>1 DEF NextKind, At
    <3>3. DoneInv'
      BY <1>0, <2>2, <3>1, <3>2, DoneKept
         DEF UpdatePcs, Fetching, DoneInv, ExpectInv
    <3> QED
      BY <1>0, <2>2, <3>1, <3>2, <3>3
         DEF GeoInv, HandInv, ExpectInv, PlaceInv, UpdatePcs, Fetching
  <2> QED
    BY <1>1, <2>3, <2>4 DEF NextKind
<1>2. CASE Report
  <2>1. worker' \in Threads /\ worker'.pc = "exit" /\ worker'.i = worker.i
    BY <1>0, <1>2, GoesFacts, PcsFacts DEF Report
  <2>2. posted' \in Seq(Events)
    BY <1>0, <1>2 DEF Report, GeoTypeOK, Events
  <2>3. GeoTypeOK' /\ DiskInv'
    BY <2>1, <2>2, <1>0, <1>2 DEF Report, GeoTypeOK, DiskInv, UpTo, disk, world
  <2> QED
    BY <2>1, <2>3, <1>0, NoUpdate, PcsFacts DEF HandInv
<1>3. CASE FetchChecksum
  <2>1. Kind \in Kinds /\ worker.pc = "checksum" /\ worker.i <= Len(worker.kinds)
    BY <1>0, <1>3, KindInHand DEF FetchChecksum, At, UpdatePcs, HandInv
  <2>2. temp' \in [Kinds -> Files] /\ UNCHANGED <<final, bak, verified, published>>
    BY <1>0, <1>3, <2>1 DEF FetchChecksum, GeoTypeOK, Files, world
  <2>3. CASE KindFails
    <3>1. worker' \in Threads
      BY <1>0, <2>3, FailureFacts
    <3>2. GeoTypeOK' /\ DiskInv'
      BY <1>0, <1>3, <2>2, <3>1 DEF FetchChecksum, GeoTypeOK, DiskInv, world, window
    <3> QED
      BY <1>0, <2>1, <2>2, <2>3, <3>2, FailureKeepsInv DEF UpdatePcs
  <2>4. CASE worker' = [worker EXCEPT !.pc = "fetch", !.expected = published]
    <3>1. /\ worker' \in Threads
          /\ worker'.pc = "fetch" /\ worker'.expected = published
          /\ worker'.ok = worker.ok /\ worker'.i = worker.i
          /\ worker'.since = worker.since /\ worker'.kinds = worker.kinds
          /\ worker'.touched = worker.touched
      BY <1>0, <2>4, FetchFacts
    <3>2. GeoTypeOK' /\ DiskInv'
      BY <1>0, <1>3, <2>2, <3>1 DEF FetchChecksum, GeoTypeOK, DiskInv, world, window
    <3>3. worker'.expected \in 1 .. published /\ worker.since <= published
      BY <1>0, <2>1, <3>1 DEF GeoTypeOK, Versions, DoneInv, UpdatePcs
    <3>4. DoneInv'
      BY <1>0, <2>1, <2>2, <3>1, <3>3, DoneKept
         DEF UpdatePcs, Fetching, DoneInv, ExpectInv
    <3> QED
      BY <1>0, <2>1, <2>2, <3>1, <3>2, <3>3, <3>4
         DEF GeoInv, HandInv, ExpectInv, PlaceInv, DiskInv, UpdatePcs, Fetching
  <2> QED
    BY <1>3, <2>3, <2>4 DEF FetchChecksum
<1>4. CASE FetchFile
  <2>1. Kind \in Kinds /\ worker.pc = "fetch" /\ worker.i <= Len(worker.kinds)
    BY <1>0, <1>4, KindInHand DEF FetchFile, At, UpdatePcs, HandInv
  <2>2. temp' \in [Kinds -> Files] /\ UNCHANGED <<final, bak, verified, published>>
    BY <1>0, <1>4, <2>1 DEF FetchFile, FileArrives, FileFails, GeoTypeOK, Files, world
  <2>3. CASE KindFails
    <3>1. worker' \in Threads
      BY <1>0, <2>3, FailureFacts
    <3>2. GeoTypeOK' /\ DiskInv'
      BY <1>0, <1>4, <2>2, <3>1 DEF FetchFile, GeoTypeOK, DiskInv, world, window
    <3> QED
      BY <1>0, <2>1, <2>2, <2>3, <3>2, FailureKeepsInv DEF UpdatePcs
  <2>4. CASE Goes("verify")
    <3>1. /\ worker' \in Threads
          /\ worker'.pc = "verify" /\ worker'.expected = worker.expected
          /\ worker'.ok = worker.ok /\ worker'.i = worker.i
          /\ worker'.since = worker.since /\ worker'.kinds = worker.kinds
          /\ worker'.touched = worker.touched
      BY <1>0, <2>4, GoesFacts DEF Pcs, UpdatePcs
    <3>2. GeoTypeOK' /\ DiskInv'
      BY <1>0, <1>4, <2>2, <3>1 DEF FetchFile, GeoTypeOK, DiskInv, world, window
    <3>3. DoneInv'
      BY <1>0, <2>1, <2>2, <3>1, DoneKept
         DEF UpdatePcs, Fetching, DoneInv, ExpectInv
    <3> QED
      BY <1>0, <2>1, <2>2, <3>1, <3>2, <3>3
         DEF GeoInv, HandInv, ExpectInv, PlaceInv, UpdatePcs, Fetching
  <2> QED
    BY <1>4, <2>3, <2>4 DEF FetchFile, FileArrives, FileFails
<1>5. CASE Verify
  <2>1. Kind \in Kinds /\ worker.pc = "verify" /\ worker.i <= Len(worker.kinds)
    BY <1>0, <1>5, KindInHand DEF Verify, At, UpdatePcs, HandInv
  <2>2. temp' \in [Kinds -> Files] /\ UNCHANGED <<final, bak, verified, published>>
    BY <1>0, <1>5, <2>1 DEF Verify, GeoTypeOK, Files, world
  <2>3. CASE KindFails
    <3>1. worker' \in Threads
      BY <1>0, <2>3, FailureFacts
    <3>2. GeoTypeOK' /\ DiskInv'
      BY <1>0, <1>5, <2>2, <3>1 DEF Verify, GeoTypeOK, DiskInv, world, window
    <3> QED
      BY <1>0, <2>1, <2>2, <2>3, <3>2, FailureKeepsInv DEF UpdatePcs
  <2>4. CASE temp[Kind] = worker.expected /\ Goes("aside") /\ UNCHANGED temp
    <3>1. /\ worker' \in Threads
          /\ worker'.pc = "aside" /\ worker'.expected = worker.expected
          /\ worker'.ok = worker.ok /\ worker'.i = worker.i
          /\ worker'.since = worker.since /\ worker'.kinds = worker.kinds
          /\ worker'.touched = worker.touched
      BY <1>0, <2>4, GoesFacts DEF Pcs, UpdatePcs
    <3>2. GeoTypeOK' /\ DiskInv'
      BY <1>0, <1>5, <2>2, <3>1 DEF Verify, GeoTypeOK, DiskInv, world, window
    <3>3. temp'[Kind'] = worker'.expected
      BY <2>4, <3>1 DEF Kind
    <3>4. DoneInv'
      BY <1>0, <2>1, <2>2, <3>1, DoneKept
         DEF UpdatePcs, Fetching, DoneInv, ExpectInv
    <3> QED
      BY <1>0, <2>1, <2>2, <3>1, <3>2, <3>3, <3>4
         DEF GeoInv, HandInv, ExpectInv, PlaceInv, UpdatePcs, Fetching
  <2> QED
    BY <1>5, <2>3, <2>4 DEF Verify
<1>6. CASE SetAside
  <2>1. Kind \in Kinds /\ worker.pc = "aside" /\ worker.i <= Len(worker.kinds)
    BY <1>0, <1>6, KindInHand DEF SetAside, At, UpdatePcs, HandInv
  <2>2. worker.expected \in 1 .. published
        /\ final \in [Kinds -> UpTo(worker.expected)] /\ bak \in [Kinds -> UpTo(worker.expected)]
    BY <1>0, <2>1 DEF ExpectInv, Fetching
  <2>3. /\ final' \in [Kinds -> UpTo(worker.expected)] /\ bak' \in [Kinds -> UpTo(worker.expected)]
        /\ UNCHANGED <<verified, published>>
    BY <1>6, <2>1, <2>2 DEF SetAside, UpTo, world
  <2>4. temp' \in [Kinds -> Files]
    BY <1>0, <1>6, <2>1 DEF SetAside, GeoTypeOK, Files
  <2>5. DiskInv' /\ final' \in [Kinds -> Files] /\ bak' \in [Kinds -> Files]
    BY <1>0, <2>2, <2>3, UpToFacts DEF DiskInv
  <2>6. CASE KindFails
    <3>1. worker' \in Threads
      BY <1>0, <2>6, FailureFacts
    <3>2. GeoTypeOK'
      BY <1>0, <1>6, <2>3, <2>4, <2>5, <3>1 DEF SetAside, GeoTypeOK, world, window
    <3> QED
      BY <1>0, <2>1, <2>3, <2>5, <2>6, <3>2, FailureKeepsInv DEF UpdatePcs
  <2>7. CASE Goes("replace") /\ UNCHANGED temp /\ final'[Kind] = None
    <3>1. /\ worker' \in Threads
          /\ worker'.pc = "replace" /\ worker'.expected = worker.expected
          /\ worker'.ok = worker.ok /\ worker'.i = worker.i
          /\ worker'.since = worker.since /\ worker'.kinds = worker.kinds
          /\ worker'.touched = worker.touched
      BY <1>0, <2>7, GoesFacts DEF Pcs, UpdatePcs
    <3>2. GeoTypeOK'
      BY <1>0, <1>6, <2>3, <2>4, <2>5, <3>1 DEF SetAside, GeoTypeOK, world, window
    <3>3. temp'[Kind'] = worker'.expected /\ final'[Kind'] = None
      BY <1>0, <2>1, <2>7, <3>1 DEF Kind, PlaceInv
    <3>4. DoneInv'
      BY <1>0, <1>6, <2>1, <2>2, <2>3, <3>1, DoneKept
         DEF UpdatePcs, Fetching, DoneInv, ExpectInv, SetAside
    <3> QED
      BY <1>0, <2>1, <2>2, <2>3, <2>5, <3>1, <3>2, <3>3, <3>4
         DEF GeoInv, HandInv, ExpectInv, PlaceInv, UpdatePcs, Fetching
  <2>8. final[Kind] # None /\ final' = [final EXCEPT ![Kind] = None] => final'[Kind] = None
    BY <2>1, <2>2
  <2> QED
    BY <1>6, <2>6, <2>7, <2>8 DEF SetAside
<1>7. CASE ReplaceFile
  <2>1. Kind \in Kinds /\ worker.pc = "replace" /\ worker.i <= Len(worker.kinds)
    BY <1>0, <1>7, KindInHand DEF ReplaceFile, At, UpdatePcs, HandInv
  <2>2. worker.expected \in 1 .. published /\ temp[Kind] = worker.expected
        /\ final \in [Kinds -> UpTo(worker.expected)] /\ bak \in [Kinds -> UpTo(worker.expected)]
    BY <1>0, <2>1 DEF ExpectInv, PlaceInv, Fetching
  <2>3. /\ final' \in [Kinds -> UpTo(worker.expected)] /\ bak' \in [Kinds -> UpTo(worker.expected)]
        /\ UNCHANGED <<verified, published>>
    <3>1. worker.expected \in UpTo(worker.expected)
      BY <2>2 DEF UpTo
    <3> QED
      BY <1>7, <2>1, <2>2, <3>1 DEF ReplaceFile, UpTo, world
  <2>4. temp' \in [Kinds -> Files]
    BY <1>0, <1>7, <2>1 DEF ReplaceFile, GeoTypeOK, Files
  <2>5. DiskInv' /\ final' \in [Kinds -> Files] /\ bak' \in [Kinds -> Files]
    BY <1>0, <2>2, <2>3, UpToFacts DEF DiskInv
  <2>6. CASE KindFails
    <3>1. worker' \in Threads
      BY <1>0, <2>6, FailureFacts
    <3>2. GeoTypeOK'
      BY <1>0, <1>7, <2>3, <2>4, <2>5, <3>1 DEF ReplaceFile, GeoTypeOK, world, window
    <3> QED
      BY <1>0, <2>1, <2>3, <2>5, <2>6, <3>2, FailureKeepsInv DEF UpdatePcs
  <2>7. CASE Goes("clean") /\ final' = [final EXCEPT ![Kind] = temp[Kind]]
    <3>1. /\ worker' \in Threads
          /\ worker'.pc = "clean" /\ worker'.expected = worker.expected
          /\ worker'.ok = worker.ok /\ worker'.i = worker.i
          /\ worker'.since = worker.since /\ worker'.kinds = worker.kinds
          /\ worker'.touched = worker.touched
      BY <1>0, <2>7, GoesFacts DEF Pcs, UpdatePcs
    <3>2. GeoTypeOK'
      BY <1>0, <1>7, <2>3, <2>4, <2>5, <3>1 DEF ReplaceFile, GeoTypeOK, world, window
    <3>3. final'[Kind'] = worker.expected /\ worker.expected # None
      BY <2>1, <2>2, <2>7, <3>1, GeoNamesAssumption DEF Kind
    <3>4. DoneInv'
      BY <1>0, <1>7, <2>1, <2>2, <2>3, <3>1, DoneKept
         DEF UpdatePcs, Fetching, DoneInv, ExpectInv, ReplaceFile
    <3> QED
      BY <1>0, <2>1, <2>2, <2>3, <2>5, <3>1, <3>2, <3>3, <3>4
         DEF GeoInv, HandInv, ExpectInv, PlaceInv, UpdatePcs, Fetching
  <2> QED
    BY <1>7, <2>6, <2>7 DEF ReplaceFile
<1>8. CASE Clean
  <2>1. Kind \in Kinds /\ worker.pc = "clean" /\ worker.i <= Len(worker.kinds)
    BY <1>0, <1>8, KindInHand DEF Clean, At, UpdatePcs, HandInv
  <2>2. worker.expected \in 1 .. published
        /\ final \in [Kinds -> UpTo(worker.expected)] /\ bak \in [Kinds -> UpTo(worker.expected)]
    BY <1>0, <2>1 DEF ExpectInv, Fetching
  <2>3. bak' \in [Kinds -> UpTo(worker.expected)] /\ UNCHANGED <<final, temp, verified, published>>
    BY <1>8, <2>1, <2>2 DEF Clean, UpTo, world
  <2>4. DiskInv' /\ bak' \in [Kinds -> Files]
    BY <1>0, <2>2, <2>3, UpToFacts DEF DiskInv
  <2>5. /\ worker' \in Threads
        /\ worker'.pc = "remember" /\ worker'.expected = worker.expected
        /\ worker'.ok = worker.ok /\ worker'.i = worker.i
        /\ worker'.since = worker.since /\ worker'.kinds = worker.kinds
        /\ worker'.touched = worker.touched
    BY <1>0, <1>8, GoesFacts DEF Clean, Pcs, UpdatePcs
  <2>6. GeoTypeOK'
    BY <1>0, <1>8, <2>3, <2>4, <2>5 DEF Clean, GeoTypeOK, world, window
  <2>7. DoneInv'
    BY <1>0, <2>1, <2>2, <2>3, <2>5, DoneKept
       DEF UpdatePcs, Fetching, DoneInv, ExpectInv
  <2>8. Kind' = Kind /\ final[Kind] = worker.expected /\ final' = final
    BY <1>0, <2>1, <2>3, <2>5 DEF PlaceInv, Kind
  <2>9. PlaceInv'
    BY <2>5, <2>8 DEF PlaceInv
  <2>10. ExpectInv' /\ HandInv'
    BY <1>0, <2>1, <2>2, <2>3, <2>5 DEF ExpectInv, HandInv
  <2> QED
    BY <2>4, <2>6, <2>7, <2>9, <2>10 DEF GeoInv
<1>9. CASE Remember
  <2>1. Kind \in Kinds /\ worker.pc = "remember" /\ worker.i <= Len(worker.kinds)
    BY <1>0, <1>9, KindInHand DEF Remember, At, UpdatePcs, HandInv
  <2>2. /\ worker' \in Threads
        /\ worker'.pc = "next" /\ worker'.ok = worker.ok /\ worker'.i = worker.i + 1
        /\ worker'.since = worker.since /\ worker'.kinds = worker.kinds
        /\ worker'.touched = worker.touched
    BY <1>0, <1>9, DoneFacts DEF Remember
  <2>3. /\ worker.expected \in 1 .. published /\ worker.expected >= worker.since
        /\ worker.expected \in Versions
    BY <1>0, <2>1, UpToFacts DEF ExpectInv, DoneInv, Fetching
  <2>4. verified' \in [Kinds -> Versions \cup {None}]
    BY <1>0, <1>9, <2>1, <2>3 DEF Remember, GeoTypeOK
  <2>5. GeoTypeOK' /\ DiskInv' /\ UNCHANGED published
    BY <1>0, <1>9, <2>2, <2>4 DEF Remember, GeoTypeOK, DiskInv, world, window
  <2>6. ASSUME NEW j \in 1 .. Len(worker.kinds), j < worker.i + 1, worker.ok
        PROVE  UpToDate(worker.kinds[j])'
    <3>1. worker.kinds[j] \in Kinds /\ worker.i \in Nat
      BY <1>0 DEF GeoTypeOK, Threads
    <3>2. CASE worker.kinds[j] = Kind
      <4>1. Kind \notin worker.touched => final[Kind] = worker.expected
        BY <1>0, <2>1 DEF PlaceInv
      <4>2. verified'[Kind] = worker.expected /\ final' = final
        BY <1>0, <1>9, <2>1 DEF Remember, GeoTypeOK
      <4> QED
        BY <2>2, <2>3, <3>2, <4>1, <4>2 DEF UpToDate
    <3>3. CASE worker.kinds[j] # Kind
      <4>1. j < worker.i
        BY <2>6, <3>1, <3>3 DEF Kind
      <4>2. verified'[worker.kinds[j]] = verified[worker.kinds[j]]
        BY <1>0, <1>9, <3>1, <3>3 DEF Remember, GeoTypeOK
      <4>3. UpToDate(worker.kinds[j]) /\ final' = final
        BY <1>0, <1>9, <2>1, <2>6, <4>1 DEF DoneInv, UpdatePcs, Remember
      <4> QED
        BY <2>2, <4>2, <4>3 DEF UpToDate
    <3> QED
      BY <3>2, <3>3
  <2>7. worker'.i >= 1 /\ worker.since <= published
    BY <1>0, <2>1, <2>2 DEF HandInv, DoneInv, UpdatePcs, GeoTypeOK, Threads
  <2> QED
    <3>1. DoneInv'
      BY <1>0, <2>1, <2>2, <2>5, <2>6, <2>7 DEF DoneInv, UpdatePcs, Fetching, Apart
    <3> QED
      BY <2>2, <2>5, <2>7, <3>1
         DEF GeoInv, HandInv, ExpectInv, PlaceInv, UpdatePcs, Fetching
<1> QED
  BY <1>1, <1>2, <1>3, <1>4, <1>5, <1>6, <1>7, <1>8, <1>9 DEF UpdateStep

\* A new thread takes the place of one that has ended, or the one that runs stays.
LEMMA StartKeepsInv ==
  ASSUME GeoInv, NEW pc \in {"next", "check"}, NEW kinds \in Seq(Kinds), NEW since \in 1 .. published,
         Apart(kinds),
         StartThread(NewThread(pc, kinds, since)), UNCHANGED <<disk, world, posted, up>>,
         cancelled' \in BOOLEAN, dialog' \in [open: BOOLEAN, busy: BOOLEAN]
  PROVE  GeoInv'
<1>0. GeoTypeOK /\ HandInv /\ DiskInv /\ ExpectInv /\ PlaceInv /\ DoneInv
  BY DEF GeoInv
<1>1. CASE Running
  <2>1. UNCHANGED <<worker, hasThread>>
    BY <1>1 DEF StartThread
  <2> QED
    BY <1>0, <2>1
       DEF GeoInv, GeoTypeOK, HandInv, DiskInv, ExpectInv, PlaceInv, DoneInv, Kind, UpTo, disk, world,
           UpToDate, Apart
<1>2. CASE ~Running
  <2>1. worker' = NewThread(pc, kinds, since) /\ hasThread' = TRUE
    BY <1>2 DEF StartThread
  <2>2. since \in Versions /\ since <= published
    BY <1>0, UpToFacts DEF GeoTypeOK
  <2>3. worker' \in Threads
    BY <2>1, <2>2, ThreadFacts DEF Pcs, UpdatePcs
  <2>4. /\ worker'.pc = pc /\ worker'.i = 1 /\ worker'.since = since
        /\ worker'.kinds = kinds
    BY <2>1 DEF NewThread
  <2>5. GeoTypeOK' /\ DiskInv' /\ published' = published
    BY <1>0, <2>1, <2>3 DEF GeoTypeOK, DiskInv, UpTo, disk, world
  <2>6. \A j \in 1 .. Len(kinds) : ~(j < 1)
    OBVIOUS
  <2>7. DoneInv'
    BY <2>2, <2>4, <2>5, <2>6 DEF DoneInv, Apart, UpdatePcs, Fetching
  <2> QED
    BY <2>2, <2>4, <2>5, <2>7
       DEF GeoInv, HandInv, ExpectInv, PlaceInv, UpdatePcs, Fetching
<1> QED
  BY <1>1, <1>2

\* What the invariant says of the thread and the disk survives what changes neither.
LEMMA ElsewhereKeepsInv ==
  ASSUME GeoInv, UNCHANGED <<disk, published, worker>>, GeoTypeOK'
  PROVE  GeoInv'
BY DEF GeoInv, HandInv, DiskInv, ExpectInv, PlaceInv, DoneInv, Kind, UpTo, disk, UpToDate, Apart

LEMMA PostedFacts ==
  ASSUME GeoTypeOK, posted # <<>>
  PROVE  Tail(posted) \in Seq(Events)
BY DEF GeoTypeOK

LEMMA ForgottenKeepsInv ==
  ASSUME GeoInv, AllForgotten
  PROVE  GeoInv'
<1>0. GeoTypeOK /\ DiskInv /\ <<>> \in Seq(Events) /\ Ended \in Threads
  BY EndedFacts DEF GeoInv
<1>1. GeoTypeOK' /\ DiskInv'
  BY <1>0 DEF AllForgotten, GeoTypeOK, DiskInv, UpTo, disk, world
<1>2. worker'.pc \notin UpdatePcs /\ worker'.i >= 1
  BY EndedFacts, PcsFacts DEF AllForgotten
<1> QED
  BY <1>1, <1>2, NoUpdate

LEMMA GeoStepInv == GeoInv /\ [GeoNext]_vars => GeoInv'
<1> SUFFICES ASSUME GeoInv, [GeoNext]_vars PROVE GeoInv'
  OBVIOUS
<1>0. GeoTypeOK /\ HandInv /\ DiskInv /\ ExpectInv /\ PlaceInv /\ DoneInv
  BY DEF GeoInv
<1>1. CASE WorkerStep
  <2>1. CASE UpdateStep
    BY <2>1, UpdateStepKeepsInv
  <2>2. CASE Check
    <3>1. worker' \in Threads /\ worker'.pc = "exit" /\ worker'.i = worker.i
      BY <1>0, <2>2, GoesFacts, PcsFacts DEF Check
    <3>2. GeoTypeOK' /\ DiskInv'
      BY <3>1, <1>0, <2>2 DEF Check, GeoTypeOK, DiskInv, UpTo, disk, world, window
    <3> QED
      BY <3>1, <3>2, <1>0, NoUpdate, PcsFacts DEF HandInv
  <2>3. CASE Exit
    <3>1. posted' \in Seq(Events)
      BY <1>0, <2>3 DEF Exit, GeoTypeOK, Events
    <3>2. GeoTypeOK' /\ DiskInv'
      BY <3>1, <1>0, <2>3, EndedFacts DEF Exit, GeoTypeOK, DiskInv, UpTo, disk, world
    <3> QED
      BY <3>2, <2>3, EndedFacts, NoUpdate, PcsFacts DEF Exit
  <2> QED
    BY <1>1, <2>1, <2>2, <2>3 DEF WorkerStep
<1>2. CASE OpenDialog \/ ClickCheck
  <2>1. <<>> \in Seq(Kinds) /\ 1 \in 1 .. published /\ Apart(<<>>)
    BY <1>0 DEF GeoTypeOK, Versions, Apart
  <2>2. cancelled' \in BOOLEAN /\ dialog' \in [open: BOOLEAN, busy: BOOLEAN]
    <3>1. CASE OpenDialog
      BY <1>0, <3>1 DEF OpenDialog, GeoTypeOK
    <3>2. CASE ClickCheck
      BY <1>0, <3>2 DEF ClickCheck, GeoTypeOK
    <3> QED
      BY <1>2, <3>1, <3>2
  <2>3. StartThread(NewThread("check", <<>>, 1)) /\ UNCHANGED <<disk, world, posted, up>>
    BY <1>2 DEF OpenDialog, ClickCheck, CheckThread
  <2> QED
    BY <2>1, <2>2, <2>3, StartKeepsInv
<1>3. CASE \E kinds \in Updates : ClickUpdate(kinds)
  <2>1. PICK kinds \in Updates : ClickUpdate(kinds)
    BY <1>3
  <2>2. kinds \in Seq(Kinds) /\ Apart(kinds) /\ published \in 1 .. published
    BY <1>0, KindsFacts DEF GeoTypeOK, Versions
  <2>3. cancelled' \in BOOLEAN /\ dialog' \in [open: BOOLEAN, busy: BOOLEAN]
    BY <1>0, <2>1 DEF ClickUpdate, GeoTypeOK
  <2>4. StartThread(NewThread("next", kinds, published)) /\ UNCHANGED <<disk, world, posted, up>>
    BY <2>1 DEF ClickUpdate, UpdateThread
  <2> QED
    BY <2>2, <2>3, <2>4, StartKeepsInv
<1>4. CASE CloseDialog \/ ClickCancel \/ Quit \/ Start \/ FallSilent
  <2>1. UNCHANGED <<disk, published, worker>>
    BY <1>4 DEF CloseDialog, ClickCancel, Quit, Start, FallSilent, world, window
  <2>2. CASE CloseDialog \/ ClickCancel
    <3>1. dialog' \in [open: BOOLEAN, busy: BOOLEAN] /\ cancelled' \in BOOLEAN
      <4>1. CASE CloseDialog
        BY <1>0, <4>1 DEF CloseDialog, GeoTypeOK
      <4>2. CASE ClickCancel
        BY <1>0, <4>2 DEF ClickCancel, GeoTypeOK
      <4> QED
        BY <2>2, <4>1, <4>2
    <3>2. UNCHANGED <<disk, world, worker, hasThread, posted, up>>
      BY <2>2 DEF CloseDialog, ClickCancel
    <3>3. GeoTypeOK'
      BY <1>0, <3>1, <3>2 DEF GeoTypeOK, disk, world
    <3> QED
      BY <2>1, <3>2, <3>3, ElsewhereKeepsInv
  <2>3. CASE Quit
    BY <1>0, <2>1, <2>3, ElsewhereKeepsInv DEF Quit, GeoTypeOK, disk, world
  <2>4. CASE Start \/ FallSilent
    BY <1>0, <2>1, <2>4, ElsewhereKeepsInv DEF Start, FallSilent, GeoTypeOK, disk, world, window
  <2> QED
    BY <1>4, <2>2, <2>3, <2>4
<1>5. CASE DeliverResult \/ DeliverFinished
  <2>1. posted' \in Seq(Events)
    BY <1>0, <1>5, PostedFacts DEF DeliverResult, DeliverFinished
  <2> QED
    BY <1>0, <1>5, <2>1, ElsewhereKeepsInv
       DEF DeliverResult, DeliverFinished, GeoTypeOK, disk, world
<1>6. CASE DeliverStale \/ Gone \/ Kill
  BY <1>6, ForgottenKeepsInv DEF DeliverStale, Gone, Kill
<1>7. CASE Publish
  <2>1. published' \in Versions /\ 1 .. published \subseteq 1 .. published'
        /\ published <= published'
    BY <1>0, <1>7, GeoAssumption DEF Publish, GeoTypeOK, Versions
  <2>2. GeoTypeOK' /\ UNCHANGED <<disk, worker>>
    BY <1>0, <1>7, <2>1 DEF Publish, GeoTypeOK, disk, window
  <2>3. DiskInv'
    BY <1>0, <2>1, <2>2 DEF DiskInv, UpTo, disk
  <2>4. worker.since \in Int /\ published \in Int /\ published' \in Int
    BY <1>0, <2>2 DEF GeoTypeOK, Threads, Versions
  <2> QED
    <3>1. DoneInv'
      BY <1>0, <2>1, <2>2, <2>4 DEF DoneInv, UpToDate, Apart, disk
    <3> QED
      BY <1>0, <2>1, <2>2, <2>3, <2>4, <3>1
         DEF GeoInv, HandInv, ExpectInv, PlaceInv, Kind, UpTo, disk
<1>8. CASE ChangeOutside
  <2>1. PICK k \in Kinds, c \in {Own, None} :
          /\ final' = [final EXCEPT ![k] = c]
          /\ worker' = IF worker.pc \in UpdatePcs
                       THEN [worker EXCEPT !.touched = @ \cup {k}] ELSE worker
    BY <1>8 DEF ChangeOutside
  <2>2. \A n \in Int : final \in [Kinds -> UpTo(n)] => final' \in [Kinds -> UpTo(n)]
    BY <2>1 DEF UpTo
  <2>3. published \in Int /\ final' \in [Kinds -> Files] /\ outside' \in 0 .. MaxOutside
    BY <1>0, <1>8, <2>1, GeoAssumption DEF ChangeOutside, GeoTypeOK, Versions, Files
  <2>4. /\ worker' \in Threads /\ worker'.pc = worker.pc /\ worker'.i = worker.i
        /\ worker'.kinds = worker.kinds /\ worker'.ok = worker.ok
        /\ worker'.expected = worker.expected /\ worker'.since = worker.since
        /\ worker'.touched \in {worker.touched, worker.touched \cup {k}}
        /\ worker.pc \in UpdatePcs => worker'.touched = worker.touched \cup {k}
    BY <1>0, <2>1 DEF GeoTypeOK, Threads
  <2>5. UNCHANGED <<temp, bak, verified, published>>
    BY <1>8 DEF ChangeOutside
  <2>6. GeoTypeOK'
    BY <1>0, <1>8, <2>3, <2>4 DEF ChangeOutside, GeoTypeOK, window
  <2>7. DiskInv' /\ ExpectInv'
    BY <1>0, <2>2, <2>3, <2>4, <2>5 DEF DiskInv, ExpectInv, UpTo
  <2>8. PlaceInv'
    <3>1. worker.pc \notin {"replace", "clean"}
      BY <1>8 DEF ChangeOutside, At
    <3>2. worker.pc = "remember" /\ Kind \notin worker'.touched => final'[Kind] = final[Kind]
      BY <1>0, <2>1, <2>4, KindInHand DEF UpdatePcs, GeoTypeOK
    <3>3. Kind' = Kind
      BY <2>4 DEF Kind
    <3> QED
      BY <1>0, <2>4, <2>5, <3>1, <3>2, <3>3 DEF PlaceInv
  <2>9. DoneInv'
    <3>1. ASSUME NEW l \in Kinds, UpToDate(l), worker.pc \in UpdatePcs
          PROVE  UpToDate(l)'
      <4>1. CASE l = k
        BY <2>4, <3>1, <4>1 DEF UpToDate
      <4>2. CASE l # k
        <5>1. final'[l] = final[l]
          BY <1>0, <2>1, <4>2 DEF GeoTypeOK
        <5> QED
          BY <2>4, <2>5, <3>1, <5>1 DEF UpToDate
      <4> QED
        BY <4>1, <4>2
    <3>2. \A j \in 1 .. Len(worker.kinds) : worker.kinds[j] \in Kinds
      BY <1>0 DEF GeoTypeOK, Threads
    <3> QED
      BY <1>0, <2>4, <2>5, <3>1, <3>2 DEF DoneInv, Apart
  <2> QED
    BY <1>0, <2>4, <2>6, <2>7, <2>8, <2>9 DEF GeoInv, HandInv
<1>9. CASE UNCHANGED vars
  BY <1>0, <1>9, ElsewhereKeepsInv DEF vars, disk, world, window, GeoTypeOK
<1> QED
  BY <1>1, <1>2, <1>3, <1>4, <1>5, <1>6, <1>7, <1>8, <1>9 DEF GeoNext

\* GeoInv holds always: what is on the disk, in hand and done belongs together.
THEOREM GeoAlwaysInv == GeoSpec => []GeoInv
BY GeoInitInv, GeoStepInv, PTL DEF GeoSpec

\* GeoTypeOK holds always.
THEOREM GeoTypeCorrect == GeoSpec => []GeoTypeOK
<1>1. GeoInv => GeoTypeOK
  BY DEF GeoInv
<1> QED
  BY <1>1, GeoAlwaysInv, PTL

-----------------------------------------------------------------------------
(* Updates implement the replacement of whole files                          *)

LEMMA RecoverableFacts ==
  ASSUME GeoInv
  PROVE  /\ Recoverable \in [Kinds -> UpTo(published)]
         /\ \A k \in Kinds : Recoverable[k] = IF final[k] # None THEN final[k] ELSE bak[k]
BY DEF GeoInv, DiskInv, Recoverable

\* Two states with the same files to be had are one state of ReplacedFiles.
LEMMA SameRecoverable ==
  ASSUME \A k \in Kinds : (IF final[k] # None THEN final[k] ELSE bak[k])'
                           = IF final[k] # None THEN final[k] ELSE bak[k]
  PROVE  Recoverable' = Recoverable
BY DEF Recoverable

LEMMA GeoInitMaps == GeoInit => Replaced!ReplacedInit
BY DEF GeoInit, Recoverable, Replaced!ReplacedInit

LEMMA GeoStepMaps ==
  ASSUME GeoInv, [GeoNext]_vars
  PROVE  [Replaced!ReplacedNext]_(Replaced!replacedVars)
<1> USE DEF Replaced!replacedVars
<1>0. GeoTypeOK /\ HandInv /\ DiskInv /\ ExpectInv /\ PlaceInv
  BY DEF GeoInv
<1>1. CASE UNCHANGED <<final, bak, published, outside>>
  BY <1>1, SameRecoverable
<1>2. CASE SetAside
  <2>1. Kind \in Kinds
    BY <1>0, <1>2, KindInHand DEF SetAside, At, UpdatePcs
  <2>2. UNCHANGED <<published, outside>>
    BY <1>2 DEF SetAside, world
  <2>3. CASE UNCHANGED <<final, bak>>
    BY <2>2, <2>3, SameRecoverable
  <2>4. CASE /\ final[Kind] # None
             /\ final' = [final EXCEPT ![Kind] = None]
             /\ bak' = [bak EXCEPT ![Kind] = final[Kind]]
    BY <1>0, <2>1, <2>2, <2>4, SameRecoverable DEF DiskInv
  <2>5. CASE /\ final[Kind] # None
             /\ bak' = [bak EXCEPT ![Kind] = None]
             /\ UNCHANGED final
    BY <1>0, <2>1, <2>2, <2>5, SameRecoverable DEF DiskInv
  <2> QED
    BY <1>2, <2>3, <2>4, <2>5 DEF SetAside
<1>3. CASE ReplaceFile
  <2>1. Kind \in Kinds /\ worker.pc = "replace"
    BY <1>0, <1>3, KindInHand DEF ReplaceFile, At, UpdatePcs
  <2>2. UNCHANGED <<published, outside>>
    BY <1>3 DEF ReplaceFile, world
  <2>3. /\ temp[Kind] = worker.expected /\ worker.expected \in 1 .. published
        /\ final[Kind] = None /\ bak[Kind] \in UpTo(worker.expected)
    BY <1>0, <2>1 DEF ExpectInv, PlaceInv, Fetching
  <2>4. CASE final' = [final EXCEPT ![Kind] = temp[Kind]] /\ UNCHANGED bak
    <3>1. Recoverable[Kind] = bak[Kind]
      BY <2>1, <2>3, RecoverableFacts
    <3>2. Recoverable' = [Recoverable EXCEPT ![Kind] = worker.expected]
      <4>1. worker.expected # None
        BY <2>3, GeoNamesAssumption
      <4> QED
        BY <1>0, <2>1, <2>3, <2>4, <4>1 DEF Recoverable, DiskInv
    <3>3. worker.expected \in Replaced!Newer(Recoverable[Kind])
      BY <2>3, <3>1, GeoNamesAssumption DEF Replaced!Newer, UpTo
    <3> QED
      BY <2>1, <2>2, <3>2, <3>3 DEF Replaced!ReplacedNext, Replaced!Replace
  <2>5. CASE /\ bak[Kind] # None
             /\ final' = [final EXCEPT ![Kind] = bak[Kind]]
             /\ bak' = [bak EXCEPT ![Kind] = None]
    BY <1>0, <2>1, <2>2, <2>3, <2>5, SameRecoverable DEF DiskInv
  <2>6. CASE UNCHANGED <<final, bak>>
    BY <2>2, <2>6, SameRecoverable
  <2> QED
    BY <1>3, <2>4, <2>5, <2>6 DEF ReplaceFile
<1>4. CASE Clean
  <2>1. Kind \in Kinds /\ final[Kind] # None
    BY <1>0, <1>4, KindInHand DEF Clean, At, UpdatePcs, PlaceInv
  <2>2. /\ bak' \in {bak, [bak EXCEPT ![Kind] = None]}
        /\ UNCHANGED <<final, published, outside>>
    BY <1>4 DEF Clean, world
  <2> QED
    BY <1>0, <2>1, <2>2, SameRecoverable DEF DiskInv
<1>5. CASE Publish
  <2>1. Recoverable' = Recoverable /\ UNCHANGED outside
    BY <1>5, SameRecoverable DEF Publish, disk
  <2> QED
    BY <1>5, <2>1 DEF Publish, Replaced!ReplacedNext, Replaced!Publish
<1>6. CASE ChangeOutside
  <2>1. PICK k \in Kinds, c \in {Own, None} : final' = [final EXCEPT ![k] = c]
    BY <1>6 DEF ChangeOutside
  <2>2. UNCHANGED <<bak, published>>
    BY <1>6 DEF ChangeOutside
  <2>3. Recoverable' = [Recoverable EXCEPT ![k] = Recoverable'[k]]
    BY <1>0, <2>1, <2>2 DEF Recoverable, DiskInv
  <2>4. Recoverable'[k] \in Replaced!Contents
    <3>1. bak[k] \in UpTo(published) /\ UpTo(published) \subseteq Replaced!Contents
      BY <1>0, GeoAssumption DEF DiskInv, UpTo, GeoTypeOK, Versions, Replaced!Contents
    <3>2. Recoverable'[k] = IF c # None THEN c ELSE bak[k]
      BY <1>0, <2>1, <2>2 DEF Recoverable, DiskInv
    <3> QED
      BY <3>1, <3>2 DEF Replaced!Contents
  <2>5. outside < MaxOutside /\ outside' = outside + 1
    BY <1>6 DEF ChangeOutside
  <2> QED
    BY <2>2, <2>3, <2>4, <2>5 DEF Replaced!ReplacedNext, Replaced!ChangeOutside
<1>7. CASE UpdateStep
  <2>1. CASE NextKind \/ Report \/ FetchChecksum \/ FetchFile \/ Verify \/ Remember
    BY <1>1, <2>1 DEF NextKind, Report, FetchChecksum, FetchFile, Verify, Remember, disk, world
  <2> QED
    BY <1>2, <1>3, <1>4, <1>7, <2>1 DEF UpdateStep
<1>8. CASE Check \/ Exit
  BY <1>1, <1>8 DEF Check, Exit, disk, world
<1>9. CASE OpenDialog \/ CloseDialog \/ ClickCheck \/ ClickCancel
           \/ (\E kinds \in Updates : ClickUpdate(kinds))
  BY <1>1, <1>9 DEF OpenDialog, CloseDialog, ClickCheck, ClickCancel, ClickUpdate, disk, world
<1>10. CASE DeliverResult \/ DeliverFinished \/ DeliverStale \/ Quit \/ Gone \/ Kill \/ Start
            \/ FallSilent
  BY <1>1, <1>10 DEF DeliverResult, DeliverFinished, DeliverStale, Quit, Gone, Kill, Start,
                     FallSilent, AllForgotten, disk, world
<1>11. CASE UNCHANGED vars
  BY <1>1, <1>11 DEF vars, disk, world
<1> QED
  BY <1>5, <1>6, <1>7, <1>8, <1>9, <1>10, <1>11 DEF GeoNext, WorkerStep

\* FilesAreReplaced: whatever fails and whenever the program ends, a geo file can be had
\* as it was or as published, for every set of files and any number of versions.
THEOREM UpdatesReplaceFiles == GeoSpec => FilesAreReplaced
<1>1. GeoInv /\ [GeoNext]_vars => [Replaced!ReplacedNext]_(Replaced!replacedVars)
  BY GeoStepMaps
<1> QED
  BY <1>1, GeoInitMaps, GeoAlwaysInv, PTL DEF GeoSpec, FilesAreReplaced, Replaced!ReplacedSpec

-----------------------------------------------------------------------------
(* An update that reports success                                            *)

LEMMA CompletedIsUpToDate ==
  ASSUME GeoInv, [GeoNext]_vars, posted' = Append(posted, "completed")
  PROVE  \A k \in {worker.kinds[i] : i \in 1 .. Len(worker.kinds)} \ worker.touched :
           /\ final[k] \in Versions
           /\ final[k] >= worker.since
           /\ verified[k] = final[k]
<1>0. GeoTypeOK /\ DoneInv /\ posted \in Seq(Events)
  BY DEF GeoInv, GeoTypeOK
<1>1. Len(posted') = Len(posted) + 1 /\ posted'[Len(posted')] = "completed"
  BY <1>0 DEF Events
<1>2. posted' # posted /\ posted' # <<>> /\ (posted # <<>> => posted' # Tail(posted))
  BY <1>0, <1>1
<1>3. posted' # Append(posted, "finished")
  BY <1>0, <1>1 DEF Events
<1>4. Report
  BY <1>2, <1>3
     DEF GeoNext, WorkerStep, UpdateStep, NextKind, FetchChecksum, FetchFile, Verify, SetAside,
         ReplaceFile, Clean, Remember, Check, Exit, OpenDialog, CloseDialog, ClickCheck, ClickCancel,
         ClickUpdate, DeliverResult, DeliverFinished, DeliverStale, Quit, Gone, Kill, Start, Publish,
         FallSilent, ChangeOutside, AllForgotten, vars, window
<1>5. posted' # Append(posted, "failed")
  BY <1>0, <1>1 DEF Events
<1>6. worker.ok /\ ~cancelled /\ worker.pc = "next" /\ worker.i > Len(worker.kinds)
  BY <1>4, <1>5 DEF Report, At
<1>7. worker.i \in Nat
  BY <1>0 DEF GeoTypeOK, Threads
<1>8. \A i \in 1 .. Len(worker.kinds) : UpToDate(worker.kinds[i])
  BY <1>0, <1>6, <1>7 DEF DoneInv, UpdatePcs, GeoTypeOK, Threads
<1> QED
  BY <1>8 DEF UpToDate

\* SuccessIsUpToDate, for every number of files that one update asks for: those in place
\* are new enough and the ones whose hashes are remembered, whatever rename failed.
THEOREM ReportedSuccessIsUpToDate == GeoSpec => SuccessIsUpToDate
<1>1. GeoInv /\ [GeoNext]_vars
        => [posted' = Append(posted, "completed")
              => \A k \in {worker.kinds[i] : i \in 1 .. Len(worker.kinds)} \ worker.touched :
                   /\ final[k] \in Versions
                   /\ final[k] >= worker.since
                   /\ verified[k] = final[k]]_vars
  BY CompletedIsUpToDate
<1> QED
  BY <1>1, GeoAlwaysInv, PTL DEF GeoSpec, SuccessIsUpToDate

=============================================================================
