------------------------------- MODULE FileSync -------------------------------
(***************************************************************************)
(* Devices that synchronise through one file of a cloud provider.          *)
(*                                                                         *)
(* The file holds a snapshot of the application's state, the newest        *)
(* operations and a version that counts uploads.  A device reads the file, *)
(* applies the operations it does not know or, when it detects that it     *)
(* missed some, takes over the whole snapshot; then it writes the file     *)
(* back with its own operations added, on condition that nobody wrote in   *)
(* between.  A user who is asked to choose may replace the file.           *)
(*                                                                         *)
(* Every operation edits an entity of its own, so a state is the set of    *)
(* operations it shows: conflicts on one entity are the matter of          *)
(* ClockExchange.  The backup file, encryption, the removal of the file    *)
(* and the change of providers are left out.  Clocks are not pruned.       *)
(***************************************************************************)
EXTENDS SyncVectorClock

CONSTANTS
  Joined,          \* the devices that share the file at the start
  Founders,        \* the devices that may synchronise before there is a file
  StartVersion,    \* the version of that file
  MaxRecent,       \* MAX_RECENT_OPS, 500 in the code
  ChunkSize,       \* MAX_OPS_PER_UPLOAD_REQUEST, 25 in the code
  CycleWithinTtl,  \* whether a synchronisation ends before its cached file expires
  ChunksTogether,  \* whether nobody else writes between two chunks of an upload
  GuardedCreate,   \* whether the provider refuses to create a file that exists
  EditsAtHydration, \* whether edits may come while a snapshot is being taken over
  MaxEdits,        \* bound on the edits of a device
  MaxForces,       \* bound on the replacements of the file
  MaxFailures,     \* bound on failed requests and cancelled dialogs
  MaxRestarts      \* bound on restarts of the application

ASSUME JoinedAssumption == Joined \subseteq Clients /\ Founders \subseteq Clients
ASSUME SizesAssumption == {StartVersion, MaxRecent, ChunkSize} \subseteq Nat \ {0}
ASSUME BudgetsAssumption == {MaxEdits, MaxForces, MaxFailures, MaxRestarts} \subseteq Nat
ASSUME SwitchesAssumption == {CycleWithinTtl, ChunksTogether, GuardedCreate, EditsAtHydration} \subseteq BOOLEAN

VARIABLES
  file,    \* the sync file; the revision that the provider gives it is part of it
  dev,     \* what each device stores and the progress of its synchronisation
  spent    \* the bounded events so far: replacements, failures, restarts

vars == <<file, dev, spent>>

\* An operation: its author, its number among the author's, its vector clock.
Ops == [by : Clients, n : Nat \ {0}, clk : Clock]

\* An entry of recentOps: an operation and the version of the upload that brought it.
RecentEntries == [op : Ops, sv : Nat \ {0}]

NoFile == [rev |-> 0]

Files ==
  [rev : Nat \ {0}, version : Nat \ {0}, clock : Clock, by : Clients,
   state : SUBSET Ops, recent : SUBSET RecentEntries]

\* A full-state operation that waits for its upload: the number of the last edit before it.
NoImport == [upto |-> -1, clock |-> ZeroClock]

Nothing ==
  [file |-> NoFile, whole |-> FALSE, chosen |-> FALSE, ops |-> {}, clock |-> ZeroClock]

OpsIn(entries) == {e.op : e \in entries}

LastOf(numbers) == CHOOSE n \in numbers : \A m \in numbers : n >= m

-----------------------------------------------------------------------------
(* The contents of the file *)

\* The entries of recentOps are in upload order, those of one upload in the author's order.
Newer(x, e) == x.sv > e.sv \/ (x.sv = e.sv /\ x.op.n > e.op.n)

\* Mutant: nothing is cut off.
TrimNothing(entries) == entries

\* combinedOps.slice(-MAX_RECENT_OPS)
Trim(entries) == {e \in entries : Cardinality({x \in entries : Newer(x, e)}) < MaxRecent}

MergedClock(clock, ops) ==
  [c \in Clients |-> LastOf({clock[c]} \union {op.clk[c] : op \in ops})]

\* Mutant: the snapshot is one from before the edits that are sent along.
SnapshotBeforeEdits(d) == dev[d].ops \ dev[d].pending

\* getStateSnapshot: what the store shows at this moment.
StateSnapshot(d) == dev[d].ops

\* _buildMergedSyncData: base is the file as read, or none; the state is the device's own.
Merged(base, d, chunk) ==
  LET version == IF base = NoFile THEN 1 ELSE base.version + 1
      before  == IF base = NoFile THEN {} ELSE base.recent
      clock   == IF base = NoFile THEN ZeroClock ELSE base.clock
  IN  [rev |-> file.rev + 1, version |-> version, clock |-> MergedClock(clock, chunk),
       by |-> d, state |-> StateSnapshot(d),
       recent |-> Trim(before \union {[op |-> op, sv |-> version] : op \in chunk})]

\* Mutant: the write is not conditional.
WriteSucceedsAlways(base) == base = NoFile \/ file.rev >= base.rev

\* The condition of the provider on the write; revToMatch is null when no file was seen.
WriteSucceeds(base) ==
  IF base = NoFile THEN file = NoFile \/ ~GuardedCreate ELSE file.rev = base.rev

-----------------------------------------------------------------------------
(* Gap detection in _downloadOps *)

VersionWasReset(d) == dev[d].expected > 0 /\ file.version < dev[d].expected

SnapshotReplaced(d) == dev[d].seq > 0 /\ file.recent = {} /\ file.by # d

\* Mutant: the buffer must have overflowed, not just be full.
TrimmedAboveLimit(d) ==
  /\ dev[d].seq > 0
  /\ Cardinality(file.recent) > MaxRecent
  /\ \A e \in file.recent : e.sv > dev[d].seq

\* partialTrimGap: oldestOpSyncVersion is the least sv of the entries.
PartialTrimGap(d) ==
  /\ dev[d].seq > 0
  /\ Cardinality(file.recent) >= MaxRecent
  /\ \A e \in file.recent : e.sv > dev[d].seq

\* Mutant: a file whose versions started anew is taken for a continuation.
GapWithoutReset(d) == SnapshotReplaced(d) \/ PartialTrimGap(d)

GapDetected(d) == VersionWasReset(d) \/ SnapshotReplaced(d) \/ PartialTrimGap(d)

-----------------------------------------------------------------------------
(* Edits, and the download half of a synchronisation *)

FreshDevice ==
  [ops |-> {}, known |-> {}, pending |-> {}, import |-> NoImport, clock |-> ZeroClock,
   edits |-> 0, seq |-> 0, expected |-> 0, kept |-> 0, cache |-> NoFile,
   phase |-> "idle", got |-> Nothing, todo |-> {}, seen |-> 0]

\* A device that has taken over the file of the start: hydration counts as one tick.
JoinedDevice(d) ==
  [FreshDevice EXCEPT !.clock = [c \in Clients |-> IF c = d THEN 2
                                                   ELSE IF c \in Joined THEN 1 ELSE 0],
                      !.seq = StartVersion, !.expected = StartVersion,
                      !.kept = StartVersion, !.seen = 1]

StartFile ==
  [rev |-> 1, version |-> StartVersion, by |-> CHOOSE d \in Joined : TRUE,
   clock |-> [c \in Clients |-> IF c \in Joined THEN 1 ELSE 0],
   state |-> {}, recent |-> {}]

Init ==
  /\ file = IF Joined = {} THEN NoFile ELSE StartFile
  /\ dev = [d \in Clients |-> IF d \in Joined THEN JoinedDevice(d) ELSE FreshDevice]
  /\ spent = [forces |-> 0, failures |-> 0, restarts |-> 0]

\* An edit is captured at any time, in the middle of a synchronisation too.
Edit(d) ==
  /\ dev[d].edits < MaxEdits
  /\ dev[d].phase = "hydrating" => EditsAtHydration
  /\ LET clock == IncrementClock(dev[d].clock, d)
         op    == [by |-> d, n |-> dev[d].edits + 1, clk |-> clock]
     IN  dev' = [dev EXCEPT ![d].edits = @ + 1, ![d].clock = clock,
                            ![d].ops = @ \union {op}, ![d].pending = @ \union {op}]
  /\ UNCHANGED <<file, spent>>

\* There is no file: the cursor is set to 0, and the upload will create one.
FindNoFile(d) ==
  /\ d \in Founders
  /\ dev[d].phase = "idle"
  /\ file = NoFile
  /\ dev' = [dev EXCEPT ![d].phase = "ready", ![d].seq = 0, ![d].kept = dev[d].expected]
  /\ UNCHANGED <<file, spent>>

\* What a read of the file does to the device, the detection of a gap apart.
AfterRead(device) == [device EXCEPT !.cache = file, !.expected = file.version]

\* The device with the file as downloaded; whole says whether the snapshot counts.
Holding(device, whole, chosen) ==
  [AfterRead(device) EXCEPT !.phase = "got",
     !.got = [Nothing EXCEPT !.file = file, !.whole = whole, !.chosen = chosen]]

\* The first request of a download, from the device's cursor.  A gap makes the download
\* start again from 0; the expected version is overwritten at once, in memory.
Download(d) ==
  /\ dev[d].phase = "idle"
  /\ file # NoFile
  /\ dev' = [dev EXCEPT ![d] =
       IF GapDetected(d) THEN [AfterRead(@) EXCEPT !.phase = "gap"]
                         ELSE Holding(@, dev[d].seq = 0, FALSE)]
  /\ UNCHANGED <<file, spent>>

\* The request from 0, after a gap or for a user who takes over the remote state.
DownloadWhole(d) ==
  /\ dev[d].phase \in {"gap", "chosen"}
  /\ dev' = [dev EXCEPT ![d] = Holding(@, TRUE, dev[d].phase = "chosen")]
  /\ UNCHANGED <<file, spent>>

-----------------------------------------------------------------------------
(* Applying what was downloaded *)

\* The operations returned: not the device's own, not those whose ids it stores.
NewOps(d) == {op \in OpsIn(dev[d].got.file.recent) : op.by # d} \ dev[d].known

\* planSnapshotHydration: the local clock is EQUAL to the snapshot's or GREATER_THAN it.
CoversSnapshot(d) ==
  LET clock == dev[d].got.file.clock
  IN  Entries(clock) # {} /\ Entries(dev[d].clock) # {} /\ Dominates(dev[d].clock, clock)

HasUnsynced(d) == dev[d].pending # {} \/ dev[d].import # NoImport

\* processRemoteOps
ApplyOps(d) ==
  /\ dev[d].phase = "got" /\ ~dev[d].got.whole
  /\ LET new == NewOps(d)
     IN  dev' = [dev EXCEPT ![d].phase = "applied", ![d].ops = @ \union new,
                            ![d].known = @ \union new, ![d].clock = MergedClock(@, new)]
  /\ UNCHANGED <<file, spent>>

\* The snapshot holds nothing new; the operations next to it are not stored either.
SkipSnapshot(d) ==
  /\ dev[d].phase = "got" /\ dev[d].got.whole /\ ~dev[d].got.chosen
  /\ CoversSnapshot(d)
  /\ dev' = [dev EXCEPT ![d].phase = "applied"]
  /\ UNCHANGED <<file, spent>>

\* LocalDataConflictError: the dialog opens.
AskUser(d) ==
  /\ dev[d].phase = "got" /\ dev[d].got.whole /\ ~dev[d].got.chosen
  /\ ~CoversSnapshot(d) /\ HasUnsynced(d)
  /\ dev' = [dev EXCEPT ![d].phase = "asked"]
  /\ UNCHANGED <<file, spent>>

\* Nothing here would be lost: the snapshot is accepted without a question.  A user who
\* chose the remote state is not asked again, nor is the clock compared.
AcceptSnapshot(d) ==
  /\ dev[d].phase = "got" /\ dev[d].got.whole
  /\ dev[d].got.chosen \/ (~CoversSnapshot(d) /\ ~HasUnsynced(d))
  /\ dev' = [dev EXCEPT ![d].phase = "accepted"]
  /\ UNCHANGED <<file, spent>>

\* hydrateFromRemoteSync, to the rejection of what is pending by now: the user is told.  The
\* clock is computed before, and stored at the end.
RejectPending(d) ==
  /\ dev[d].phase = "accepted"
  /\ LET clock == IF dev[d].got.chosen THEN ZeroClock ELSE dev[d].clock
     IN  dev' = [dev EXCEPT ![d].phase = "hydrating", ![d].pending = {}, ![d].import = NoImport,
           ![d].got.clock = IncrementClock(MergeClocks(clock, dev[d].got.file.clock), d)]
  /\ UNCHANGED <<file, spent>>

\* The snapshot is validated, then it replaces the state and the clock; the operations next
\* to it are stored as applied.
Hydrate(d) ==
  /\ dev[d].phase = "hydrating"
  /\ dev' = [dev EXCEPT ![d].phase = "applied", ![d].ops = dev[d].got.file.state,
                        ![d].known = @ \union NewOps(d), ![d].clock = dev[d].got.clock]
  /\ UNCHANGED <<file, spent>>

\* setLastServerSeq, after what was downloaded is stored; it saves the expected version too.
AdvanceCursor(d) ==
  /\ dev[d].phase = "applied"
  /\ dev' = [dev EXCEPT ![d].seq = dev[d].got.file.version, ![d].kept = dev[d].expected,
                        ![d].seen = dev[d].got.file.rev, ![d].got = Nothing,
                        ![d].phase = IF dev[d].got.chosen THEN "idle" ELSE "ready"]
  /\ UNCHANGED <<file, spent>>

\* USE_LOCAL: a full-state operation that covers the edits so far is queued.
ChooseLocal(d) ==
  /\ dev[d].phase = "asked"
  /\ spent.forces < MaxForces
  /\ LET clock == IncrementClock(dev[d].clock, d)
     IN  dev' = [dev EXCEPT ![d].phase = "ready", ![d].got = Nothing, ![d].clock = clock,
                            ![d].import = [upto |-> dev[d].edits, clock |-> clock]]
  /\ spent' = [spent EXCEPT !.forces = @ + 1]
  /\ UNCHANGED file

\* USE_REMOTE: what is pending is given up before the remote state is fetched.
ChooseRemote(d) ==
  /\ dev[d].phase = "asked"
  /\ dev' = [dev EXCEPT ![d].phase = "chosen", ![d].got = Nothing, ![d].pending = {},
                        ![d].import = NoImport, ![d].seq = 0, ![d].kept = dev[d].expected]
  /\ UNCHANGED <<file, spent>>

-----------------------------------------------------------------------------
(* The upload half of a synchronisation *)

\* The check for a migration, while the cursor is 0, reads the file once more.  Its answer
\* is only looked at for emptiness, but it stays in the cache.
Probed(device) ==
  IF device.seq = 0 /\ device.import = NoImport /\ file # NoFile
  THEN AfterRead(device) ELSE device

StartUpload(d) ==
  /\ dev[d].phase = "ready"
  /\ dev' = [dev EXCEPT ![d] =
       [Probed(@) EXCEPT !.phase = IF HasUnsynced(d) THEN "uploading" ELSE "idle",
                         !.todo = dev[d].pending]]
  /\ UNCHANGED <<file, spent>>

\* _uploadSnapshot: an unconditional write that starts the versions anew.
ForceUpload(d) ==
  /\ dev[d].phase = "uploading" /\ dev[d].import # NoImport
  /\ file' = [rev |-> file.rev + 1, version |-> 1, clock |-> dev[d].import.clock, by |-> d,
              state |-> StateSnapshot(d), recent |-> {}]
  /\ LET covered == {op \in dev[d].pending : op.n <= dev[d].import.upto}
     IN  dev' = [dev EXCEPT ![d].phase = "wrote", ![d].seq = 1, ![d].expected = 1, ![d].kept = 1,
                            ![d].got = [Nothing EXCEPT !.file = file', !.ops = covered]]
  /\ UNCHANGED spent

\* The file that _uploadOps builds on: the cached one, or else the one of this moment.
Base(d) == IF dev[d].cache = NoFile THEN file ELSE dev[d].cache

NextChunk(d) ==
  {op \in dev[d].todo : Cardinality({o \in dev[d].todo : o.n < op.n}) < ChunkSize}

\* _getCurrentSyncState
PrepareChunk(d) ==
  /\ dev[d].phase = "uploading" /\ dev[d].import = NoImport
  /\ dev' = [dev EXCEPT ![d].phase = "writing",
                        ![d].got = [Nothing EXCEPT !.file = Base(d), !.ops = NextChunk(d)]]
  /\ UNCHANGED <<file, spent>>

\* The device has written a chunk and has another to write.  The first write has cleared
\* its cache, so that the next chunk builds on the file of that moment.
BetweenChunks(d) ==
  \/ dev[d].phase = "wrote" /\ dev[d].todo \ dev[d].got.ops # {}
  \/ /\ dev[d].phase \in {"uploading", "writing"} /\ dev[d].cache = NoFile
     /\ file # NoFile /\ file.by = d

\* The conditional write of one chunk; the state is the one of this moment.
WriteChunk(d) ==
  /\ dev[d].phase = "writing"
  /\ WriteSucceeds(dev[d].got.file)
  /\ ChunksTogether => \A e \in Clients \ {d} : ~BetweenChunks(e)
  /\ file' = Merged(dev[d].got.file, d, dev[d].got.ops)
  /\ dev' = [dev EXCEPT ![d].phase = "wrote", ![d].cache = NoFile, ![d].got.file = file',
                        ![d].expected = file'.version, ![d].kept = file'.version]
  /\ UNCHANGED spent

\* Mutant: the write is tried again with the same file in hand.
MeetMismatchInPlace(d) ==
  /\ dev[d].phase = "writing"
  /\ ~WriteSucceeds(dev[d].got.file)
  /\ UNCHANGED vars

\* Somebody else wrote: the next synchronisation will read the file anew.
MeetMismatch(d) ==
  /\ dev[d].phase = "writing"
  /\ ~WriteSucceeds(dev[d].got.file)
  /\ dev' = [dev EXCEPT ![d].phase = "idle", ![d].got = Nothing, ![d].todo = {}]
  /\ UNCHANGED <<file, spent>>

\* markSynced and the cursor, after the write: a crash may come between.
MarkSynced(d) ==
  /\ dev[d].phase = "wrote"
  /\ LET left == dev[d].todo \ dev[d].got.ops
         top  == LastOf({dev[d].seq, dev[d].got.file.version})
     IN  dev' = [dev EXCEPT ![d].pending = @ \ dev[d].got.ops, ![d].import = NoImport,
                            ![d].todo = left, ![d].seq = top, ![d].kept = dev[d].expected,
                            ![d].seen = dev[d].got.file.rev, ![d].got = Nothing,
                            ![d].phase = IF left = {} THEN "idle" ELSE "uploading"]
  /\ UNCHANGED <<file, spent>>

-----------------------------------------------------------------------------
(* Failures *)

\* A request fails or a dialog is cancelled: the synchronisation ends where it is.
GiveUp(d) ==
  /\ dev[d].phase # "idle"
  /\ spent.failures < MaxFailures
  /\ dev' = [dev EXCEPT ![d].phase = "idle", ![d].got = Nothing, ![d].todo = {}]
  /\ spent' = [spent EXCEPT !.failures = @ + 1]
  /\ UNCHANGED file

\* The application is closed or crashes: what is only in memory is lost.
Restart(d) ==
  /\ spent.restarts < MaxRestarts
  /\ dev' = [dev EXCEPT ![d].phase = "idle", ![d].got = Nothing, ![d].todo = {},
                        ![d].cache = NoFile, ![d].expected = dev[d].kept]
  /\ spent' = [spent EXCEPT !.restarts = @ + 1]
  /\ UNCHANGED file

\* The cached file is older than 30 seconds.
ExpireCache(d) ==
  /\ dev[d].cache # NoFile
  /\ CycleWithinTtl => dev[d].phase = "idle"
  /\ dev' = [dev EXCEPT ![d].cache = NoFile]
  /\ UNCHANGED <<file, spent>>

Synchronise(d) ==
  \/ FindNoFile(d) \/ Download(d) \/ DownloadWhole(d)
  \/ ApplyOps(d) \/ SkipSnapshot(d) \/ AskUser(d) \/ ChooseRemote(d)
  \/ AcceptSnapshot(d) \/ RejectPending(d) \/ Hydrate(d) \/ AdvanceCursor(d)
  \/ StartUpload(d) \/ ForceUpload(d) \/ PrepareChunk(d) \/ WriteChunk(d) \/ MeetMismatch(d)
  \/ MarkSynced(d)

Next ==
  \E d \in Clients :
    \/ Edit(d)
    \/ Synchronise(d)
    \/ ChooseLocal(d)
    \/ GiveUp(d)
    \/ Restart(d)
    \/ ExpireCache(d)

Spec == Init /\ [][Next]_vars

\* Synchronisations are repeated and their steps are taken; a dialog is answered.
FairSpec == Spec /\ \A d \in Clients : WF_vars(Synchronise(d))

-----------------------------------------------------------------------------
(* Properties *)

Phases == {"idle", "gap", "chosen", "got", "asked", "accepted", "hydrating", "applied", "ready",
           "uploading", "writing", "wrote"}

\* The type invariant; recentOps never exceeds its limit.
TypeOK ==
  /\ file = NoFile \/ (file \in Files /\ Cardinality(file.recent) <= MaxRecent)
  /\ \A d \in Clients :
       /\ dev[d].ops \subseteq Ops /\ dev[d].known \subseteq Ops /\ dev[d].todo \subseteq Ops
       /\ dev[d].pending \subseteq {op \in Ops : op.by = d}
       /\ dev[d].clock \in Clock
       /\ {dev[d].edits, dev[d].seq, dev[d].expected, dev[d].kept, dev[d].seen} \subseteq Nat
       /\ dev[d].phase \in Phases
       /\ dev[d].cache = NoFile \/ dev[d].cache \in Files

\* A device that takes over the file's snapshot stores the operations next to it as applied
\* without applying them, so the snapshot has to show every one of them: whoever uploads
\* must have applied what the file held before.
SnapshotShowsRecent == file # NoFile => OpsIn(file.recent) \subseteq file.state

\* A device at rest that has completed a synchronisation with the file as it is now shows
\* the state that the file holds, whatever it had missed in between.  An edit that came
\* while its author was uploading may be in the snapshot before it is sent itself.
SeenMeansEqual ==
  \A d \in Clients :
    dev[d].phase = "idle" /\ file # NoFile /\ dev[d].seen = file.rev /\ ~HasUnsynced(d)
      => /\ dev[d].ops \subseteq file.state
         /\ file.state \ dev[d].ops \subseteq UNION {dev[e].pending : e \in Clients}

\* The operations that the file has or that a device has still to write.
Unwritten(d) == dev[d].pending \ (IF dev[d].phase = "wrote" THEN dev[d].got.ops ELSE {})

Held ==
  UNION {Unwritten(d) : d \in Clients}
    \union (IF file = NoFile THEN {} ELSE file.state \union OpsIn(file.recent))

\* The steps that carry out the choice of a user to give up one side.
CarriesOutChoice(d) ==
  \/ ForceUpload(d)
  \/ ChooseRemote(d)

\* An operation disappears from the file and the queues only by the choice of a user, or
\* when its author takes over a snapshot in the moment of the edit: no upload overwrites what
\* another device uploaded, and none is taken for uploaded that is not.
OnlyChoicesDiscard ==
  [][\/ Held \subseteq Held'
     \/ \E d \in Clients : \/ CarriesOutChoice(d)
                           \/ RejectPending(d) /\ Held \ Held' \subseteq dev[d].pending]_vars

\* Where no provider lets a device create a file that exists, a chunk replaces the very file
\* it was merged with, whatever others wrote or replaced since: that revisions agree is enough.
WritesFollowReads == [][\A d \in Clients : WriteChunk(d) => dev[d].got.file = file]_vars

\* Synchronisations that are repeated bring every device to the state of the file and leave
\* nothing pending: mismatches, gaps, failures and restarts delay that but do not prevent it.
Settles == <>[](file # NoFile => \A d \in Clients : ~HasUnsynced(d) /\ dev[d].ops = file.state)

-----------------------------------------------------------------------------
(* What makes TypeOK and WritesFollowReads inductive *)

\* The operations of one device in a queue or a chunk are told apart by their numbers.
IsNumbered(ops) ==
  IsFiniteSet(ops) /\ \A o, p \in ops : o.n = p.n => o = p

OwnOps(d) == {op \in Ops : op.by = d}

\* The entries of recentOps are totally ordered, and there are not too many.
IsWellFormed(f) ==
  /\ f \in Files
  /\ IsFiniteSet(f.recent) /\ Cardinality(f.recent) <= MaxRecent
  /\ \A e \in f.recent : e.sv <= f.version
  /\ \A e, x \in f.recent : e.sv = x.sv /\ e.op.n = x.op.n => e = x

\* A file that a device holds is the one of the provider or an older one.
IsCopy(held) ==
  held # NoFile =>
    /\ IsWellFormed(held)
    /\ file # NoFile /\ held.rev <= file.rev
    /\ held.rev = file.rev => held = file

MaybeFile == {NoFile} \union Files

Holdings(d) ==
  [file : MaybeFile, whole : BOOLEAN, chosen : BOOLEAN, ops : SUBSET OwnOps(d), clock : Clock]

Imports == [upto : Nat \union {-1}, clock : Clock]

Devices(d) ==
  [ops : SUBSET Ops, known : SUBSET Ops, pending : SUBSET OwnOps(d), import : Imports,
   clock : Clock, edits : Nat, seq : Nat, expected : Nat, kept : Nat, cache : MaybeFile,
   phase : Phases, got : Holdings(d), todo : SUBSET OwnOps(d), seen : Nat]

\* The phases in which the device holds a file, and those that follow upon the read of one.
Holds == {"got", "asked", "accepted", "hydrating", "applied", "wrote"}
HasRead == Holds \union {"gap", "chosen"}

DeviceInv(d, device) ==
  /\ device \in Devices(d)
  /\ IsNumbered(device.pending) /\ \A op \in device.pending : op.n <= device.edits
  /\ IsNumbered(device.todo) /\ IsNumbered(device.got.ops)
  /\ device.phase \in Holds => device.got.file # NoFile
  /\ device.phase \in HasRead => file # NoFile
  /\ IsCopy(device.cache) /\ IsCopy(device.got.file)

FileInv ==
  /\ file # NoFile => IsWellFormed(file)
  /\ DOMAIN dev = Clients
  /\ \A d \in Clients : DeviceInv(d, dev[d])
=============================================================================
