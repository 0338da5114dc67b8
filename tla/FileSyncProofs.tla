---------------------------- MODULE FileSyncProofs ----------------------------
(***************************************************************************)
(* Proofs about devices that synchronise through one file: what they store *)
(* is well typed, the buffer of operations in the file keeps its limit     *)
(* however uploads and replacements interleave, and a chunk replaces the   *)
(* very file it was merged with.                                           *)
(***************************************************************************)
EXTENDS FileSync, SyncVectorClockProofs

\* The three sizes are positive numbers.
LEMMA Sizes ==
  StartVersion \in Nat \ {0} /\ MaxRecent \in Nat \ {0} /\ ChunkSize \in Nat \ {0}
  BY SizesAssumption

\* A file is told from "no file" by its revision.
LEMMA NoFileIsNone ==
  /\ NoFile \notin Files
  /\ NoFile.rev = 0 /\ \A f \in Files : f.rev \in Nat \ {0}
  BY DEF NoFile, Files

\* The greatest of some numbers is one of them.
LEMMA LastIsOneOf ==
  ASSUME NEW numbers \in SUBSET Nat, IsFiniteSet(numbers), numbers # {}
  PROVE  LastOf(numbers) \in numbers
<1>1. \E m \in numbers : \A n \in numbers : m >= n
  BY FiniteSetHasMax
<1> QED
  BY <1>1 DEF LastOf

\* The clock that covers a clock and finitely many operations is a clock.
LEMMA MergedClockType ==
  ASSUME NEW clock \in Clock, NEW ops \in SUBSET Ops, IsFiniteSet(ops)
  PROVE  MergedClock(clock, ops) \in Clock
<1> SUFFICES ASSUME NEW c \in Clients
             PROVE  LastOf({clock[c]} \union {op.clk[c] : op \in ops}) \in Nat
  BY DEF MergedClock, Clock
<1> DEFINE counters == {op.clk[c] : op \in ops}
           counter == [op \in ops |-> op.clk[c]]
<1>1. counters \in SUBSET Nat /\ clock[c] \in Nat
  BY DEF Ops, Clock
<1>2. counter \in Surjection(ops, counters)
  BY DEF Surjection
<1>3. IsFiniteSet(counters)
  <2> HIDE DEF counter, counters
  <2> QED
    BY <1>2, FS_Surjection
<1>4. {clock[c]} \union counters \in SUBSET Nat /\ IsFiniteSet({clock[c]} \union counters)
  <2>1. IsFiniteSet({clock[c]})
    BY FS_Singleton
  <2> HIDE DEF counters
  <2> QED
    BY <1>1, <1>3, <2>1, FS_Union
<1> QED
  BY <1>4, LastIsOneOf

-----------------------------------------------------------------------------
(* The buffer of operations *)

\* Of entries that are totally ordered at most MaxRecent survive the cut.
LEMMA TrimFits ==
  ASSUME NEW entries \in SUBSET RecentEntries, IsFiniteSet(entries),
         \A e, x \in entries : e.sv = x.sv /\ e.op.n = x.op.n => e = x
  PROVE  IsFiniteSet(Trim(entries)) /\ Cardinality(Trim(entries)) <= MaxRecent
<1> DEFINE newer(e) == {x \in entries : Newer(x, e)}
           top == {e \in entries : Cardinality(newer(e)) < MaxRecent}
           rank == [e \in top |-> Cardinality(newer(e))]
<1>0. MaxRecent \in Nat
  BY Sizes
<1>1. \A e \in entries : IsFiniteSet(newer(e)) /\ Cardinality(newer(e)) \in Nat
  <2> SUFFICES ASSUME NEW e \in entries
               PROVE  IsFiniteSet(newer(e)) /\ Cardinality(newer(e)) \in Nat
    OBVIOUS
  <2>1. IsFiniteSet(newer(e))
    BY FS_Subset
  <2> QED
    BY <2>1, FS_CardinalityType
<1>2. \A e \in entries : e.sv \in Nat /\ e.op.n \in Nat
  BY DEF RecentEntries, Ops
<1>3. ASSUME NEW e \in entries, NEW x \in entries, Newer(x, e)
      PROVE  Cardinality(newer(x)) < Cardinality(newer(e))
  <2>1. newer(x) \subseteq newer(e) /\ x \in newer(e) /\ x \notin newer(x)
    BY <1>2, <1>3 DEF Newer
  <2>2. /\ Cardinality(newer(x)) <= Cardinality(newer(e))
        /\ Cardinality(newer(e)) = Cardinality(newer(x)) => newer(e) = newer(x)
    BY <1>1, <2>1, FS_Subset
  <2> QED
    BY <1>1, <2>1, <2>2
<1>4. rank \in [top -> 0..(MaxRecent - 1)]
  BY <1>0, <1>1
<1>5. \A e, x \in top : rank[e] = rank[x] => e = x
  <2> SUFFICES ASSUME NEW e \in top, NEW x \in top, e # x
               PROVE  Cardinality(newer(e)) # Cardinality(newer(x))
    OBVIOUS
  <2>1. Newer(e, x) \/ Newer(x, e)
    BY <1>2 DEF Newer
  <2>2. \/ Cardinality(newer(e)) < Cardinality(newer(x))
        \/ Cardinality(newer(x)) < Cardinality(newer(e))
    BY <1>3, <2>1
  <2> HIDE DEF newer
  <2> QED
    BY <1>1, <2>2
<1>6. rank \in Injection(top, 0..(MaxRecent - 1))
  BY <1>4, <1>5 DEF Injection, IsInjective
<1>7. IsFiniteSet(0..(MaxRecent - 1)) /\ Cardinality(0..(MaxRecent - 1)) = MaxRecent
  BY <1>0, FS_Interval
<1>8. Trim(entries) = top
  BY DEF Trim
<1> HIDE DEF rank, top
<1> QED
  BY <1>6, <1>7, <1>8, FS_Injection

\* What _buildMergedSyncData makes of a file as it should be is such a file again.
LEMMA MergedIsWellFormed ==
  ASSUME NEW base \in MaybeFile, base # NoFile => IsWellFormed(base),
         NEW d \in Clients, StateSnapshot(d) \in SUBSET Ops, file \in MaybeFile,
         NEW chunk \in SUBSET Ops, IsNumbered(chunk)
  PROVE  /\ IsWellFormed(Merged(base, d, chunk))
         /\ Merged(base, d, chunk).rev = file.rev + 1
<1> DEFINE version == IF base = NoFile THEN 1 ELSE base.version + 1
           before == IF base = NoFile THEN {} ELSE base.recent
           clock == IF base = NoFile THEN ZeroClock ELSE base.clock
           added == {[op |-> op, sv |-> version] : op \in chunk}
           all == before \union added
           new == Merged(base, d, chunk)
<1>1. /\ version \in Nat \ {0} /\ clock \in Clock
      /\ before \in SUBSET RecentEntries /\ IsFiniteSet(before)
      /\ \A e \in before : e.sv < version
      /\ \A e, x \in before : e.sv = x.sv /\ e.op.n = x.op.n => e = x
  <2>1. CASE base = NoFile
    BY <2>1, FS_EmptySet DEF ZeroClock, Clock
  <2>2. CASE base # NoFile
    <3>1. IsWellFormed(base) /\ base \in Files
      BY <2>2 DEF IsWellFormed
    <3> QED
      BY <2>2, <3>1 DEF IsWellFormed, Files, RecentEntries
  <2> QED
    BY <2>1, <2>2
<1>2. file.rev \in Nat
  BY NoFileIsNone DEF MaybeFile
<1>3. added \in SUBSET RecentEntries
  BY <1>1 DEF RecentEntries
<1>4. IsFiniteSet(added)
  <2> DEFINE entry == [op \in chunk |-> [op |-> op, sv |-> version]]
  <2>1. entry \in Surjection(chunk, added)
    BY DEF Surjection
  <2>2. IsFiniteSet(chunk)
    BY DEF IsNumbered
  <2> HIDE DEF entry, added
  <2> QED
    BY <2>1, <2>2, FS_Surjection
<1>5. \A e \in added : e.sv = version /\ e.op \in chunk /\ e = [op |-> e.op, sv |-> version]
  OBVIOUS
<1>6. \A e, x \in all : e.sv = x.sv /\ e.op.n = x.op.n => e = x
  <2>1. \A e, x \in added : e.op.n = x.op.n => e = x
    BY <1>5 DEF IsNumbered
  <2>2. \A e \in before, x \in added : e.sv # x.sv
    <3> HIDE DEF before, added, version
    <3>1. \A e \in before : e.sv \in Nat
      BY <1>1 DEF RecentEntries
    <3> QED
      BY <1>1, <1>5, <3>1
  <2> HIDE DEF before, added, version
  <2> QED
    BY <1>1, <2>1, <2>2
<1>7. all \in SUBSET RecentEntries /\ IsFiniteSet(all) /\ \A e \in all : e.sv <= version
  <2> HIDE DEF before, added, version
  <2>1. IsFiniteSet(all)
    BY <1>1, <1>4, FS_Union
  <2>2. \A e \in before : e.sv \in Nat
    BY <1>1 DEF RecentEntries
  <2> QED
    BY <1>1, <1>3, <1>5, <2>1, <2>2
<1>8. MergedClock(clock, chunk) \in Clock
  BY <1>1, MergedClockType DEF IsNumbered
<1>9. /\ Trim(all) \subseteq all
      /\ IsFiniteSet(Trim(all)) /\ Cardinality(Trim(all)) <= MaxRecent
  <2> HIDE DEF all
  <2>1. Trim(all) \subseteq all
    BY DEF Trim
  <2> QED
    BY <1>6, <1>7, <2>1, TrimFits
<1>10. new = [rev |-> file.rev + 1, version |-> version, clock |-> MergedClock(clock, chunk),
              by |-> d, state |-> StateSnapshot(d), recent |-> Trim(all)]
  BY DEF Merged
<1> HIDE DEF new, all, version, clock, before, added
<1>11. new \in Files
  BY <1>1, <1>2, <1>7, <1>8, <1>9, <1>10 DEF Files
<1> QED
  BY <1>6, <1>7, <1>9, <1>10, <1>11 DEF IsWellFormed, new

-----------------------------------------------------------------------------
(* Steps of one device *)

\* A copy of the file of before stays a copy when the provider counts the revision on.
LEMMA CopiesGrowOld ==
  ASSUME file # NoFile => IsWellFormed(file), IsWellFormed(file'), file'.rev = file.rev + 1,
         NEW held, IsCopy(held)
  PROVE  IsCopy(held)'
<1>1. CASE held = NoFile
  BY <1>1 DEF IsCopy
<1>2. CASE held # NoFile
  <2>1. /\ IsWellFormed(held) /\ file # NoFile /\ held.rev <= file.rev
        /\ held \in Files /\ file \in Files
    BY <1>2 DEF IsCopy, IsWellFormed
  <2>2. held.rev \in Nat /\ file.rev \in Nat
    BY <2>1 DEF Files
  <2>3. file' # NoFile
    BY NoFileIsNone DEF IsWellFormed
  <2> QED
    BY <2>1, <2>2, <2>3 DEF IsCopy
<1> QED
  BY <1>1, <1>2

\* A step of one device that leaves the file alone.
LEMMA DeviceStep ==
  ASSUME FileInv, NEW d \in Clients, NEW new, file' = file, dev' = [dev EXCEPT ![d] = new],
         DeviceInv(d, new)
  PROVE  FileInv'
<1>1. DOMAIN dev' = Clients /\ dev'[d] = new /\ \A e \in Clients \ {d} : dev'[e] = dev[e]
  BY DEF FileInv
<1>2. \A e \in Clients : DeviceInv(e, dev'[e])
  BY <1>1 DEF FileInv
<1>3. \A e \in Clients : DeviceInv(e, dev[e])'
  BY <1>2 DEF DeviceInv, IsCopy
<1> QED
  BY <1>1, <1>3 DEF FileInv

\* A step of one device that writes the file.
LEMMA WriterDeviceStep ==
  ASSUME FileInv, NEW d \in Clients, NEW new,
         IsWellFormed(file'), file'.rev = file.rev + 1,
         dev' = [dev EXCEPT ![d] = new],
         new \in Devices(d),
         IsNumbered(new.pending), \A op \in new.pending : op.n <= new.edits,
         IsNumbered(new.todo), IsNumbered(new.got.ops),
         new.got.file = file', IsCopy(new.cache)
  PROVE  FileInv'
<1>1. DOMAIN dev' = Clients /\ dev'[d] = new /\ \A e \in Clients \ {d} : dev'[e] = dev[e]
  BY DEF FileInv
<1>2. file' # NoFile /\ file' \in Files
  BY NoFileIsNone DEF IsWellFormed
<1>3. IsCopy(new.cache)'
  BY CopiesGrowOld DEF FileInv
<1>4. IsCopy(new.got.file)'
  BY <1>2 DEF IsCopy, Files
<1>5. DeviceInv(d, dev[d])'
  BY <1>1, <1>2, <1>3, <1>4 DEF DeviceInv
<1>6. ASSUME NEW e \in Clients \ {d}
      PROVE  DeviceInv(e, dev[e])'
  <2>1. DeviceInv(e, dev[e])
    BY DEF FileInv
  <2>2. IsCopy(dev[e].cache) /\ IsCopy(dev[e].got.file)
    BY <2>1 DEF DeviceInv
  <2>3. dev'[e].cache = dev[e].cache /\ dev'[e].got.file = dev[e].got.file
    BY <1>1
  <2>4. IsCopy(dev[e].cache)' /\ IsCopy(dev[e].got.file)'
    <3>1. ASSUME NEW held, IsCopy(held), held # NoFile
          PROVE  /\ IsWellFormed(held) /\ file' # NoFile /\ held.rev <= file'.rev
                 /\ held.rev = file'.rev => held = file'
      <4>1. IsCopy(held)'
        BY <3>1, CopiesGrowOld DEF FileInv
      <4> QED
        BY <3>1, <4>1 DEF IsCopy
    <3>2. \A held \in {dev[e].cache, dev[e].got.file} : held # NoFile =>
                 /\ IsWellFormed(held) /\ file' # NoFile /\ held.rev <= file'.rev
                 /\ held.rev = file'.rev => held = file'
      BY <2>2, <3>1
    <3> QED
      BY <2>3, <3>2 DEF IsCopy
  <2> QED
    BY <1>1, <1>2, <2>1, <2>4 DEF DeviceInv
<1> QED
  BY <1>1, <1>2, <1>5, <1>6 DEF FileInv

-----------------------------------------------------------------------------
(* The invariant *)

\* Nothing held, no import and no operations are values of their types.
LEMMA NothingHasType ==
  ASSUME NEW d \in Clients
  PROVE  /\ Nothing \in Holdings(d) /\ Nothing.file = NoFile /\ IsNumbered(Nothing.ops)
         /\ NoImport \in Imports /\ ZeroClock \in Clock /\ IsNumbered({})
         /\ FreshDevice \in Devices(d)
<1>1. ZeroClock \in Clock /\ IsNumbered({})
  BY FS_EmptySet DEF ZeroClock, Clock, IsNumbered
<1>2. Nothing \in Holdings(d) /\ Nothing.file = NoFile /\ IsNumbered(Nothing.ops)
  BY <1>1 DEF Nothing, Holdings, MaybeFile
<1>3. NoImport \in Imports
  BY <1>1 DEF NoImport, Imports
<1> QED
  BY <1>1, <1>2, <1>3 DEF FreshDevice, Devices, MaybeFile, Phases

LEMMA InitHolds == Init => FileInv
<1> SUFFICES ASSUME Init PROVE FileInv
  OBVIOUS
<1>1. file # NoFile => IsWellFormed(file)
  <2> SUFFICES ASSUME file # NoFile PROVE IsWellFormed(file)
    OBVIOUS
  <2>1. file = StartFile /\ Joined # {}
    BY DEF Init
  <2>2. StartFile.by \in Clients
    BY <2>1, JoinedAssumption DEF StartFile
  <2>3. StartFile.clock \in Clock
    BY DEF StartFile, Clock
  <2>4. StartFile \in Files
    BY <2>2, <2>3, Sizes DEF StartFile, Files
  <2>5. StartFile.recent = {}
    BY DEF StartFile
  <2> QED
    BY <2>1, <2>4, <2>5, FS_EmptySet, Sizes DEF IsWellFormed
<1>2. ASSUME NEW d \in Clients
      PROVE  DeviceInv(d, dev[d])
  <2>1. dev[d] \in {FreshDevice, JoinedDevice(d)}
    BY DEF Init
  <2>2. FreshDevice \in Devices(d)
    BY NothingHasType
  <2>3. [c \in Clients |-> IF c = d THEN 2 ELSE IF c \in Joined THEN 1 ELSE 0] \in Clock
    BY DEF Clock
  <2>4. JoinedDevice(d) \in Devices(d)
    BY <2>2, <2>3, Sizes DEF JoinedDevice, Devices
  <2>5. /\ dev[d].pending = {} /\ dev[d].todo = {} /\ dev[d].got = Nothing
        /\ dev[d].cache = NoFile /\ dev[d].phase = "idle"
    <3>1. ASSUME NEW device \in {FreshDevice, JoinedDevice(d)}
          PROVE  /\ device.pending = {} /\ device.todo = {} /\ device.got = Nothing
                 /\ device.cache = NoFile /\ device.phase = "idle"
      <4>1. CASE device = FreshDevice
        BY <4>1 DEF FreshDevice
      <4>2. CASE device = JoinedDevice(d)
        BY <4>2 DEF FreshDevice, JoinedDevice
      <4> QED
        BY <3>1, <4>1, <4>2
    <3> QED
      BY <2>1, <3>1
  <2> QED
    BY <2>1, <2>2, <2>4, <2>5, NothingHasType
    DEF DeviceInv, IsCopy, Holds, HasRead
<1> QED
  BY <1>1, <1>2 DEF FileInv, Init

\* Reading the file and holding it keep what is required of a device.
LEMMA ReadStep ==
  ASSUME FileInv, file # NoFile, NEW d \in Clients, NEW device, DeviceInv(d, device),
         NEW whole \in BOOLEAN, NEW chosen \in BOOLEAN
  PROVE  /\ DeviceInv(d, AfterRead(device)) /\ AfterRead(device).got = device.got
         /\ AfterRead(device).phase = device.phase
         /\ DeviceInv(d, Holding(device, whole, chosen))
<1>1. IsWellFormed(file) /\ file \in Files /\ IsCopy(file)
  BY DEF FileInv, IsWellFormed, IsCopy, Files
<1>2. device \in Devices(d)
  BY DEF DeviceInv
<1>3. AfterRead(device) \in Devices(d)
  BY <1>1, <1>2 DEF AfterRead, Devices, Files, MaybeFile
<1>4. /\ AfterRead(device).cache = file /\ AfterRead(device).pending = device.pending
      /\ AfterRead(device).todo = device.todo /\ AfterRead(device).got = device.got
      /\ AfterRead(device).phase = device.phase /\ AfterRead(device).edits = device.edits
  BY <1>2 DEF AfterRead, Devices
<1>5. DeviceInv(d, AfterRead(device))
  BY <1>1, <1>3, <1>4 DEF DeviceInv
<1> DEFINE got == [Nothing EXCEPT !.file = file, !.whole = whole, !.chosen = chosen]
<1>6. got \in Holdings(d) /\ got.file = file /\ got.ops = Nothing.ops
  BY <1>1, NothingHasType DEF Nothing, Holdings, MaybeFile
<1> DEFINE new == [AfterRead(device) EXCEPT !.phase = "got", !.got = got]
<1>7. Holding(device, whole, chosen) = new
  BY DEF Holding
<1> HIDE DEF got
<1>8. new \in Devices(d)
  BY <1>3, <1>6 DEF Devices, Phases
<1>9. /\ new.cache = file /\ new.pending = device.pending /\ new.edits = device.edits
      /\ new.todo = device.todo /\ new.got = got /\ new.phase = "got"
  BY <1>3, <1>4 DEF Devices
<1> HIDE DEF new
<1>10. DeviceInv(d, new)
  BY <1>1, <1>6, <1>8, <1>9, NothingHasType DEF DeviceInv
<1> QED
  BY <1>4, <1>5, <1>7, <1>10

\* A synchronisation may end anywhere: what it holds is dropped.
LEMMA DropStep ==
  ASSUME NEW d \in Clients, NEW device, DeviceInv(d, device)
  PROVE  DeviceInv(d, [device EXCEPT !.phase = "idle", !.got = Nothing, !.todo = {}])
<1> DEFINE new == [device EXCEPT !.phase = "idle", !.got = Nothing, !.todo = {}]
<1>1. device \in Devices(d)
  BY DEF DeviceInv
<1>2. new \in Devices(d)
  BY <1>1, NothingHasType DEF Devices, Phases
<1>3. /\ new.phase = "idle" /\ new.got = Nothing /\ new.todo = {}
      /\ new.pending = device.pending /\ new.edits = device.edits /\ new.cache = device.cache
  BY <1>1 DEF Devices
<1> HIDE DEF new
<1>4. DeviceInv(d, new)
  BY <1>2, <1>3, NothingHasType DEF DeviceInv, IsCopy, Holds, HasRead
<1> QED
  BY <1>4 DEF new

-----------------------------------------------------------------------------
(* The actions *)

LEMMA EditStep ==
  ASSUME FileInv, NEW d \in Clients, Edit(d)
  PROVE  FileInv'
<1> DEFINE clock == IncrementClock(dev[d].clock, d)
           op == [by |-> d, n |-> dev[d].edits + 1, clk |-> clock]
           new == [dev[d] EXCEPT !.edits = @ + 1, !.clock = clock, !.ops = @ \union {op},
                                 !.pending = @ \union {op}]
<1>1. dev' = [dev EXCEPT ![d] = new] /\ file' = file
  BY DEF Edit, FileInv
<1>2. DeviceInv(d, dev[d]) /\ dev[d] \in Devices(d)
  BY DEF FileInv, DeviceInv
<1>3. clock \in Clock
  BY <1>2, IncrementType DEF Devices
<1> HIDE DEF clock
<1>4. op \in Ops /\ op \in OwnOps(d) /\ op.n = dev[d].edits + 1 /\ dev[d].edits \in Nat
  BY <1>2, <1>3 DEF Devices, Ops, OwnOps
<1> HIDE DEF op
<1>5. new \in Devices(d)
  <2>1. /\ dev[d].ops \union {op} \in SUBSET Ops
        /\ dev[d].pending \union {op} \in SUBSET OwnOps(d)
        /\ dev[d].edits + 1 \in Nat
    BY <1>2, <1>4 DEF Devices
  <2> QED
    BY <1>2, <1>3, <2>1 DEF Devices
<1>6. /\ new.pending = dev[d].pending \union {op} /\ new.edits = dev[d].edits + 1
      /\ new.phase = dev[d].phase /\ new.got = dev[d].got /\ new.todo = dev[d].todo
      /\ new.cache = dev[d].cache
  BY <1>2 DEF Devices
<1> HIDE DEF new
<1>7. IsNumbered(new.pending) /\ \A o \in new.pending : o.n <= new.edits
  <2>1. \A o \in dev[d].pending : o.n \in Nat /\ o.n <= dev[d].edits
    BY <1>2 DEF DeviceInv, Devices, OwnOps, Ops
  <2>2. IsFiniteSet(new.pending)
    BY <1>2, <1>6, FS_AddElement DEF DeviceInv, IsNumbered
  <2>3. \A o, p \in new.pending : o.n = p.n => o = p
    BY <1>2, <1>4, <1>6, <2>1 DEF DeviceInv, IsNumbered
  <2> QED
    BY <1>4, <1>6, <2>1, <2>2, <2>3 DEF IsNumbered
<1>8. DeviceInv(d, new)
  BY <1>2, <1>5, <1>6, <1>7 DEF DeviceInv
<1> QED
  BY <1>1, <1>8, DeviceStep

LEMMA DownloadSteps ==
  ASSUME FileInv, NEW d \in Clients, FindNoFile(d) \/ Download(d) \/ DownloadWhole(d)
  PROVE  FileInv'
<1>1. DeviceInv(d, dev[d]) /\ dev[d] \in Devices(d)
  BY DEF FileInv, DeviceInv
<1>2. CASE FindNoFile(d)
  <2> DEFINE new == [dev[d] EXCEPT !.phase = "ready", !.seq = 0, !.kept = dev[d].expected]
  <2>1. dev' = [dev EXCEPT ![d] = new] /\ file' = file
    BY <1>2 DEF FindNoFile, FileInv
  <2>2. new \in Devices(d)
    BY <1>1 DEF Devices, Phases
  <2>3. /\ new.pending = dev[d].pending /\ new.edits = dev[d].edits /\ new.todo = dev[d].todo
        /\ new.got = dev[d].got /\ new.cache = dev[d].cache /\ new.phase = "ready"
    BY <1>1 DEF Devices
  <2> HIDE DEF new
  <2>4. DeviceInv(d, new)
    BY <1>1, <2>2, <2>3 DEF DeviceInv, Holds, HasRead
  <2> QED
    BY <2>1, <2>4, DeviceStep
<1>3. CASE Download(d)
  <2> DEFINE gap == [AfterRead(dev[d]) EXCEPT !.phase = "gap"]
             holding == Holding(dev[d], dev[d].seq = 0, FALSE)
  <2>1. file # NoFile /\ file' = file
    BY <1>3 DEF Download
  <2>2. PICK new \in {gap, holding} : dev' = [dev EXCEPT ![d] = new]
    BY <1>3 DEF Download, FileInv
  <2>3. DeviceInv(d, AfterRead(dev[d])) /\ DeviceInv(d, holding)
    BY <1>1, <2>1, ReadStep
  <2>4. DeviceInv(d, gap)
    <3> DEFINE read == AfterRead(dev[d])
    <3> HIDE DEF read
    <3>1. DeviceInv(d, read) /\ read \in Devices(d)
      BY <2>3 DEF read, DeviceInv
    <3>2. [read EXCEPT !.phase = "gap"] \in Devices(d)
      BY <3>1 DEF Devices, Phases
    <3>3. DeviceInv(d, [read EXCEPT !.phase = "gap"])
      <4> DEFINE new2 == [read EXCEPT !.phase = "gap"]
      <4>1. /\ new2.pending = read.pending /\ new2.edits = read.edits /\ new2.todo = read.todo
            /\ new2.got = read.got /\ new2.cache = read.cache /\ new2.phase = "gap"
        BY <3>1 DEF Devices
      <4> HIDE DEF new2
      <4>2. new2 \in Devices(d)
        BY <3>2 DEF new2
      <4>3. DeviceInv(d, new2)
        BY <2>1, <3>1, <4>1, <4>2 DEF DeviceInv, Holds
      <4> QED
        BY <4>3 DEF new2
    <3> QED
      BY <3>3 DEF read
  <2> HIDE DEF gap, holding
  <2> QED
    BY <2>1, <2>2, <2>3, <2>4, DeviceStep
<1>4. CASE DownloadWhole(d)
  <2> DEFINE new == Holding(dev[d], TRUE, dev[d].phase = "chosen")
  <2>1. dev' = [dev EXCEPT ![d] = new] /\ file' = file
    BY <1>4 DEF DownloadWhole, FileInv
  <2>2. file # NoFile
    BY <1>1, <1>4 DEF DownloadWhole, DeviceInv, HasRead
  <2>3. DeviceInv(d, new)
    BY <1>1, <2>2, ReadStep
  <2> HIDE DEF new
  <2> QED
    BY <2>1, <2>3, DeviceStep
<1> QED
  BY <1>2, <1>3, <1>4

\* Steps that only move on to another phase.
LEMMA PhaseSteps ==
  ASSUME FileInv, NEW d \in Clients, SkipSnapshot(d) \/ AskUser(d) \/ AcceptSnapshot(d)
  PROVE  FileInv'
<1>1. DeviceInv(d, dev[d]) /\ dev[d] \in Devices(d)
  BY DEF FileInv, DeviceInv
<1>2. PICK phase \in {"applied", "asked", "accepted"} :
        /\ dev[d].phase = "got" /\ file' = file
        /\ dev' = [dev EXCEPT ![d].phase = phase]
  BY DEF SkipSnapshot, AskUser, AcceptSnapshot
<1> DEFINE new == [dev[d] EXCEPT !.phase = phase]
<1>3. dev' = [dev EXCEPT ![d] = new]
  BY <1>2 DEF FileInv
<1>4. new \in Devices(d)
  BY <1>1 DEF Devices, Phases
<1>5. /\ new.pending = dev[d].pending /\ new.edits = dev[d].edits /\ new.todo = dev[d].todo
      /\ new.got = dev[d].got /\ new.cache = dev[d].cache
  BY <1>1 DEF Devices
<1> HIDE DEF new
<1>6. DeviceInv(d, new)
  BY <1>1, <1>2, <1>4, <1>5 DEF DeviceInv, Holds, HasRead
<1> QED
  BY <1>2, <1>3, <1>6, DeviceStep

\* What a download returns are finitely many operations.
LEMMA NewOpsType ==
  ASSUME FileInv, NEW d \in Clients, dev[d].phase \in Holds
  PROVE  /\ NewOps(d) \in SUBSET Ops /\ IsFiniteSet(NewOps(d))
         /\ dev[d].got.file \in Files
<1>1. IsWellFormed(dev[d].got.file)
  BY DEF FileInv, DeviceInv, IsCopy
<1> DEFINE entries == dev[d].got.file.recent
           opOf == [e \in entries |-> e.op]
<1>2. dev[d].got.file \in Files /\ IsFiniteSet(entries)
  BY <1>1 DEF IsWellFormed
<1>3. opOf \in Surjection(entries, OpsIn(entries))
  BY DEF Surjection, OpsIn
<1>4. IsFiniteSet(OpsIn(entries))
  <2> HIDE DEF opOf, entries
  <2> QED
    BY <1>2, <1>3, FS_Surjection
<1>5. entries \in SUBSET RecentEntries
  BY <1>2 DEF Files
<1>6. OpsIn(entries) \in SUBSET Ops
  BY <1>5 DEF OpsIn, RecentEntries
<1>7. NewOps(d) \subseteq OpsIn(entries)
  BY DEF NewOps
<1> HIDE DEF entries
<1> QED
  BY <1>2, <1>4, <1>6, <1>7, FS_Subset

LEMMA ApplyOpsStep ==
  ASSUME FileInv, NEW d \in Clients, ApplyOps(d)
  PROVE  FileInv'
<1>1. DeviceInv(d, dev[d]) /\ dev[d] \in Devices(d)
  BY DEF FileInv, DeviceInv
<1> DEFINE fresh == NewOps(d)
           new == [dev[d] EXCEPT !.phase = "applied", !.ops = @ \union fresh,
                                 !.known = @ \union fresh, !.clock = MergedClock(@, fresh)]
<1>2. dev' = [dev EXCEPT ![d] = new] /\ file' = file
  BY DEF ApplyOps, FileInv
<1>3. dev[d].phase = "got"
  BY DEF ApplyOps
<1>4. fresh \in SUBSET Ops /\ IsFiniteSet(fresh)
  BY <1>3, NewOpsType DEF Holds
<1> HIDE DEF fresh
<1>5. /\ MergedClock(dev[d].clock, fresh) \in Clock
      /\ dev[d].ops \union fresh \in SUBSET Ops /\ dev[d].known \union fresh \in SUBSET Ops
  BY <1>1, <1>4, MergedClockType DEF Devices
<1>6. new \in Devices(d)
  BY <1>1, <1>5 DEF Devices, Phases
<1>7. /\ new.pending = dev[d].pending /\ new.edits = dev[d].edits /\ new.todo = dev[d].todo
      /\ new.got = dev[d].got /\ new.cache = dev[d].cache /\ new.phase = "applied"
  BY <1>1 DEF Devices
<1> HIDE DEF new
<1>8. DeviceInv(d, new)
  BY <1>1, <1>3, <1>6, <1>7 DEF DeviceInv, Holds, HasRead
<1> QED
  BY <1>2, <1>8, DeviceStep

LEMMA HydrationSteps ==
  ASSUME FileInv, NEW d \in Clients, RejectPending(d) \/ Hydrate(d)
  PROVE  FileInv'
<1>1. DeviceInv(d, dev[d]) /\ dev[d] \in Devices(d)
  BY DEF FileInv, DeviceInv
<1>2. /\ dev[d].phase \in {"accepted", "hydrating"} /\ file' = file
      /\ dev[d].got.file # NoFile /\ file # NoFile
  BY <1>1 DEF RejectPending, Hydrate, DeviceInv, Holds, HasRead
<1>3. /\ NewOps(d) \in SUBSET Ops
      /\ dev[d].got.file.clock \in Clock /\ dev[d].got.file.state \in SUBSET Ops
  BY <1>2, NewOpsType DEF Holds, Files
<1>4. CASE RejectPending(d)
  <2> DEFINE clock == IncrementClock(MergeClocks(
                        IF dev[d].got.chosen THEN ZeroClock ELSE dev[d].clock,
                        dev[d].got.file.clock), d)
             got == [dev[d].got EXCEPT !.clock = clock]
             new == [dev[d] EXCEPT !.phase = "hydrating", !.pending = {}, !.import = NoImport,
                                   !.got = got]
  <2>1. dev' = [dev EXCEPT ![d] = new]
    BY <1>4 DEF RejectPending, FileInv
  <2>2. clock \in Clock
    <3>1. dev[d].clock \in Clock /\ ZeroClock \in Clock
      BY <1>1, NothingHasType DEF Devices
    <3> QED
      BY <1>3, <3>1, MergeType, IncrementType
  <2> HIDE DEF clock
  <2>3. /\ got \in Holdings(d) /\ got.file = dev[d].got.file /\ got.ops = dev[d].got.ops
    BY <1>1, <2>2 DEF Devices, Holdings
  <2> HIDE DEF got
  <2>4. new \in Devices(d)
    BY <1>1, <2>3, NothingHasType DEF Devices, Phases
  <2>5. /\ new.pending = {} /\ new.todo = dev[d].todo /\ new.edits = dev[d].edits
        /\ new.got = got /\ new.cache = dev[d].cache /\ new.phase = "hydrating"
    BY <1>1 DEF Devices
  <2> HIDE DEF new
  <2>6. DeviceInv(d, new)
    BY <1>1, <1>2, <2>3, <2>4, <2>5, NothingHasType DEF DeviceInv
  <2> QED
    BY <1>2, <2>1, <2>6, DeviceStep
<1>5. CASE Hydrate(d)
  <2> DEFINE new == [dev[d] EXCEPT !.phase = "applied", !.ops = dev[d].got.file.state,
                                   !.known = @ \union NewOps(d), !.clock = dev[d].got.clock]
  <2>1. dev' = [dev EXCEPT ![d] = new]
    BY <1>5 DEF Hydrate, FileInv
  <2>2. dev[d].got.clock \in Clock /\ dev[d].known \union NewOps(d) \in SUBSET Ops
    BY <1>1, <1>3 DEF Devices, Holdings
  <2>3. new \in Devices(d)
    BY <1>1, <1>3, <2>2 DEF Devices, Phases
  <2>4. /\ new.pending = dev[d].pending /\ new.todo = dev[d].todo /\ new.edits = dev[d].edits
        /\ new.got = dev[d].got /\ new.cache = dev[d].cache /\ new.phase = "applied"
    BY <1>1 DEF Devices
  <2> HIDE DEF new
  <2>5. DeviceInv(d, new)
    BY <1>1, <1>2, <2>3, <2>4 DEF DeviceInv
  <2> QED
    BY <1>2, <2>1, <2>5, DeviceStep
<1> QED
  BY <1>4, <1>5

\* The cursor follows the version of the file that was taken over.
LEMMA AdvanceCursorStep ==
  ASSUME FileInv, NEW d \in Clients, AdvanceCursor(d)
  PROVE  FileInv'
<1>1. DeviceInv(d, dev[d]) /\ dev[d] \in Devices(d)
  BY DEF FileInv, DeviceInv
<1>2. dev[d].phase = "applied" /\ file' = file
  BY DEF AdvanceCursor
<1>3. dev[d].got.file.version \in Nat /\ dev[d].got.file.rev \in Nat
  BY <1>2, NewOpsType DEF Holds, Files
<1> DEFINE phase == IF dev[d].got.chosen THEN "idle" ELSE "ready"
           new == [dev[d] EXCEPT !.seq = dev[d].got.file.version, !.kept = dev[d].expected,
                                 !.seen = dev[d].got.file.rev, !.got = Nothing, !.phase = phase]
<1>4. dev' = [dev EXCEPT ![d] = new]
  BY DEF AdvanceCursor, FileInv
<1>5. phase \in Phases \ HasRead
  BY DEF Phases, HasRead, Holds
<1> HIDE DEF phase
<1>6. new \in Devices(d)
  BY <1>1, <1>3, <1>5, NothingHasType DEF Devices
<1>7. /\ new.pending = dev[d].pending /\ new.todo = dev[d].todo /\ new.edits = dev[d].edits
      /\ new.got = Nothing /\ new.cache = dev[d].cache /\ new.phase = phase
  BY <1>1 DEF Devices
<1> HIDE DEF new
<1>8. DeviceInv(d, new)
  BY <1>1, <1>5, <1>6, <1>7, NothingHasType DEF DeviceInv, IsCopy, HasRead
<1> QED
  BY <1>2, <1>4, <1>8, DeviceStep

\* The answers of a user who is asked.
LEMMA ChoiceSteps ==
  ASSUME FileInv, NEW d \in Clients, ChooseLocal(d) \/ ChooseRemote(d)
  PROVE  FileInv'
<1>1. DeviceInv(d, dev[d]) /\ dev[d] \in Devices(d)
  BY DEF FileInv, DeviceInv
<1>2. dev[d].phase = "asked" /\ file' = file /\ file # NoFile
  BY <1>1 DEF ChooseLocal, ChooseRemote, DeviceInv, Holds, HasRead
<1>3. CASE ChooseLocal(d)
  <2> DEFINE clock == IncrementClock(dev[d].clock, d)
             import == [upto |-> dev[d].edits, clock |-> clock]
             new == [dev[d] EXCEPT !.phase = "ready", !.got = Nothing, !.clock = clock,
                                   !.import = import]
  <2>1. dev' = [dev EXCEPT ![d] = new]
    BY <1>3 DEF ChooseLocal, FileInv
  <2>2. clock \in Clock /\ import \in Imports
    BY <1>1, IncrementType DEF Devices, Imports
  <2> HIDE DEF clock, import
  <2>3. new \in Devices(d)
    BY <1>1, <2>2, NothingHasType DEF Devices, Phases
  <2>4. /\ new.pending = dev[d].pending /\ new.todo = dev[d].todo /\ new.edits = dev[d].edits
        /\ new.got = Nothing /\ new.cache = dev[d].cache /\ new.phase = "ready"
    BY <1>1 DEF Devices
  <2> HIDE DEF new
  <2>5. DeviceInv(d, new)
    BY <1>1, <2>3, <2>4, NothingHasType DEF DeviceInv, IsCopy, HasRead, Holds
  <2> QED
    BY <1>2, <2>1, <2>5, DeviceStep
<1>4. CASE ChooseRemote(d)
  <2> DEFINE new == [dev[d] EXCEPT !.phase = "chosen", !.got = Nothing, !.pending = {},
                       !.import = NoImport, !.seq = 0, !.kept = dev[d].expected]
  <2>1. dev' = [dev EXCEPT ![d] = new]
    BY <1>4 DEF ChooseRemote, FileInv
  <2>2. new \in Devices(d)
    BY <1>1, NothingHasType DEF Devices, Phases
  <2>3. /\ new.pending = {} /\ new.todo = dev[d].todo /\ new.edits = dev[d].edits
        /\ new.got = Nothing /\ new.cache = dev[d].cache /\ new.phase = "chosen"
    BY <1>1 DEF Devices
  <2> HIDE DEF new
  <2>4. DeviceInv(d, new)
    BY <1>1, <1>2, <2>2, <2>3, NothingHasType DEF DeviceInv, IsCopy, Holds
  <2> QED
    BY <1>2, <2>1, <2>4, DeviceStep
<1> QED
  BY <1>3, <1>4

\* A part of numbered operations is numbered.
LEMMA PartIsNumbered ==
  ASSUME NEW ops, IsNumbered(ops), NEW part \in SUBSET ops
  PROVE  IsNumbered(part)
  BY FS_Subset DEF IsNumbered

LEMMA StartUploadStep ==
  ASSUME FileInv, NEW d \in Clients, StartUpload(d)
  PROVE  FileInv'
<1>1. DeviceInv(d, dev[d]) /\ dev[d] \in Devices(d)
  BY DEF FileInv, DeviceInv
<1> DEFINE read == Probed(dev[d])
           phase == IF HasUnsynced(d) THEN "uploading" ELSE "idle"
           new == [read EXCEPT !.phase = phase, !.todo = dev[d].pending]
<1>2. dev' = [dev EXCEPT ![d] = new] /\ file' = file
  BY DEF StartUpload, FileInv
<1>3. DeviceInv(d, read) /\ read.got = dev[d].got
  <2>1. CASE read = dev[d]
    BY <1>1, <2>1
  <2>2. CASE file # NoFile /\ read = AfterRead(dev[d])
    BY <1>1, <2>2, ReadStep
  <2> QED
    BY <2>1, <2>2 DEF Probed
<1>4. read \in Devices(d)
  BY <1>3 DEF DeviceInv
<1>5. phase \in Phases \ HasRead
  BY DEF Phases, HasRead, Holds
<1> HIDE DEF read, phase
<1>6. new \in Devices(d)
  BY <1>1, <1>4, <1>5 DEF Devices
<1>7. /\ new.pending = read.pending /\ new.todo = dev[d].pending /\ new.edits = read.edits
      /\ new.got = read.got /\ new.cache = read.cache /\ new.phase = phase
  BY <1>4 DEF Devices
<1> HIDE DEF new
<1>8. DeviceInv(d, new)
  BY <1>1, <1>3, <1>5, <1>6, <1>7 DEF DeviceInv, HasRead
<1> QED
  BY <1>2, <1>8, DeviceStep

\* A replacement is a file as it should be: versions and buffer start anew, revisions do not.
LEMMA ForceUploadStep ==
  ASSUME FileInv, NEW d \in Clients, ForceUpload(d)
  PROVE  FileInv'
<1>1. DeviceInv(d, dev[d]) /\ dev[d] \in Devices(d)
  BY DEF FileInv, DeviceInv
<1> DEFINE covered == {op \in dev[d].pending : op.n <= dev[d].import.upto}
           got == [Nothing EXCEPT !.file = file', !.ops = covered]
           new == [dev[d] EXCEPT !.phase = "wrote", !.seq = 1, !.expected = 1, !.kept = 1,
                                 !.got = got]
<1>2. /\ file' = [rev |-> file.rev + 1, version |-> 1, clock |-> dev[d].import.clock, by |-> d,
                  state |-> StateSnapshot(d), recent |-> {}]
      /\ dev' = [dev EXCEPT ![d] = new]
  BY DEF ForceUpload, FileInv
<1>3. file.rev \in Nat
  BY NoFileIsNone DEF FileInv, IsWellFormed
<1>4. StateSnapshot(d) \in SUBSET Ops /\ dev[d].import.clock \in Clock
  BY <1>1 DEF StateSnapshot, Devices, Imports
<1>5. file' \in Files /\ file'.recent = {} /\ file'.rev = file.rev + 1
  BY <1>2, <1>3, <1>4 DEF Files
<1>6. IsWellFormed(file')
  BY <1>5, FS_EmptySet, Sizes DEF IsWellFormed
<1>7. /\ covered \in SUBSET OwnOps(d) /\ IsNumbered(covered)
  BY <1>1, PartIsNumbered DEF DeviceInv, Devices
<1> HIDE DEF covered
<1>8. got \in Holdings(d) /\ got.file = file' /\ got.ops = covered
  BY <1>5, <1>7, NothingHasType DEF Nothing, Holdings, MaybeFile
<1> HIDE DEF got
<1>9. new \in Devices(d)
  BY <1>1, <1>8 DEF Devices, Phases
<1>10. /\ new.pending = dev[d].pending /\ new.todo = dev[d].todo /\ new.edits = dev[d].edits
       /\ new.got = got /\ new.cache = dev[d].cache
  BY <1>1 DEF Devices
<1> HIDE DEF new
<1> QED
  BY <1>1, <1>2, <1>5, <1>6, <1>7, <1>8, <1>9, <1>10, WriterDeviceStep DEF DeviceInv

LEMMA PrepareChunkStep ==
  ASSUME FileInv, NEW d \in Clients, PrepareChunk(d)
  PROVE  FileInv'
<1>1. DeviceInv(d, dev[d]) /\ dev[d] \in Devices(d)
  BY DEF FileInv, DeviceInv
<1> DEFINE got == [Nothing EXCEPT !.file = Base(d), !.ops = NextChunk(d)]
           new == [dev[d] EXCEPT !.phase = "writing", !.got = got]
<1>2. dev' = [dev EXCEPT ![d] = new] /\ file' = file
  BY DEF PrepareChunk, FileInv
<1>3. IsCopy(file) /\ file \in MaybeFile
  BY DEF FileInv, IsCopy, IsWellFormed, MaybeFile, Files
<1>4. IsCopy(Base(d)) /\ Base(d) \in MaybeFile
  BY <1>1, <1>3 DEF Base, DeviceInv, Devices
<1>5. NextChunk(d) \in SUBSET OwnOps(d) /\ IsNumbered(NextChunk(d))
  <2>1. NextChunk(d) \in SUBSET dev[d].todo
    BY DEF NextChunk
  <2> QED
    BY <1>1, <2>1, PartIsNumbered DEF DeviceInv, Devices
<1>6. got \in Holdings(d) /\ got.file = Base(d) /\ got.ops = NextChunk(d)
  BY <1>4, <1>5, NothingHasType DEF Nothing, Holdings
<1> HIDE DEF got
<1>7. new \in Devices(d)
  BY <1>1, <1>6 DEF Devices, Phases
<1>8. /\ new.pending = dev[d].pending /\ new.todo = dev[d].todo /\ new.edits = dev[d].edits
      /\ new.got = got /\ new.cache = dev[d].cache /\ new.phase = "writing"
  BY <1>1 DEF Devices
<1> HIDE DEF new
<1>9. DeviceInv(d, new)
  BY <1>1, <1>4, <1>5, <1>6, <1>7, <1>8 DEF DeviceInv, HasRead, Holds
<1> QED
  BY <1>2, <1>9, DeviceStep

LEMMA WriteChunkStep ==
  ASSUME FileInv, NEW d \in Clients, WriteChunk(d)
  PROVE  FileInv'
<1>1. DeviceInv(d, dev[d]) /\ dev[d] \in Devices(d)
  BY DEF FileInv, DeviceInv
<1> DEFINE got == [dev[d].got EXCEPT !.file = file']
           new == [dev[d] EXCEPT !.phase = "wrote", !.cache = NoFile, !.got = got,
                                 !.expected = file'.version, !.kept = file'.version]
<1>2. /\ file' = Merged(dev[d].got.file, d, dev[d].got.ops)
      /\ dev' = [dev EXCEPT ![d] = new]
  BY DEF WriteChunk, FileInv
<1>3. /\ dev[d].got \in Holdings(d) /\ dev[d].got.file \in MaybeFile
      /\ dev[d].got.ops \in SUBSET Ops /\ IsNumbered(dev[d].got.ops)
      /\ dev[d].got.file # NoFile => IsWellFormed(dev[d].got.file)
  BY <1>1 DEF DeviceInv, Devices, Holdings, OwnOps, IsCopy
<1>4. StateSnapshot(d) \in SUBSET Ops /\ file \in MaybeFile
  BY <1>1 DEF StateSnapshot, Devices, FileInv, IsWellFormed, MaybeFile
<1>5. IsWellFormed(file') /\ file'.rev = file.rev + 1
  BY <1>2, <1>3, <1>4, MergedIsWellFormed
<1>6. file' \in Files /\ file'.version \in Nat
  BY <1>5 DEF IsWellFormed, Files
<1>7. got \in Holdings(d) /\ got.file = file' /\ got.ops = dev[d].got.ops
  BY <1>3, <1>6 DEF Holdings, MaybeFile
<1> HIDE DEF got
<1>8. new \in Devices(d)
  BY <1>1, <1>6, <1>7 DEF Devices, Phases, MaybeFile
<1>9. /\ new.pending = dev[d].pending /\ new.todo = dev[d].todo /\ new.edits = dev[d].edits
      /\ new.got = got /\ new.cache = NoFile
  BY <1>1 DEF Devices
<1>10. IsCopy(NoFile)
  BY DEF IsCopy
<1> HIDE DEF new
<1> QED
  BY <1>1, <1>2, <1>3, <1>5, <1>7, <1>8, <1>9, <1>10, WriterDeviceStep DEF DeviceInv

LEMMA MarkSyncedStep ==
  ASSUME FileInv, NEW d \in Clients, MarkSynced(d)
  PROVE  FileInv'
<1>1. DeviceInv(d, dev[d]) /\ dev[d] \in Devices(d)
  BY DEF FileInv, DeviceInv
<1> DEFINE left == dev[d].todo \ dev[d].got.ops
           top == LastOf({dev[d].seq, dev[d].got.file.version})
           rest == dev[d].pending \ dev[d].got.ops
           phase == IF left = {} THEN "idle" ELSE "uploading"
           new == [dev[d] EXCEPT !.pending = rest, !.import = NoImport, !.todo = left,
                                 !.seq = top, !.kept = dev[d].expected,
                                 !.seen = dev[d].got.file.rev, !.got = Nothing, !.phase = phase]
<1>2. dev' = [dev EXCEPT ![d] = new] /\ file' = file
  BY DEF MarkSynced, FileInv
<1>3. dev[d].got.file.version \in Nat /\ dev[d].got.file.rev \in Nat
  BY NewOpsType DEF MarkSynced, Holds, Files
<1>4. top \in Nat
  <2>1. /\ {dev[d].seq, dev[d].got.file.version} \in SUBSET Nat
        /\ {dev[d].seq, dev[d].got.file.version} # {}
    BY <1>1, <1>3 DEF Devices
  <2>2. IsFiniteSet({dev[d].seq, dev[d].got.file.version})
    <3>1. IsFiniteSet({dev[d].seq}) /\ IsFiniteSet({dev[d].got.file.version})
      BY FS_Singleton
    <3>2. {dev[d].seq, dev[d].got.file.version} = {dev[d].seq} \union {dev[d].got.file.version}
      OBVIOUS
    <3> QED
      BY <3>1, <3>2, FS_Union
  <2> QED
    BY <2>1, <2>2, LastIsOneOf
<1>5. /\ left \in SUBSET dev[d].todo /\ rest \in SUBSET dev[d].pending
      /\ phase \in Phases \ HasRead
  BY DEF Phases, HasRead, Holds
<1> HIDE DEF left, top, rest, phase
<1>6. /\ left \in SUBSET OwnOps(d) /\ IsNumbered(left)
      /\ rest \in SUBSET OwnOps(d) /\ IsNumbered(rest) /\ \A op \in rest : op.n <= dev[d].edits
  BY <1>1, <1>5, PartIsNumbered DEF DeviceInv, Devices
<1>7. new \in Devices(d)
  BY <1>1, <1>3, <1>4, <1>5, <1>6, NothingHasType DEF Devices
<1>8. /\ new.pending = rest /\ new.todo = left /\ new.edits = dev[d].edits
      /\ new.got = Nothing /\ new.cache = dev[d].cache /\ new.phase = phase
  BY <1>1 DEF Devices
<1> HIDE DEF new
<1>9. DeviceInv(d, new)
  BY <1>1, <1>5, <1>6, <1>7, <1>8, NothingHasType DEF DeviceInv, IsCopy, HasRead
<1> QED
  BY <1>2, <1>9, DeviceStep

\* A mismatch, a failure, a stop and the end of the cache only drop what is in memory.
LEMMA DroppingSteps ==
  ASSUME FileInv, NEW d \in Clients,
         MeetMismatch(d) \/ GiveUp(d) \/ Restart(d) \/ ExpireCache(d)
  PROVE  FileInv'
<1>1. DeviceInv(d, dev[d]) /\ dev[d] \in Devices(d)
  BY DEF FileInv, DeviceInv
<1> DEFINE dropped == [dev[d] EXCEPT !.phase = "idle", !.got = Nothing, !.todo = {}]
<1>2. DeviceInv(d, dropped) /\ dropped \in Devices(d)
  BY <1>1, DropStep DEF DeviceInv
<1>3. CASE MeetMismatch(d) \/ GiveUp(d)
  <2>1. dev' = [dev EXCEPT ![d] = dropped] /\ file' = file
    BY <1>3 DEF MeetMismatch, GiveUp, FileInv
  <2> HIDE DEF dropped
  <2> QED
    BY <1>2, <2>1, DeviceStep
<1>4. CASE Restart(d)
  <2> DEFINE new == [dropped EXCEPT !.cache = NoFile, !.expected = dev[d].kept]
  <2>1. dev' = [dev EXCEPT ![d] = new] /\ file' = file
    BY <1>4 DEF Restart, FileInv
  <2> HIDE DEF dropped
  <2>2. new \in Devices(d)
    BY <1>1, <1>2 DEF Devices, MaybeFile
  <2>3. /\ new.pending = dropped.pending /\ new.todo = dropped.todo
        /\ new.edits = dropped.edits /\ new.got = dropped.got /\ new.cache = NoFile
        /\ new.phase = dropped.phase
    BY <1>2 DEF Devices
  <2> HIDE DEF new
  <2>4. DeviceInv(d, new)
    BY <1>2, <2>2, <2>3 DEF DeviceInv, IsCopy
  <2> QED
    BY <2>1, <2>4, DeviceStep
<1>5. CASE ExpireCache(d)
  <2> DEFINE new == [dev[d] EXCEPT !.cache = NoFile]
  <2>1. dev' = [dev EXCEPT ![d] = new] /\ file' = file
    BY <1>5 DEF ExpireCache, FileInv
  <2>2. new \in Devices(d)
    BY <1>1 DEF Devices, MaybeFile
  <2>3. /\ new.pending = dev[d].pending /\ new.todo = dev[d].todo /\ new.edits = dev[d].edits
        /\ new.got = dev[d].got /\ new.cache = NoFile /\ new.phase = dev[d].phase
    BY <1>1 DEF Devices
  <2> HIDE DEF new
  <2>4. DeviceInv(d, new)
    BY <1>1, <2>2, <2>3 DEF DeviceInv, IsCopy
  <2> QED
    BY <2>1, <2>4, DeviceStep
<1> QED
  BY <1>3, <1>4, <1>5

-----------------------------------------------------------------------------
(* The theorems *)

LEMMA StepHolds == FileInv /\ [Next]_vars => FileInv'
<1> SUFFICES ASSUME FileInv, [Next]_vars PROVE FileInv'
  OBVIOUS
<1>1. CASE UNCHANGED vars
  BY <1>1 DEF vars, FileInv, DeviceInv, IsCopy
<1>2. CASE Next
  <2> PICK d \in Clients :
        Edit(d) \/ Synchronise(d) \/ ChooseLocal(d) \/ GiveUp(d) \/ Restart(d) \/ ExpireCache(d)
    BY <1>2 DEF Next
  <2>1. CASE Edit(d)
    BY <2>1, EditStep
  <2>2. CASE FindNoFile(d) \/ Download(d) \/ DownloadWhole(d)
    BY <2>2, DownloadSteps
  <2>3. CASE SkipSnapshot(d) \/ AskUser(d) \/ AcceptSnapshot(d)
    BY <2>3, PhaseSteps
  <2>4. CASE ApplyOps(d)
    BY <2>4, ApplyOpsStep
  <2>5. CASE RejectPending(d) \/ Hydrate(d)
    BY <2>5, HydrationSteps
  <2>6. CASE AdvanceCursor(d)
    BY <2>6, AdvanceCursorStep
  <2>7. CASE ChooseLocal(d) \/ ChooseRemote(d)
    BY <2>7, ChoiceSteps
  <2>8. CASE StartUpload(d)
    BY <2>8, StartUploadStep
  <2>9. CASE ForceUpload(d)
    BY <2>9, ForceUploadStep
  <2>10. CASE PrepareChunk(d)
    BY <2>10, PrepareChunkStep
  <2>11. CASE WriteChunk(d)
    BY <2>11, WriteChunkStep
  <2>12. CASE MarkSynced(d)
    BY <2>12, MarkSyncedStep
  <2>13. CASE MeetMismatch(d) \/ GiveUp(d) \/ Restart(d) \/ ExpireCache(d)
    BY <2>13, DroppingSteps
  <2> QED
    BY <2>1, <2>2, <2>3, <2>4, <2>5, <2>6, <2>7, <2>8, <2>9, <2>10, <2>11, <2>12, <2>13
    DEF Synchronise
<1> QED
  BY <1>1, <1>2

LEMMA FileInvHolds == Spec => []FileInv
  BY InitHolds, StepHolds, PTL DEF Spec

\* What the devices store and hold is well typed in every reachable state, and the buffer of
\* the file never holds more than MaxRecent operations (_buildMergedSyncData).
THEOREM FileTypeCorrect == Spec => []TypeOK
<1>1. FileInv => TypeOK
  <2> SUFFICES ASSUME FileInv PROVE TypeOK
    OBVIOUS
  <2>1. file = NoFile \/ (file \in Files /\ Cardinality(file.recent) <= MaxRecent)
    BY DEF FileInv, IsWellFormed
  <2>2. \A d \in Clients : dev[d] \in Devices(d)
    BY DEF FileInv, DeviceInv
  <2> QED
    BY <2>1, <2>2 DEF TypeOK, Devices, OwnOps, MaybeFile
<1> QED
  BY <1>1, FileInvHolds, PTL

\* Where providers refuse to create a file that exists, every chunk replaces the very file it
\* was merged with (_uploadWithMismatchFallback): replacements that start the versions anew,
\* caches, restarts and retries included.
THEOREM ChunksFollowReads ==
  ASSUME GuardedCreate = TRUE
  PROVE  Spec => WritesFollowReads
<1>1. FileInv /\ [Next]_vars => [\A d \in Clients : WriteChunk(d) => dev[d].got.file = file]_vars
  <2> SUFFICES ASSUME FileInv, NEW d \in Clients, WriteChunk(d)
               PROVE  dev[d].got.file = file
    OBVIOUS
  <2>1. IsCopy(dev[d].got.file)
    BY DEF FileInv, DeviceInv
  <2>2. WriteSucceeds(dev[d].got.file)
    BY DEF WriteChunk
  <2> QED
    BY <2>1, <2>2 DEF IsCopy, WriteSucceeds
<1> QED
  BY <1>1, FileInvHolds, PTL DEF Spec, WritesFollowReads
=============================================================================
