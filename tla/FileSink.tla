------------------------------ MODULE FileSink ------------------------------
(***************************************************************************)
(* The file terminal of a pipeline: runs that end together replace one     *)
(* file of the workspace, each through a temporary file of its own         *)
(* (internal/sandbox, WriteFileAtomic).  The file system keeps what was    *)
(* synced when the machine fails; anything else it may or may not keep.    *)
(***************************************************************************)
EXTENDS Integers, FiniteSets, Sequences, SequencesExt

CONSTANTS Writers,    \* runs that write the file
          Old,        \* the inode of the file before them
          None,       \* no file
          MaxFaults   \* bound: failed calls, outside changes and power failures

SinkConstants == {Old, None} \cap Writers = {} /\ Old # None /\ MaxFaults \in Nat

VARIABLES platform, \* "linux" or "other"
          entry,    \* the inode the name of the file leads to
          stored,   \* the inode it led to when its directory was last written to disk
          data,     \* [has, disk] of each inode: "none", "part" or "whole"
          temps,    \* temporary files that exist
          writer,   \* [pc, seen, parent, answer]
          parent,   \* identity of the directory, counted in replacements
          order,    \* history: inodes in the order they became the file
          faults    \* counter of the bound

sinkVars == <<platform, entry, stored, data, temps, writer, parent, order, faults>>

Inodes == Writers \cup {Old}
NotBegun == [pc |-> "idle", seen |-> None, parent |-> 0, answer |-> "none"]

SinkInit ==
  /\ platform \in {"linux", "other"}
  /\ entry \in {Old, None} /\ stored = entry
  /\ data = [i \in Inodes |-> IF i = Old THEN [has |-> "whole", disk |-> "whole"]
                                         ELSE [has |-> "none", disk |-> "none"]]
  /\ temps = {}
  /\ writer = [w \in Writers |-> NotBegun]
  /\ parent = 0 /\ order = <<entry>> /\ faults = 0

At(w, pc) == writer[w].pc = pc
Goes(w, pc) == writer' = [writer EXCEPT ![w].pc = pc]
\* The deferred function removes the temporary file unless it was renamed.
Fails(w) == /\ writer' = [writer EXCEPT ![w].pc = "ended", ![w].answer = "error"]
            /\ temps' = temps \ {w}

\* relativePath and openSandboxParentAt; the destination is looked at.
Open(w) ==
  /\ At(w, "idle")
  /\ writer' = [writer EXCEPT ![w] = [NotBegun EXCEPT !.pc = "opened", !.seen = entry,
                                                      !.parent = parent]]
  /\ UNCHANGED <<platform, entry, stored, data, temps, parent, order, faults>>

\* verifySandboxParent and verifySandboxDestination: only Linux looks a second time.
Unchanged(w) ==
  platform = "linux" => writer[w].parent = parent /\ writer[w].seen = entry

\* createSandboxTemp: O_EXCL and a random name.
CreateTemp(w) ==
  /\ At(w, "opened")
  /\ IF Unchanged(w) THEN Goes(w, "created") /\ temps' = temps \cup {w} ELSE Fails(w)
  /\ UNCHANGED <<platform, entry, stored, data, parent, order, faults>>

\* Bytes arrive one after the other.
WriteData(w) ==
  /\ At(w, "created")
  /\ \E part \in {"part", "whole"} :
       /\ data[w].has # part
       /\ data' = [data EXCEPT ![w].has = part]
       /\ IF part = "whole" THEN Goes(w, "written") ELSE UNCHANGED writer
  /\ UNCHANGED <<platform, entry, stored, temps, parent, order, faults>>

\* A mutant: the file is renamed before its data is on disk.
NoSync(w) == data

\* tempFile.Sync.
Synced(w) == [data EXCEPT ![w].disk = data[w].has]

SyncData(w) ==
  /\ At(w, "written")
  /\ data' = Synced(w)
  /\ Goes(w, "synced")
  /\ UNCHANGED <<platform, entry, stored, temps, parent, order, faults>>

VerifyAgain(w) ==
  /\ At(w, "synced")
  /\ IF Unchanged(w) THEN Goes(w, "verified") /\ UNCHANGED temps ELSE Fails(w)
  /\ UNCHANGED <<platform, entry, stored, data, parent, order, faults>>

\* The descriptor leads to the directory that was opened, wherever it is now.
Here(w) == writer[w].parent = parent

\* Between the last look and this call another writer may have renamed: the last one wins.
Rename(w) ==
  /\ At(w, "verified")
  /\ IF Here(w) THEN entry' = w /\ order' = Append(order, w) ELSE UNCHANGED <<entry, order>>
  /\ temps' = temps \ {w}
  /\ Goes(w, "renamed")
  /\ UNCHANGED <<platform, stored, data, parent, faults>>

\* A mutant: success is told before the directory is on disk.
NoDirectorySync(w) == stored

\* unix.Fsync of the directory, on Linux.
DirectorySynced(w) == IF platform = "linux" /\ Here(w) THEN entry ELSE stored

SyncDirectory(w) ==
  /\ At(w, "renamed")
  /\ stored' = DirectorySynced(w)
  /\ Goes(w, "kept")
  /\ UNCHANGED <<platform, entry, data, temps, parent, order, faults>>

\* The directory is verified once more, although the file is in place.
AnswerWriter(w) ==
  /\ At(w, "kept")
  /\ writer' = [writer EXCEPT ![w].pc = "ended",
                              ![w].answer = IF Here(w) THEN "ok" ELSE "error"]
  /\ UNCHANGED <<platform, entry, stored, data, temps, parent, order, faults>>

Fault == faults < MaxFaults /\ faults' = faults + 1

\* A call fails: no space, an I/O error.
CallFails(w) ==
  /\ Fault /\ writer[w].pc \in {"opened", "created", "written", "synced", "verified", "renamed"}
  /\ Fails(w)
  /\ UNCHANGED <<platform, entry, stored, data, parent, order>>

\* Someone else replaces the directory by another one with the same files; off Linux the path
\* is followed anew by every call and nothing looks for this.
ReplaceParent ==
  /\ platform = "linux" /\ Fault /\ parent' = parent + 1
  /\ UNCHANGED <<platform, entry, stored, data, temps, writer, order>>

\* The kernel writes something back.
Flush ==
  /\ \/ stored # entry /\ stored' = entry /\ data' = data
     \/ \E i \in Inodes : /\ data[i].disk # data[i].has
                          /\ data' = [data EXCEPT ![i].disk = data[i].has] /\ stored' = stored
  /\ UNCHANGED <<platform, entry, temps, writer, parent, order, faults>>

\* The machine fails and starts again: the runs are gone, temporary files may stay.
PowerFails ==
  /\ Fault
  /\ entry' = stored /\ stored' = stored
  /\ data' = [i \in Inodes |-> [has |-> data[i].disk, disk |-> data[i].disk]]
  /\ writer' = [w \in Writers |-> IF writer[w].answer = "none"
                                    THEN [NotBegun EXCEPT !.pc = "lost"] ELSE writer[w]]
  /\ UNCHANGED <<platform, temps, parent, order>>

SinkNext ==
  \/ \E w \in Writers :
       \/ Open(w) \/ CreateTemp(w) \/ WriteData(w) \/ SyncData(w) \/ VerifyAgain(w) \/ Rename(w)
       \/ SyncDirectory(w) \/ AnswerWriter(w) \/ CallFails(w)
  \/ ReplaceParent \/ Flush \/ PowerFails

SinkSpec == SinkInit /\ [][SinkNext]_sinkVars

SinkTypeOK ==
  /\ platform \in {"linux", "other"}
  /\ {entry, stored} \subseteq Inodes \cup {None}
  /\ data \in [Inodes -> [has : {"none", "part", "whole"}, disk : {"none", "part", "whole"}]]
  /\ temps \subseteq Writers
  /\ writer \in [Writers -> [pc : {"idle", "opened", "created", "written", "synced", "verified",
                                   "renamed", "kept", "ended", "lost"},
                             seen : Inodes \cup {None}, parent : 0..MaxFaults,
                             answer : {"none", "ok", "error"}]]
  /\ parent \in 0..MaxFaults /\ faults \in 0..MaxFaults
  /\ ToSet(order) \subseteq Inodes \cup {None}

\* Whoever opens the file finds a whole output, also after a power failure and
\* whatever the runs beside it do (Sync before the rename).
FileIsWhole == entry # None => data[entry].has = "whole"

Place(i) == CHOOSE n \in DOMAIN order : order[n] = i

\* A run that was told its output is written finds it, or a later one, in the
\* file for good; off Linux the directory is not synced and a power failure may
\* take it back (Fsync of the directory).
WrittenStays ==
  platform = "linux" =>
    \A w \in Writers : writer[w].answer = "ok" => Place(entry) >= Place(w)

\* A run that was told of an error did not change the file, unless the call
\* that failed came after the rename.
ErrorsAreTold ==
  \A w \in Writers : writer[w].answer = "error" /\ faults = 0 => w \notin ToSet(order)

\* Nothing is left beside the file when every run has ended by itself.
NothingIsLeft ==
  (\A w \in Writers : writer[w].pc = "ended") => temps = {}

=============================================================================
