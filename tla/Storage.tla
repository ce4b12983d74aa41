------------------------------- MODULE Storage -------------------------------
(* The file storage: uploads, downloads, listings and removals over one       *)
(* directory tree, as interleaved requests (storage.service.ts and            *)
(* storage.controller.ts).  Every awaited file system call is a step of its   *)
(* own; the promises that one request starts together are its parts.          *)
EXTENDS Naturals, FiniteSets

CONSTANTS
  Names,      \* the file names generateFilename may produce
  Subfolders, \* the subfolders that requests name
  Reqs,       \* request slots
  Width,      \* bound: files in one upload, names in one removal
  Jobs,       \* what a request may ask for
  MaxFaults,  \* bound: failed writes and restarts
  None

Root    == "root"
Folders == {Root} \union Subfolders
Parts   == 1..Width
Kinds   == {"upload", "get", "info", "list", "delete"}
Steps   == {"idle", "ensure", "create", "write", "unlink", "access", "read",
            "stat", "readdir", "done", "failed"}
Content == {"part", "whole"}
Replies == {"none", "ok", "refused", "missing"}

\* A job: kind, folder, and for each part what validation will say of the file
\* ("ok", "type", "size", or None when there is no such part).
JobType == [kind : Kinds, folder : Folders, file : [Parts -> {"ok", "type", "size", None}]]

ASSUME StorageAssumption ==
  /\ Width \in Nat \ {0}
  /\ MaxFaults \in Nat
  /\ Jobs \subseteq JobType
  /\ \A j \in Jobs : \E i \in Parts :
       /\ j.file[i] # None
       /\ j.kind \in {"get", "info", "list"} => \A k \in Parts \ {i} : j.file[k] = None
  /\ None \notin Names \union Folders \union JobType \union Content \union {"ok", "type", "size"}
  /\ Names \intersect Folders = {}
  /\ Root \notin Subfolders
  /\ IsFiniteSet(Names)

VARIABLES
  disk,   \* folder -> name -> the bytes there are of the file, or None
  dirs,   \* the folders that exist
  job,    \* slot -> the job it runs, or None
  part,   \* slot -> part -> [pc, name]: the promises started for the job
  todo,   \* slot -> entries of a listing still to stat
  listed, \* slot -> entries of a listing stat found
  data,   \* slot -> what readFile returned
  reply,  \* slot -> the answer sent
  told,   \* paths that an upload has answered
  batch,  \* name -> how many files its upload carried (0: not generated yet)
  ever,   \* slot -> for a listing, the entries there at some time since it began
  always, \* slot -> for a listing, the entries there ever since it began
  known,  \* slot -> for a download, the paths already answered when it began
  gone,   \* paths that were unlinked
  faults

vars == <<disk, dirs, job, part, todo, listed, data, reply, told, batch, ever,
          always, known, gone, faults>>
kept == <<told, batch, known, gone, faults>>

Path(f, n)   == <<f, n>>
NoPart       == [pc |-> "idle", name |-> None]
NoParts      == [i \in Parts |-> NoPart]
OnDisk       == {p \in Folders \X Names : disk[p[1]][p[2]] # None}
Used         == {n \in Names : batch[n] > 0}
Files(j)     == {i \in Parts : j.file[i] # None}

\* What readdir returns: files, and in the root the subfolders as well.
Entries(d, ds, f) ==
  {n \in Names : d[f][n] # None} \union (IF f = Root THEN ds \ {Root} ELSE {})

Doing(r, kind) == job[r] # None /\ job[r].kind = kind
Listing(r)     == Doing(r, "list")

\* Every change of the tree is remembered by the listings in progress.
Tree(d, ds) ==
  /\ disk' = d
  /\ dirs' = ds
  /\ ever' = [r \in Reqs |->
       IF Listing(r) THEN ever[r] \union Entries(d, ds, job[r].folder) ELSE {}]
  /\ always' = [r \in Reqs |->
       IF Listing(r) THEN always[r] \intersect Entries(d, ds, job[r].folder) ELSE {}]
SameTree == UNCHANGED <<disk, dirs, ever, always>>

\* validateFile runs before the first await of uploadFile.  A file over the
\* size limit is already refused by multer, before any file of the request.
Admitted(j, i) ==
  CASE j.file[i] = "ok"   -> [pc |-> "ensure", name |-> None]
    [] j.file[i] = "type" -> [pc |-> "failed", name |-> None]
    [] OTHER              -> NoPart
TooLarge(j) == \E i \in Parts : j.file[i] = "size"

FirstStep(kind) ==
  CASE kind = "get"    -> "access"
    [] kind = "info"   -> "stat"
    [] kind = "list"   -> "readdir"
    [] kind = "delete" -> "unlink"
    [] OTHER           -> "idle"

-----------------------------------------------------------------------------
Init ==
  /\ disk = [f \in Folders |-> [n \in Names |-> None]]
  /\ dirs = {}
  /\ job = [r \in Reqs |-> None]
  /\ part = [r \in Reqs |-> NoParts]
  /\ todo = [r \in Reqs |-> {}]
  /\ listed = [r \in Reqs |-> {}]
  /\ data = [r \in Reqs |-> None]
  /\ reply = [r \in Reqs |-> "none"]
  /\ told = {}
  /\ batch = [n \in Names |-> 0]
  /\ ever = [r \in Reqs |-> {}]
  /\ always = [r \in Reqs |-> {}]
  /\ known = [r \in Reqs |-> {}]
  /\ gone = {}
  /\ faults = 0

\* The constructor's ensureStorageDirectory, which nothing waits for.
EnsureRoot ==
  /\ Root \notin dirs
  /\ Tree(disk, dirs \union {Root})
  /\ UNCHANGED <<job, part, todo, listed, data, reply, kept>>

\* A request arrives: the first part of its handler, up to the first await.
\* get, info and delete name any file, whether it exists or not; a removal of
\* several files (deleteFiles) starts one promise for each.
Arrive(r, j, name) ==
  /\ job[r] = None
  /\ job' = [job EXCEPT ![r] = j]
  /\ part' = [part EXCEPT ![r] =
       IF j.kind = "upload"
       THEN IF TooLarge(j) THEN NoParts ELSE [i \in Parts |-> Admitted(j, i)]
       ELSE [i \in Parts |-> IF i \in Files(j)
                             THEN [pc |-> FirstStep(j.kind), name |-> name[i]]
                             ELSE NoPart]]
  /\ reply' = [reply EXCEPT ![r] =
       IF j.kind = "upload" /\ TooLarge(j) THEN "refused" ELSE "none"]
  /\ LET there == IF j.kind = "list" THEN Entries(disk, dirs, j.folder) ELSE {}
     IN  /\ ever' = [ever EXCEPT ![r] = there]
         /\ always' = [always EXCEPT ![r] = there]
  /\ known' = [known EXCEPT ![r] = IF j.kind = "get" THEN told ELSE {}]
  /\ UNCHANGED <<disk, dirs, todo, listed, data, told, batch, gone, faults>>

\* Bound: an upload begins only while Names has a name for each of its files.
Pending == {x \in Reqs \X Parts : part[x[1]][x[2]].pc \in {"ensure", "create"}}
RoomFor(j) ==
  j.kind = "upload" =>
    Cardinality(Used) + Cardinality(Pending) + Cardinality(Files(j)) <= Cardinality(Names)

Start(r) ==
  \E j \in Jobs, name \in [Parts -> Names \union {None}] :
    /\ RoomFor(j)
    /\ \A i \in Parts :
         name[i] = None <=> j.kind \in {"upload", "list"} \/ i \notin Files(j)
    /\ Arrive(r, j, name)

\* The slot of an answered request, none of whose promises runs any more.
Finish(r) ==
  /\ job[r] # None
  /\ reply[r] # "none"
  /\ \A i \in Parts : part[r][i].pc \in {"idle", "done", "failed"}
  /\ job' = [job EXCEPT ![r] = None]
  /\ part' = [part EXCEPT ![r] = NoParts]
  /\ todo' = [todo EXCEPT ![r] = {}]
  /\ listed' = [listed EXCEPT ![r] = {}]
  /\ data' = [data EXCEPT ![r] = None]
  /\ reply' = [reply EXCEPT ![r] = "none"]
  /\ ever' = [ever EXCEPT ![r] = {}]
  /\ always' = [always EXCEPT ![r] = {}]
  /\ known' = [known EXCEPT ![r] = {}]
  /\ UNCHANGED <<disk, dirs, told, batch, gone, faults>>

At(r, i, pc) == job[r] # None /\ part[r][i].pc = pc
Goto(r, i, pc) == part' = [part EXCEPT ![r][i].pc = pc]
Folder(r) == job[r].folder
Here(r, i) == disk[Folder(r)][part[r][i].name]

-----------------------------------------------------------------------------
(* uploadFile, and uploadFiles as several of them under Promise.all.          *)

\* access, and mkdir with recursive, which does nothing to a folder that exists.
EnsureFolder(r, i) ==
  /\ At(r, i, "ensure")
  /\ Goto(r, i, "create")
  /\ Tree(disk, dirs \union {Root, Folder(r)})
  /\ UNCHANGED <<job, todo, listed, data, reply, kept>>

\* Mutant of CreateFile: the name does not tell two uploads apart.
CreateFileAnyName(r, i) ==
  /\ At(r, i, "create")
  /\ \E n \in Names :
       /\ part' = [part EXCEPT ![r][i] = [pc |-> "write", name |-> n]]
       /\ batch' = [batch EXCEPT ![n] = Cardinality(Files(job[r]))]
       /\ Tree([disk EXCEPT ![Folder(r)][n] = "part"], dirs)
  /\ UNCHANGED <<job, todo, listed, data, reply, told, known, gone, faults>>

\* Mutant of CreateFile: nobody waits for writeFile.
CreateFileUnawaited(r, i) ==
  /\ At(r, i, "create")
  /\ \E n \in Names \ Used :
       /\ part' = [part EXCEPT ![r][i] = [pc |-> "done", name |-> n]]
       /\ batch' = [batch EXCEPT ![n] = Cardinality(Files(job[r]))]
       /\ Tree([disk EXCEPT ![Folder(r)][n] = "part"], dirs)
  /\ UNCHANGED <<job, todo, listed, data, reply, told, known, gone, faults>>

\* generateFilename, whose time and random parts make the name a new one, and
\* the opening of the file by writeFile: it is there, and not whole yet.
CreateFile(r, i) ==
  /\ At(r, i, "create")
  /\ \E n \in Names \ Used :
       /\ part' = [part EXCEPT ![r][i] = [pc |-> "write", name |-> n]]
       /\ batch' = [batch EXCEPT ![n] = Cardinality(Files(job[r]))]
       /\ Tree([disk EXCEPT ![Folder(r)][n] = "part"], dirs)
  /\ UNCHANGED <<job, todo, listed, data, reply, told, known, gone, faults>>

\* writeFile ends.  A file unlinked meanwhile stays unlinked.
WriteEnds(r, i) ==
  /\ At(r, i, "write")
  /\ Goto(r, i, "done")
  /\ Tree(IF Here(r, i) = None THEN disk
          ELSE [disk EXCEPT ![Folder(r)][part[r][i].name] = "whole"], dirs)
  /\ UNCHANGED <<job, todo, listed, data, reply, kept>>

\* writeFile fails half way and leaves what it wrote.
WriteFails(r, i) ==
  /\ At(r, i, "write")
  /\ faults < MaxFaults
  /\ faults' = faults + 1
  /\ Goto(r, i, "failed")
  /\ SameTree
  /\ UNCHANGED <<job, todo, listed, data, reply, told, batch, known, gone>>

Reply(r, answer) ==
  /\ reply' = [reply EXCEPT ![r] = answer]
  /\ SameTree
  /\ UNCHANGED <<job, part, todo, listed, data, batch, known, gone, faults>>

\* Mutant of UploadAnswered: Promise.allSettled, with failures among the results.
UploadSettled(r) ==
  /\ Doing(r, "upload") /\ reply[r] = "none"
  /\ \A i \in Files(job[r]) : part[r][i].pc \in {"done", "failed"}
  /\ told' = told \union {Path(Folder(r), part[r][i].name) : i \in Files(job[r])}
  /\ Reply(r, "ok")

\* Promise.all has every result: the answer names the files.
UploadAnswered(r) ==
  /\ Doing(r, "upload") /\ reply[r] = "none"
  /\ \A i \in Files(job[r]) : part[r][i].pc = "done"
  /\ told' = told \union {Path(Folder(r), part[r][i].name) : i \in Files(job[r])}
  /\ Reply(r, "ok")

\* Mutant of UploadRefused: a time limit refuses uploads that still run.
UploadTimedOut(r) ==
  /\ Doing(r, "upload") /\ reply[r] = "none"
  /\ \E i \in Files(job[r]) : part[r][i].pc # "done"
  /\ Reply(r, "refused")
  /\ UNCHANGED told

\* Promise.all rejects with the first failure and leaves the others running.
UploadRefused(r) ==
  /\ Doing(r, "upload") /\ reply[r] = "none"
  /\ \E i \in Files(job[r]) : part[r][i].pc = "failed"
  /\ Reply(r, "refused")
  /\ UNCHANGED told

-----------------------------------------------------------------------------
(* deleteFile and deleteFiles, getFile and getFileInfo.                       *)

Unlink(r, i) ==
  /\ At(r, i, "unlink")
  /\ Goto(r, i, IF Here(r, i) = None THEN "failed" ELSE "done")
  /\ Tree([disk EXCEPT ![Folder(r)][part[r][i].name] = None], dirs)
  /\ gone' = IF Here(r, i) = None THEN gone
             ELSE gone \union {Path(Folder(r), part[r][i].name)}
  /\ UNCHANGED <<job, todo, listed, data, reply, told, batch, known, faults>>

DeleteAnswered(r) ==
  /\ Doing(r, "delete") /\ reply[r] = "none"
  /\ \/ /\ \A i \in Files(job[r]) : part[r][i].pc = "done"
        /\ Reply(r, "ok")
     \/ /\ \E i \in Files(job[r]) : part[r][i].pc = "failed"
        /\ Reply(r, "missing")
  /\ UNCHANGED told

\* access, then readFile, then the stat of getFileInfo: the file may go before
\* each of them, and any error of theirs is answered with not found.
Lookup(r, i, pc, next, content, answer) ==
  /\ At(r, i, pc)
  /\ IF Here(r, i) = None
     THEN Goto(r, i, "failed") /\ reply' = [reply EXCEPT ![r] = "missing"]
                               /\ UNCHANGED data
     ELSE /\ Goto(r, i, next)
          /\ data' = [data EXCEPT ![r] = content]
          /\ reply' = [reply EXCEPT ![r] = answer]
  /\ SameTree
  /\ UNCHANGED <<job, todo, listed, kept>>

AccessFile(r, i) == Lookup(r, i, "access", "read", data[r], "none")
ReadFile(r, i)   == Lookup(r, i, "read", "stat", Here(r, i), "none")
StatFile(r, i)   == Lookup(r, i, "stat", "done", data[r], "ok")

-----------------------------------------------------------------------------
(* listFiles, and getStorageStats, which sums it up.                          *)

\* readdir: a folder that does not exist has no files.
ReadDir(r, i) ==
  /\ At(r, i, "readdir")
  /\ Goto(r, i, "done")
  /\ todo' = [todo EXCEPT ![r] =
       IF Folder(r) \in dirs THEN Entries(disk, dirs, Folder(r)) ELSE {}]
  /\ SameTree
  /\ UNCHANGED <<job, listed, data, reply, kept>>

\* Mutant of StatEntry: not found is taken for a folder that does not exist.
StatEntryEmpties(r, n) ==
  /\ job[r] # None /\ n \in todo[r] /\ reply[r] = "none"
  /\ IF n \in Entries(disk, dirs, Folder(r))
     THEN /\ todo' = [todo EXCEPT ![r] = @ \ {n}]
          /\ listed' = [listed EXCEPT ![r] = @ \union {n}]
          /\ UNCHANGED reply
     ELSE /\ todo' = [todo EXCEPT ![r] = {}]
          /\ listed' = [listed EXCEPT ![r] = {}]
          /\ reply' = [reply EXCEPT ![r] = "ok"]
  /\ SameTree
  /\ UNCHANGED <<job, part, data, kept>>

\* The stat of one entry.  The error getFileInfo makes of a missing file is a
\* NotFoundException, which has no code: listFiles does not take it for ENOENT.
StatEntry(r, n) ==
  /\ job[r] # None /\ n \in todo[r] /\ reply[r] = "none"
  /\ IF n \in Entries(disk, dirs, Folder(r))
     THEN /\ todo' = [todo EXCEPT ![r] = @ \ {n}]
          /\ listed' = [listed EXCEPT ![r] = @ \union {n}]
          /\ UNCHANGED reply
     ELSE /\ todo' = [todo EXCEPT ![r] = {}]
          /\ reply' = [reply EXCEPT ![r] = "missing"]
          /\ UNCHANGED listed
  /\ SameTree
  /\ UNCHANGED <<job, part, data, kept>>

ListAnswered(r) ==
  /\ Listing(r) /\ reply[r] = "none"
  /\ \A i \in Files(job[r]) : part[r][i].pc = "done"
  /\ todo[r] = {}
  /\ Reply(r, "ok")
  /\ UNCHANGED told

-----------------------------------------------------------------------------
\* The process stops and starts again: the files stay, the requests do not.
Crash ==
  /\ faults < MaxFaults
  /\ faults' = faults + 1
  /\ job' = [r \in Reqs |-> None]
  /\ part' = [r \in Reqs |-> NoParts]
  /\ todo' = [r \in Reqs |-> {}]
  /\ listed' = [r \in Reqs |-> {}]
  /\ data' = [r \in Reqs |-> None]
  /\ reply' = [r \in Reqs |-> "none"]
  /\ ever' = [r \in Reqs |-> {}]
  /\ always' = [r \in Reqs |-> {}]
  /\ known' = [r \in Reqs |-> {}]
  /\ UNCHANGED <<disk, dirs, told, batch, gone>>

PartStep(r, i) ==
  \/ EnsureFolder(r, i) \/ CreateFile(r, i) \/ WriteEnds(r, i) \/ Unlink(r, i)
  \/ AccessFile(r, i) \/ ReadFile(r, i) \/ StatFile(r, i) \/ ReadDir(r, i)

Answer(r) ==
  UploadAnswered(r) \/ UploadRefused(r) \/ DeleteAnswered(r) \/ ListAnswered(r)

Next ==
  \/ EnsureRoot
  \/ Crash
  \/ \E r \in Reqs :
       \/ Start(r) \/ Finish(r) \/ Answer(r)
       \/ \E i \in Parts : PartStep(r, i) \/ WriteFails(r, i)
       \/ \E n \in Names \union Folders : StatEntry(r, n)

Spec == Init /\ [][Next]_vars

-----------------------------------------------------------------------------
PartType == [pc : Steps, name : Names \union {None}]
Everything == Names \union Folders
Paths == Folders \X Names

\* The variables keep their types.
TypeOK ==
  /\ disk \in [Folders -> [Names -> Content \union {None}]]
  /\ dirs \subseteq Folders
  /\ job \in [Reqs -> Jobs \union {None}]
  /\ part \in [Reqs -> [Parts -> PartType]]
  /\ todo \in [Reqs -> SUBSET Everything] /\ listed \in [Reqs -> SUBSET Everything]
  /\ data \in [Reqs -> Content \union {None}]
  /\ reply \in [Reqs -> Replies]
  /\ told \subseteq Paths /\ gone \subseteq Paths
  /\ batch \in [Names -> 0..Width]
  /\ ever \in [Reqs -> SUBSET Everything] /\ always \in [Reqs -> SUBSET Everything]
  /\ known \in [Reqs -> SUBSET Paths]
  /\ faults \in 0..MaxFaults

\* The path that part i of request r works on, and the requests holding one.
PathOf(r, i) == Path(Folder(r), part[r][i].name)
Holds(r, p) ==
  /\ Doing(r, "upload") /\ reply[r] = "none"
  /\ \E i \in Parts : part[r][i].name # None /\ PathOf(r, i) = p

\* A file that an upload has answered is there, whole, until it is removed: no
\* other upload takes its name, and no answer comes before the last byte
\* (generateFilename, writeFile and Promise.all in storage.service.ts).
StoredUntilRemoved ==
  \A p \in told : disk[p[1]][p[2]] = "whole" \/ p \in gone

\* A download that begins after the upload was answered is sent the whole file,
\* or not found because someone removed it while the download's three reads
\* (access, readFile, stat) ran.
DownloadsWhole ==
  \A r \in Reqs : \A i \in Parts :
    (Doing(r, "get") /\ i \in Files(job[r]) /\ PathOf(r, i) \in known[r]) =>
      /\ reply[r] = "ok" => data[r] = "whole"
      /\ reply[r] = "missing" => PathOf(r, i) \in gone

\* A listing holds every entry that stayed, and none that was never there while
\* it ran; it is answered not found, and not with the rest, only when a file
\* it had read the name of was removed before its stat.
ListingHonest ==
  \A r \in Reqs : Listing(r) =>
    /\ reply[r] = "ok" => always[r] \subseteq listed[r] /\ listed[r] \subseteq ever[r]
    /\ reply[r] = "missing" => \E n \in ever[r] : Path(Folder(r), n) \in gone

\* A file nobody was told of is held by an upload in progress, or was left by a
\* failed write, by a restart, or by an upload of several files of which another
\* was refused: the upload of one file leaves nothing behind.
OrphansHaveCause ==
  \A p \in OnDisk :
    \/ p \in told
    \/ \E r \in Reqs : Holds(r, p)
    \/ faults > 0
    \/ batch[p[2]] > 1

-----------------------------------------------------------------------------
(* What makes the invariants inductive.                                       *)

\* Files lie in folders that exist, under names that were generated, and what was
\* removed is not there again.
TreeTidy ==
  /\ dirs # {} => Root \in dirs
  /\ \A p \in OnDisk : p[1] \in dirs /\ p \notin gone
  /\ \A p \in OnDisk \union told \union gone : batch[p[2]] > 0

StepsOf(kind) ==
  CASE kind = "upload" -> {"ensure", "create", "write", "done", "failed"}
    [] kind = "get"    -> {"access", "read", "stat", "done", "failed"}
    [] kind = "info"   -> {"stat", "done", "failed"}
    [] kind = "list"   -> {"readdir", "done"}
    [] OTHER           -> {"unlink", "done", "failed"}

\* A request runs the steps of its kind, for the files it has.
PartsRight ==
  \A r \in Reqs : (todo[r] # {} => Listing(r)) /\ \A i \in Parts :
    LET x == part[r][i] IN
    /\ job[r] = None => x = NoPart
    /\ job[r] # None /\ x.pc # "idle" => x.pc \in StepsOf(job[r].kind) /\ i \in Files(job[r])
    /\ job[r] # None /\ x.pc = "idle" => x.name = None
    /\ job[r] # None /\ x.pc # "idle" /\ job[r].kind \in {"get", "info", "delete"} =>
         x.name # None

\* How far the upload of a file has come says what there is of it on disk.
UploadFine(r, i) ==
  LET x == part[r][i] IN
  Doing(r, "upload") =>
    /\ x.pc \in {"ensure", "create"} => x.name = None
    /\ x.pc \in {"create", "write"} => Folder(r) \in dirs
    /\ x.pc \in {"write", "done"} => x.name # None
    /\ x.pc = "write" => Here(r, i) # None \/ PathOf(r, i) \in gone
    /\ x.pc = "done" => Here(r, i) = "whole" \/ PathOf(r, i) \in gone
    /\ x.name # None => batch[x.name] = Cardinality(Files(job[r]))
    /\ x.name # None /\ x.pc = "failed" => faults > 0
    /\ reply[r] # "none" /\ x.pc \in {"ensure", "create", "write"} =>
         Cardinality(Files(job[r])) > 1

\* What a download has read of a file it knows from an answer, and what it says.
DownloadFine(r) ==
  Doing(r, "get") => \A i \in Files(job[r]) :
    /\ reply[r] = "ok" => part[r][i].pc = "done"
    /\ PathOf(r, i) \in known[r] =>
         /\ part[r][i].pc \in {"stat", "done"} => data[r] = "whole"
         /\ reply[r] = "missing" => PathOf(r, i) \in gone

\* What a listing has found and has still to look at.
ListingFine(r) ==
  /\ listed[r] # {} => Listing(r)
  /\ Listing(r) =>
    /\ always[r] \subseteq Entries(disk, dirs, Folder(r))
    /\ Entries(disk, dirs, Folder(r)) \subseteq ever[r]
    /\ \A n \in ever[r] :
         n \in Entries(disk, dirs, Folder(r)) \/ Path(Folder(r), n) \in gone
    /\ todo[r] \union listed[r] \subseteq ever[r]
    /\ (\E i \in Parts : part[r][i].pc = "done") /\ reply[r] # "missing" =>
         always[r] \subseteq todo[r] \union listed[r]
    /\ reply[r] = "ok" => todo[r] = {} /\ \E i \in Parts : part[r][i].pc = "done"
    /\ reply[r] = "missing" => \E n \in ever[r] : Path(Folder(r), n) \in gone

IInv ==
  /\ TypeOK /\ TreeTidy /\ PartsRight
  /\ \A r \in Reqs : \A i \in Parts : UploadFine(r, i)
  /\ \A r \in Reqs : DownloadFine(r) /\ ListingFine(r) /\ known[r] \subseteq told
  /\ StoredUntilRemoved /\ OrphansHaveCause
=============================================================================
