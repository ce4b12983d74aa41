---------------------------- MODULE StorageProofs ----------------------------
(***************************************************************************)
(* Theorems about Storage, for any names, folders, requests and jobs.       *)
(***************************************************************************)
EXTENDS Storage, FiniteSetTheorems, TLAPS

LEMMA FilesCounted ==
  ASSUME NEW j \in Jobs
  PROVE  /\ IsFiniteSet(Files(j)) /\ Files(j) \subseteq Parts
         /\ Cardinality(Files(j)) \in 1..Width
<1>1. IsFiniteSet(Parts) /\ Cardinality(Parts) = Width
  BY StorageAssumption, FS_Interval DEF Parts
<1>2. Files(j) \subseteq Parts
  BY DEF Files
<1>3. IsFiniteSet(Files(j)) /\ Cardinality(Files(j)) <= Width
  BY <1>1, <1>2, FS_Subset
<1>4. Files(j) # {}
  BY StorageAssumption DEF Files
<1>5. Cardinality(Files(j)) \in Nat /\ Cardinality(Files(j)) # 0
  BY <1>3, <1>4, FS_CardinalityType, FS_EmptySet
<1>6. QED BY <1>2, <1>3, <1>5, StorageAssumption

\* One file, and another, are more than one.
LEMMA TwoFilesCounted ==
  ASSUME NEW j \in Jobs, NEW i \in Files(j), NEW k \in Files(j), i # k
  PROVE  Cardinality(Files(j)) > 1
<1>1. IsFiniteSet(Files(j)) /\ Cardinality(Files(j)) \in Nat
  BY FilesCounted
<1>2. Cardinality(Files(j) \ {i}) = Cardinality(Files(j)) - 1 /\ IsFiniteSet(Files(j) \ {i})
  BY <1>1, FS_RemoveElement
<1>3. Cardinality(Files(j) \ {i}) \in Nat /\ Cardinality(Files(j) \ {i}) # 0
  BY <1>2, FS_CardinalityType, FS_EmptySet
<1>4. QED BY <1>1, <1>2, <1>3

LEMMA EntriesType ==
  ASSUME NEW d, NEW ds \in SUBSET Folders, NEW f
  PROVE  Entries(d, ds, f) \subseteq Everything
BY DEF Entries, Everything

\* What a change of the tree does to the sets of the listings.
LEMMA TreeType ==
  ASSUME TypeOK, NEW d \in [Folders -> [Names -> Content \union {None}]],
         NEW ds \in SUBSET Folders, Tree(d, ds)
  PROVE  /\ disk' \in [Folders -> [Names -> Content \union {None}]]
         /\ dirs' \subseteq Folders
         /\ ever' \in [Reqs -> SUBSET Everything] /\ always' \in [Reqs -> SUBSET Everything]
<1>1. disk' = d /\ dirs' = ds
  BY DEF Tree
<1>2. \A r \in Reqs : Entries(d, ds, job[r].folder) \subseteq Everything
  BY EntriesType
<1>3. ever' \in [Reqs -> SUBSET Everything] /\ always' \in [Reqs -> SUBSET Everything]
  BY <1>2 DEF Tree, TypeOK
<1>4. QED BY <1>1, <1>3

\* A request that has not begun, and the parts it begins with.
LEMMA StartType ==
  ASSUME TypeOK, NEW r \in Reqs, Start(r)
  PROVE  /\ job' \in [Reqs -> Jobs \union {None}]
         /\ part' \in [Reqs -> [Parts -> PartType]]
         /\ reply' \in [Reqs -> Replies]
<1> USE DEF TypeOK
<1>1. PICK j \in Jobs, name \in [Parts -> Names \union {None}] : Arrive(r, j, name)
  BY DEF Start
<1>2. j.kind \in Kinds
  BY StorageAssumption DEF JobType
<1>3. NoPart \in PartType
  BY DEF NoPart, PartType, Steps
<1>4. FirstStep(j.kind) \in Steps
  BY <1>2 DEF FirstStep, Kinds, Steps
<1>5. \A i \in Parts : Admitted(j, i) \in PartType
  BY <1>3 DEF Admitted, PartType, Steps
<1>6. part'[r] \in [Parts -> PartType]
  BY <1>1, <1>3, <1>4, <1>5 DEF Arrive, NoParts, PartType
<1>7. part' \in [Reqs -> [Parts -> PartType]]
  BY <1>1, <1>6 DEF Arrive
<1>8. QED BY <1>1, <1>7 DEF Arrive, Replies

\* Goto changes the step of one part, and nothing else of the parts.
LEMMA GotoMoves ==
  ASSUME TypeOK, NEW r \in Reqs, NEW i \in Parts, NEW pc \in Steps, Goto(r, i, pc)
  PROVE  /\ part' \in [Reqs -> [Parts -> PartType]]
         /\ part'[r][i].pc = pc /\ part'[r][i].name = part[r][i].name
         /\ \A k \in Parts \ {i} : part'[r][k] = part[r][k]
         /\ \A s \in Reqs \ {r} : part'[s] = part[s]
<1> DEFINE x == [part[r][i] EXCEPT !.pc = pc]
           mine == [part[r] EXCEPT ![i] = x]
<1>1. part \in [Reqs -> [Parts -> PartType]] /\ part[r][i] \in PartType
  BY DEF TypeOK
<1>2. x \in PartType /\ x.pc = pc /\ x.name = part[r][i].name
  BY <1>1 DEF PartType
<1>3. mine \in [Parts -> PartType] /\ mine[i] = x
  BY <1>1, <1>2
<1>4. part' = [part EXCEPT ![r] = mine]
  BY DEF Goto
<1>5. QED
  <2> HIDE DEF x
  <2>1. \A k \in Parts \ {i} : mine[k] = part[r][k]
    BY <1>1
  <2> HIDE DEF mine
  <2>2. QED BY <1>1, <1>2, <1>3, <1>4, <2>1

\* The part that unlinks, reads, looks at or writes a file has its name.
LEMMA NameAtWork ==
  ASSUME IInv, NEW r \in Reqs, NEW i \in Parts, job[r] # None,
         \/ part[r][i].pc \in {"unlink", "access", "read", "stat", "write"}
         \/ part[r][i].pc = "done" /\ job[r].kind = "upload"
  PROVE  part[r][i].name \in Names /\ Folder(r) \in Folders
<1>1. job[r] \in JobType /\ Folder(r) \in Folders /\ part[r][i] \in PartType
  BY StorageAssumption DEF IInv, TypeOK, JobType, Folder
<1>2. job[r].kind \in Kinds
  BY <1>1 DEF JobType
<1>3. part[r][i].pc \in StepsOf(job[r].kind)
  BY DEF IInv, PartsRight
<1>4. CASE job[r].kind \in {"get", "info", "delete"}
  <2>1. part[r][i].name # None
    BY <1>4 DEF IInv, PartsRight
  <2>2. QED BY <1>1, <2>1 DEF PartType
<1>5. CASE job[r].kind = "list"
  BY <1>3, <1>5 DEF StepsOf
<1>6. CASE job[r].kind = "upload"
  <2>1. part[r][i].pc \in {"write", "done"}
    BY <1>3, <1>6 DEF StepsOf
  <2>2. part[r][i].name # None
    BY <1>6, <2>1 DEF IInv, UploadFine, Doing
  <2>3. QED BY <1>1, <2>2 DEF PartType
<1>7. QED BY <1>2, <1>4, <1>5, <1>6 DEF Kinds

\* Every step keeps the types.
LEMMA TypeStep ==
  ASSUME IInv, [Next]_vars
  PROVE  TypeOK'
<1> USE StorageAssumption DEF TypeOK, kept, SameTree
<1>a. TypeOK /\ PartsRight
  BY DEF IInv
<1> DEFINE Bytes == Content \union {None}
<1>b. Root \in Folders /\ "part" \in Bytes /\ "whole" \in Bytes
  BY DEF Folders, Content
<1>c. \A r \in Reqs : job[r] # None => Folder(r) \in Folders
  BY <1>a DEF Folder, JobType
<1>1. CASE EnsureRoot
  <2>1. Tree(disk, dirs \union {Root})
    BY <1>1 DEF EnsureRoot
  <2>2. QED BY <1>1, <1>a, <1>b, <2>1, TreeType DEF EnsureRoot
<1>2. CASE Crash
  BY <1>2, <1>a DEF Crash, NoParts, NoPart, PartType, Steps, Replies
<1>3. ASSUME NEW r \in Reqs, Start(r) PROVE TypeOK'
  <2>1. PICK j \in Jobs, name \in [Parts -> Names \union {None}] : Arrive(r, j, name)
    BY <1>3 DEF Start
  <2>2. Entries(disk, dirs, j.folder) \subseteq Everything
    BY <1>a, EntriesType
  <2>3. QED BY <1>a, <1>3, <2>1, <2>2, StartType DEF Arrive
<1>4. ASSUME NEW r \in Reqs, Finish(r) PROVE TypeOK'
  BY <1>4, <1>a DEF Finish, NoParts, NoPart, PartType, Steps, Replies
<1>5. ASSUME NEW r \in Reqs, Answer(r) PROVE TypeOK'
  <2>1. told' \subseteq Paths
    <3>1. CASE UploadAnswered(r)
      <4>1. \A i \in Files(job[r]) : PathOf(r, i) \in Paths
        BY <3>1, NameAtWork DEF UploadAnswered, Doing, Files, PathOf, Path, Paths
      <4>2. QED BY <1>a, <3>1, <4>1 DEF UploadAnswered, PathOf
    <3>2. CASE UploadRefused(r) \/ DeleteAnswered(r) \/ ListAnswered(r)
      BY <1>a, <3>2 DEF UploadRefused, DeleteAnswered, ListAnswered
    <3>3. QED BY <1>5, <3>1, <3>2 DEF Answer
  <2>2. \E answer \in Replies : Reply(r, answer)
    BY <1>5 DEF Answer, UploadAnswered, UploadRefused, DeleteAnswered, ListAnswered, Replies
  <2>3. QED BY <1>a, <2>1, <2>2 DEF Reply
<1>6. ASSUME NEW r \in Reqs, NEW i \in Parts, EnsureFolder(r, i) PROVE TypeOK'
  <2>1. Tree(disk, dirs \union {Root, Folder(r)}) /\ Folder(r) \in Folders
    BY <1>6, <1>c DEF EnsureFolder, At
  <2>2. part' \in [Reqs -> [Parts -> PartType]]
    BY <1>6, <1>a, GotoMoves DEF EnsureFolder, Steps
  <2>3. QED BY <1>6, <1>a, <1>b, <2>1, <2>2, TreeType DEF EnsureFolder
<1>7. ASSUME NEW r \in Reqs, NEW i \in Parts, CreateFile(r, i) PROVE TypeOK'
  <2>1. PICK n \in Names \ Used :
          /\ part' = [part EXCEPT ![r][i] = [pc |-> "write", name |-> n]]
          /\ batch' = [batch EXCEPT ![n] = Cardinality(Files(job[r]))]
          /\ Tree([disk EXCEPT ![Folder(r)][n] = "part"], dirs)
    BY <1>7 DEF CreateFile
  <2>2. [disk EXCEPT ![Folder(r)][n] = "part"] \in [Folders -> [Names -> Bytes]]
    BY <1>a, <1>b
  <2>3. part' \in [Reqs -> [Parts -> PartType]]
    BY <1>a, <2>1 DEF PartType, Steps
  <2>4. batch' \in [Names -> 0..Width]
    <3>1. Cardinality(Files(job[r])) \in 0..Width
      BY <1>a, <1>7, FilesCounted DEF CreateFile, At
    <3>2. QED BY <1>a, <2>1, <3>1
  <2>5. QED BY <1>7, <1>a, <2>1, <2>2, <2>3, <2>4, TreeType DEF CreateFile
<1>8. ASSUME NEW r \in Reqs, NEW i \in Parts, WriteEnds(r, i) PROVE TypeOK'
  <2> DEFINE d == IF Here(r, i) = None THEN disk
                  ELSE [disk EXCEPT ![Folder(r)][part[r][i].name] = "whole"]
  <2>1. Tree(d, dirs)
    BY <1>8 DEF WriteEnds
  <2>2. d \in [Folders -> [Names -> Bytes]]
    BY <1>a, <1>b
  <2>3. part' \in [Reqs -> [Parts -> PartType]]
    BY <1>8, <1>a, GotoMoves DEF WriteEnds, Steps
  <2>4. QED BY <1>8, <1>a, <2>1, <2>2, <2>3, TreeType DEF WriteEnds
<1>9. ASSUME NEW r \in Reqs, NEW i \in Parts, Unlink(r, i) PROVE TypeOK'
  <2> DEFINE d == [disk EXCEPT ![Folder(r)][part[r][i].name] = None]
  <2>1. Tree(d, dirs)
    BY <1>9 DEF Unlink
  <2>2. d \in [Folders -> [Names -> Bytes]]
    BY <1>a
  <2>3. part' \in [Reqs -> [Parts -> PartType]]
    BY <1>9, <1>a, GotoMoves DEF Unlink, Steps
  <2>4. gone' \subseteq Paths
    <3>1. part[r][i].name \in Names /\ Folder(r) \in Folders
      BY <1>9, NameAtWork DEF Unlink, At
    <3>2. QED BY <1>9, <1>a, <3>1 DEF Unlink, Path, Paths
  <2>5. QED BY <1>9, <1>a, <2>1, <2>2, <2>3, <2>4, TreeType DEF Unlink
<1>10. ASSUME NEW r \in Reqs, NEW i \in Parts, WriteFails(r, i) PROVE TypeOK'
  <2>1. part' \in [Reqs -> [Parts -> PartType]]
    BY <1>10, <1>a, GotoMoves DEF WriteFails, Steps
  <2>2. QED BY <1>10, <1>a, <2>1 DEF WriteFails
<1>11. ASSUME NEW r \in Reqs, NEW i \in Parts,
              AccessFile(r, i) \/ ReadFile(r, i) \/ StatFile(r, i)
       PROVE  TypeOK'
  <2>1. Folder(r) \in Folders /\ part[r][i].name \in Names
    BY <1>11, NameAtWork DEF AccessFile, ReadFile, StatFile, Lookup, At
  <2>2. Here(r, i) \in Bytes
    BY <1>a, <2>1 DEF Here
  <2>3. part' \in [Reqs -> [Parts -> PartType]]
    BY <1>11, <1>a, GotoMoves DEF AccessFile, ReadFile, StatFile, Lookup, Steps
  <2>4. PICK pc \in Steps, next \in Steps, content \in Bytes, answer \in Replies :
          Lookup(r, i, pc, next, content, answer)
    <3>1. data[r] \in Bytes /\ "none" \in Replies /\ "ok" \in Replies
      BY <1>a DEF Replies
    <3>2. QED BY <1>11, <2>2, <3>1 DEF AccessFile, ReadFile, StatFile, Steps
  <2>5. data' \in [Reqs -> Bytes]
    BY <1>a, <2>4 DEF Lookup
  <2>6. reply' \in [Reqs -> Replies]
    BY <1>a, <2>4 DEF Lookup, Replies
  <2>7. UNCHANGED <<disk, dirs, ever, always, job, todo, listed, kept>>
    BY <2>4 DEF Lookup
  <2>8. QED BY <1>a, <2>3, <2>5, <2>6, <2>7
<1>12. ASSUME NEW r \in Reqs, NEW i \in Parts, ReadDir(r, i) PROVE TypeOK'
  <2>1. Entries(disk, dirs, Folder(r)) \subseteq Everything
    BY <1>a, EntriesType
  <2>2. part' \in [Reqs -> [Parts -> PartType]]
    BY <1>12, <1>a, GotoMoves DEF ReadDir, Steps
  <2>3. QED BY <1>12, <1>a, <2>1, <2>2 DEF ReadDir
<1>13. ASSUME NEW r \in Reqs, NEW n \in Names \union Folders, StatEntry(r, n) PROVE TypeOK'
  <2>1. /\ todo[r] \ {n} \in SUBSET Everything /\ {} \in SUBSET Everything
        /\ listed[r] \union {n} \in SUBSET Everything
    BY <1>a DEF Everything
  <2>2. todo' \in [Reqs -> SUBSET Everything] /\ listed' \in [Reqs -> SUBSET Everything]
    <3>1. \E t \in SUBSET Everything : todo' = [todo EXCEPT ![r] = t]
      BY <1>13, <2>1 DEF StatEntry
    <3>2. listed' = listed \/ listed' = [listed EXCEPT ![r] = listed[r] \union {n}]
      BY <1>13 DEF StatEntry
    <3>3. QED BY <1>a, <2>1, <3>1, <3>2
  <2>3. reply' \in [Reqs -> Replies]
    BY <1>13, <1>a DEF StatEntry, Replies
  <2>4. UNCHANGED <<disk, dirs, ever, always, job, part, data, kept>>
    BY <1>13 DEF StatEntry
  <2>5. QED BY <1>a, <2>1, <2>2, <2>3, <2>4
<1>14. CASE UNCHANGED vars
  BY <1>14, <1>a DEF vars
<1>15. QED
  BY <1>1, <1>2, <1>3, <1>4, <1>5, <1>6, <1>7, <1>8, <1>9, <1>10, <1>11, <1>12, <1>13, <1>14
  DEF Next, PartStep

-----------------------------------------------------------------------------
(* What every step does to the tree and to what is remembered of it.          *)

\* A step that leaves the tree alone; it may answer an upload.
Still ==
  /\ UNCHANGED <<disk, dirs, batch, gone>>
  /\ told \subseteq told' /\ \A p \in told' : batch[p[2]] > 0
  /\ faults <= faults'

LEMMA StillSteps ==
  ASSUME IInv, TypeOK'
  PROVE  /\ Crash \/ UNCHANGED vars => Still
         /\ \A r \in Reqs :
              /\ Start(r) \/ Finish(r) \/ Answer(r) => Still
              /\ \A i \in Parts :
                   /\ WriteFails(r, i) \/ ReadDir(r, i) => Still
                   /\ AccessFile(r, i) \/ ReadFile(r, i) \/ StatFile(r, i) => Still
              /\ \A n \in Names \union Folders : StatEntry(r, n) => Still
<1> USE DEF Still, kept, SameTree
<1>a. (\A p \in told : batch[p[2]] > 0) /\ faults \in Nat
  BY StorageAssumption DEF IInv, TreeTidy, TypeOK
<1>1. Crash \/ UNCHANGED vars => Still
  BY <1>a DEF Crash, vars
<1>2. ASSUME NEW r \in Reqs, Start(r) \/ Finish(r) PROVE Still
  BY <1>a, <1>2 DEF Start, Arrive, Finish
<1>3. ASSUME NEW r \in Reqs, UploadAnswered(r) PROVE Still
  <2>1. ASSUME NEW i \in Files(job[r]) PROVE batch[part[r][i].name] > 0
    <3>1. job[r] \in Jobs /\ i \in Parts /\ part[r][i].pc = "done"
      BY <1>3 DEF UploadAnswered, Doing, IInv, TypeOK, Files
    <3>2. part[r][i].name # None
      BY <1>3, <3>1, NameAtWork, StorageAssumption DEF UploadAnswered, Doing
    <3>3. batch[part[r][i].name] = Cardinality(Files(job[r]))
      BY <1>3, <3>1, <3>2 DEF UploadAnswered, IInv, UploadFine
    <3>4. QED BY <3>1, <3>3, FilesCounted
  <2>2. \A p \in told' : p \in told \/ \E i \in Files(job[r]) : p[2] = part[r][i].name
    BY <1>3 DEF UploadAnswered, Path
  <2>3. UNCHANGED <<disk, dirs, batch, gone, faults>> /\ told \subseteq told'
    BY <1>3 DEF UploadAnswered, Reply
  <2>4. QED BY <1>a, <2>1, <2>2, <2>3
<1>4. ASSUME NEW r \in Reqs, Answer(r) PROVE Still
  BY <1>a, <1>3, <1>4 DEF Answer, UploadRefused, DeleteAnswered, ListAnswered, Reply
<1>5. ASSUME NEW r \in Reqs, NEW i \in Parts, WriteFails(r, i) \/ ReadDir(r, i) PROVE Still
  BY <1>a, <1>5 DEF WriteFails, ReadDir
<1>6. ASSUME NEW r \in Reqs, NEW i \in Parts,
             AccessFile(r, i) \/ ReadFile(r, i) \/ StatFile(r, i)
      PROVE  Still
  BY <1>a, <1>6 DEF AccessFile, ReadFile, StatFile, Lookup
<1>7. ASSUME NEW r \in Reqs, NEW n \in Names \union Folders, StatEntry(r, n) PROVE Still
  BY <1>a, <1>7 DEF StatEntry
<1>8. QED BY <1>1, <1>2, <1>4, <1>5, <1>6, <1>7

\* Nothing is forgotten; names in use are not used again; and a file is there, or
\* whole, until it is removed.
Onward ==
  /\ told \subseteq told' /\ gone \subseteq gone' /\ dirs \subseteq dirs' /\ faults <= faults'
  /\ \A n \in Used : batch'[n] = batch[n]
  /\ \A f \in Folders, n \in Names :
       /\ disk[f][n] # None => disk'[f][n] # None \/ Path(f, n) \in gone'
       /\ disk[f][n] = "whole" => disk'[f][n] = "whole" \/ Path(f, n) \in gone'

LEMMA OnDiskAt ==
  \A p : p \in OnDisk <=> \E f \in Folders, n \in Names : p = Path(f, n) /\ disk[f][n] # None
BY DEF OnDisk, Path

LEMMA TreeStep ==
  ASSUME IInv, TypeOK', [Next]_vars
  PROVE  TreeTidy' /\ Onward
<1> USE DEF kept
<1>a. TypeOK /\ TreeTidy
  BY DEF IInv
<1>b. faults \in Nat /\ \A n \in Names : batch[n] \in Nat
  BY <1>a, StorageAssumption DEF TypeOK
<1>c. \A f \in Folders, n \in Names : disk[f][n] # None =>
        f \in dirs /\ Path(f, n) \notin gone /\ batch[n] > 0
  BY <1>a, OnDiskAt DEF TreeTidy, Path
<1>d. ASSUME \A f \in Folders, n \in Names : disk'[f][n] # None =>
               f \in dirs' /\ Path(f, n) \notin gone' /\ batch'[n] > 0,
             \A p \in told' \union gone' : batch'[p[2]] > 0,
             dirs' # {} => Root \in dirs'
      PROVE  TreeTidy'
  BY <1>d DEF TreeTidy, OnDisk, Path
<1>1. ASSUME Still PROVE TreeTidy' /\ Onward
  <2>1. TreeTidy'
    BY <1>a, <1>1 DEF Still, TreeTidy, OnDisk
  <2>2. QED BY <1>1, <2>1 DEF Still, Onward
<1>2. ASSUME UNCHANGED <<told, batch, gone, faults>>, dirs \subseteq dirs', Root \in dirs',
             \A f \in Folders, n \in Names :
               /\ disk[f][n] # None => disk'[f][n] # None
               /\ disk[f][n] = None => disk'[f][n] = None
               /\ disk[f][n] = "whole" => disk'[f][n] = "whole"
      PROVE  TreeTidy' /\ Onward
  <2>1. TreeTidy'
    BY <1>a, <1>c, <1>d, <1>2 DEF TreeTidy
  <2>2. QED BY <1>2, <1>b, <2>1 DEF Onward
<1>3. CASE EnsureRoot
  BY <1>2, <1>3 DEF EnsureRoot, Tree
<1>4. ASSUME NEW r \in Reqs, NEW i \in Parts, EnsureFolder(r, i) PROVE TreeTidy' /\ Onward
  BY <1>2, <1>4 DEF EnsureFolder, Tree
<1>5. ASSUME NEW r \in Reqs, NEW i \in Parts, WriteEnds(r, i) PROVE TreeTidy' /\ Onward
  <2>1. part[r][i].name \in Names /\ Folder(r) \in Folders
    BY <1>5, NameAtWork DEF WriteEnds, At
  <2>2. CASE Here(r, i) = None
    <3>1. UNCHANGED <<disk, dirs, told, batch, gone, faults>>
      BY <1>5, <2>2 DEF WriteEnds, Tree
    <3>2. Still
      BY <1>a, <1>b, <3>1 DEF Still, TreeTidy
    <3>3. QED BY <1>1, <3>2
  <2>3. CASE Here(r, i) # None
    <3>1. /\ disk' = [disk EXCEPT ![Folder(r)][part[r][i].name] = "whole"]
          /\ UNCHANGED <<dirs, told, batch, gone, faults>>
      BY <1>5, <2>3 DEF WriteEnds, Tree
    <3>2. Root \in dirs
      BY <1>a, <1>c, <2>1, <2>3 DEF TreeTidy, Here
    <3>3. "whole" # None
      BY StorageAssumption DEF Content
    <3>4. \A f \in Folders, n \in Names :
            disk'[f][n] = IF f = Folder(r) /\ n = part[r][i].name THEN "whole" ELSE disk[f][n]
      BY <1>a, <2>1, <3>1 DEF TypeOK
    <3>5. QED BY <1>2, <2>3, <3>1, <3>2, <3>3, <3>4 DEF Here
  <2>4. QED BY <2>2, <2>3
<1>6. ASSUME NEW r \in Reqs, NEW i \in Parts, CreateFile(r, i) PROVE TreeTidy' /\ Onward
  <2>1. PICK n \in Names \ Used :
          /\ batch' = [batch EXCEPT ![n] = Cardinality(Files(job[r]))]
          /\ disk' = [disk EXCEPT ![Folder(r)][n] = "part"]
          /\ UNCHANGED <<dirs, told, gone, faults>>
    BY <1>6 DEF CreateFile, Tree
  <2>2. job[r] \in Jobs /\ Folder(r) \in Folders /\ Folder(r) \in dirs
    <3>1. job[r] \in Jobs
      BY <1>6, <1>a DEF CreateFile, At, TypeOK
    <3>2. part[r][i].pc = "create" /\ job[r].kind \in Kinds /\ Folder(r) \in Folders
      BY <1>6, <3>1, StorageAssumption DEF CreateFile, At, JobType, Folder
    <3>3. job[r].kind = "upload"
      BY <1>6, <3>2 DEF CreateFile, At, IInv, PartsRight, StepsOf, Kinds
    <3>4. QED BY <1>6, <3>1, <3>2, <3>3 DEF CreateFile, At, IInv, UploadFine, Doing
  <2>3. Cardinality(Files(job[r])) \in Nat /\ Cardinality(Files(job[r])) > 0
    BY <2>2, FilesCounted
  <2>4. batch[n] = 0 /\ \A m \in Names : batch'[m] > 0 <=> m = n \/ batch[m] > 0
    BY <1>a, <1>b, <2>1, <2>3 DEF Used, TypeOK
  <2>5. \A f \in Folders, m \in Names :
          disk'[f][m] = IF f = Folder(r) /\ m = n THEN "part" ELSE disk[f][m]
    BY <1>a, <2>1, <2>2 DEF TypeOK
  <2>6. Path(Folder(r), n) \notin gone
    BY <1>a, <2>4 DEF TreeTidy, Path
  <2>7. \A p \in told \union gone : p[2] \in Names
    BY <1>a DEF TypeOK, Paths
  <2>8. TreeTidy'
    <3>1. \A f \in Folders, m \in Names : disk'[f][m] # None =>
            f \in dirs' /\ Path(f, m) \notin gone' /\ batch'[m] > 0
      BY <1>c, <2>1, <2>2, <2>4, <2>5, <2>6
    <3>2. \A p \in told' \union gone' : batch'[p[2]] > 0
      BY <1>a, <2>1, <2>4, <2>7 DEF TreeTidy
    <3>3. QED BY <1>a, <1>d, <2>1, <3>1, <3>2 DEF TreeTidy
  <2>9. Onward
    <3>1. \A m \in Used : batch'[m] = batch[m]
      BY <1>a, <2>1 DEF TypeOK, Used
    <3>2. \A f \in Folders : disk[f][n] = None
      BY <1>c, <2>4
    <3>3. "part" # None
      BY StorageAssumption DEF Content
    <3>4. \A f \in Folders, m \in Names :
            /\ disk[f][m] # None => disk'[f][m] # None
            /\ disk[f][m] = "whole" => disk'[f][m] = "whole"
      <4>1. ASSUME NEW f \in Folders, NEW m \in Names, m # n PROVE disk'[f][m] = disk[f][m]
        BY <2>5, <4>1
      <4>2. ASSUME NEW f \in Folders PROVE disk[f][n] # "whole"
        BY <3>2, StorageAssumption DEF Content
      <4>3. QED BY <3>2, <4>1, <4>2
    <3>5. told' = told /\ gone' = gone /\ dirs' = dirs /\ faults <= faults'
      BY <1>b, <2>1
    <3>6. QED BY <3>1, <3>4, <3>5 DEF Onward
  <2>10. QED BY <2>8, <2>9
<1>7. ASSUME NEW r \in Reqs, NEW i \in Parts, Unlink(r, i) PROVE TreeTidy' /\ Onward
  <2> DEFINE name == part[r][i].name
  <2>1. name \in Names /\ Folder(r) \in Folders
    BY <1>7, NameAtWork DEF Unlink, At
  <2>2. /\ disk' = [disk EXCEPT ![Folder(r)][name] = None]
        /\ gone' = IF Here(r, i) = None THEN gone ELSE gone \union {Path(Folder(r), name)}
        /\ UNCHANGED <<dirs, told, batch, faults>>
    BY <1>7 DEF Unlink, Tree
  <2>3. \A f \in Folders, n \in Names :
          disk'[f][n] = IF f = Folder(r) /\ n = name THEN None ELSE disk[f][n]
    BY <1>a, <2>1, <2>2 DEF TypeOK
  <2>4. TreeTidy'
    <3>1. \A f \in Folders, n \in Names : disk'[f][n] # None =>
            f \in dirs' /\ Path(f, n) \notin gone' /\ batch'[n] > 0
      BY <1>c, <2>2, <2>3 DEF Path
    <3>2. \A p \in told' \union gone' : batch'[p[2]] > 0
      BY <1>a, <1>c, <2>1, <2>2 DEF TreeTidy, Path, Here
    <3>3. QED BY <1>a, <1>d, <2>2, <3>1, <3>2 DEF TreeTidy
  <2>5. Onward
    BY <1>b, <2>1, <2>2, <2>3 DEF Onward, Here
  <2>6. QED BY <2>4, <2>5
<1>8. QED
  BY <1>1, <1>3, <1>4, <1>5, <1>6, <1>7, StillSteps DEF Next, PartStep

-----------------------------------------------------------------------------
(* What the steps of one request do to the parts of it, and of the others.    *)

Same(s) ==
  /\ job'[s] = job[s] /\ part'[s] = part[s] /\ todo'[s] = todo[s] /\ listed'[s] = listed[s]
  /\ data'[s] = data[s] /\ reply'[s] = reply[s] /\ known'[s] = known[s]

StepOf(r) ==
  \/ Start(r) \/ Finish(r) \/ Answer(r)
  \/ \E i \in Parts : PartStep(r, i) \/ WriteFails(r, i)
  \/ \E n \in Names \union Folders : StatEntry(r, n)

LEMMA OthersSame ==
  ASSUME TypeOK, NEW r \in Reqs, StepOf(r), NEW s \in Reqs, s # r
  PROVE  Same(s)
<1> USE DEF Same, kept, TypeOK
<1>1. CASE Start(r)
  BY <1>1 DEF Start, Arrive
<1>2. CASE Finish(r)
  BY <1>2 DEF Finish
<1>3. CASE Answer(r)
  BY <1>3 DEF Answer, UploadAnswered, UploadRefused, DeleteAnswered, ListAnswered, Reply
<1>4. ASSUME NEW i \in Parts, PartStep(r, i) \/ WriteFails(r, i) PROVE Same(s)
  <2>1. part'[s] = part[s]
    BY <1>4 DEF PartStep, EnsureFolder, CreateFile, WriteEnds, Unlink, AccessFile, ReadFile,
                StatFile, ReadDir, WriteFails, Lookup, Goto
  <2>2. job'[s] = job[s] /\ todo'[s] = todo[s] /\ listed'[s] = listed[s]
    BY <1>4 DEF PartStep, EnsureFolder, CreateFile, WriteEnds, Unlink, AccessFile, ReadFile,
                StatFile, ReadDir, WriteFails, Lookup
  <2>3. data'[s] = data[s] /\ reply'[s] = reply[s] /\ known'[s] = known[s]
    BY <1>4 DEF PartStep, EnsureFolder, CreateFile, WriteEnds, Unlink, AccessFile, ReadFile,
                StatFile, ReadDir, WriteFails, Lookup
  <2>4. QED BY <2>1, <2>2, <2>3
<1>5. ASSUME NEW n \in Names \union Folders, StatEntry(r, n) PROVE Same(s)
  BY <1>5 DEF StatEntry
<1>6. QED BY <1>1, <1>2, <1>3, <1>4, <1>5 DEF StepOf

\* What PartsRight says of one request.
PartRight(j, x, i) ==
  /\ j = None => x = NoPart
  /\ j # None /\ x.pc # "idle" => x.pc \in StepsOf(j.kind) /\ i \in Files(j)
  /\ j # None /\ x.pc = "idle" => x.name = None
  /\ j # None /\ x.pc # "idle" /\ j.kind \in {"get", "info", "delete"} => x.name # None
RequestRight(s) ==
  /\ todo[s] # {} => Listing(s)
  /\ \A i \in Parts : PartRight(job[s], part[s][i], i)

LEMMA RightOfRequests == PartsRight <=> \A s \in Reqs : RequestRight(s)
BY DEF PartsRight, RequestRight, PartRight

\* The kind of the job whose part is at a step.
LEMMA KindAt ==
  ASSUME IInv, NEW r \in Reqs, NEW i \in Parts, job[r] # None
  PROVE  /\ job[r] \in Jobs /\ job[r] \in JobType
         /\ part[r][i].pc \in {"ensure", "create", "write"} => job[r].kind = "upload"
         /\ part[r][i].pc = "unlink" => job[r].kind = "delete"
         /\ part[r][i].pc \in {"access", "read"} => job[r].kind = "get"
         /\ part[r][i].pc = "stat" => job[r].kind \in {"get", "info"}
         /\ part[r][i].pc = "readdir" => job[r].kind = "list"
         /\ part[r][i].pc # "idle" => i \in Files(job[r])
<1>1. job[r] \in Jobs /\ job[r] \in JobType
  BY StorageAssumption DEF IInv, TypeOK
<1>2. job[r].kind \in Kinds
  BY <1>1 DEF JobType
<1>3. part[r][i].pc # "idle" => part[r][i].pc \in StepsOf(job[r].kind) /\ i \in Files(job[r])
  BY DEF IInv, PartsRight
<1>4. CASE job[r].kind = "upload"
  BY <1>1, <1>3, <1>4 DEF StepsOf
<1>5. CASE job[r].kind = "get"
  BY <1>1, <1>3, <1>5 DEF StepsOf
<1>6. CASE job[r].kind = "info"
  BY <1>1, <1>3, <1>6 DEF StepsOf
<1>7. CASE job[r].kind = "list"
  BY <1>1, <1>3, <1>7 DEF StepsOf
<1>8. CASE job[r].kind = "delete"
  BY <1>1, <1>3, <1>8 DEF StepsOf
<1>9. QED BY <1>2, <1>4, <1>5, <1>6, <1>7, <1>8 DEF Kinds

\* A part that goes on stays a part of its request.
LEMMA GotoRight ==
  ASSUME IInv, NEW r \in Reqs, NEW i \in Parts, NEW pc \in Steps \ {"idle"}, Goto(r, i, pc),
         job[r] # None, job' = job, part[r][i].pc # "idle", pc \in StepsOf(job[r].kind),
         todo'[r] # {} => Listing(r)
  PROVE  RequestRight(r)'
<1>1. RequestRight(r) /\ TypeOK
  BY RightOfRequests DEF IInv
<1>2. /\ part'[r][i].pc = pc /\ part'[r][i].name = part[r][i].name
      /\ \A k \in Parts \ {i} : part'[r][k] = part[r][k]
  BY <1>1, GotoMoves
<1>3. PartRight(job'[r], part'[r][i], i)
  BY <1>1, <1>2 DEF RequestRight, PartRight
<1>4. QED
  BY <1>1, <1>2, <1>3 DEF RequestRight, Listing, Doing

LEMMA StartRight ==
  ASSUME IInv, NEW r \in Reqs, Start(r)
  PROVE  RequestRight(r)'
<1> USE StorageAssumption
<1>a. TypeOK /\ RequestRight(r)
  BY RightOfRequests DEF IInv
<1>1. PICK j \in Jobs, name \in [Parts -> Names \union {None}] :
        /\ Arrive(r, j, name)
        /\ \A i \in Parts :
             name[i] = None <=> j.kind \in {"upload", "list"} \/ i \notin Files(j)
  BY DEF Start
<1>2. j \in JobType /\ j # None /\ job'[r] = j /\ todo'[r] = {}
  BY <1>1, <1>a DEF Arrive, TypeOK, RequestRight, Listing, Doing
<1>3. ASSUME NEW i \in Parts PROVE PartRight(j, part'[r][i], i)
  <2>1. CASE j.kind = "upload"
    <3>1. part'[r][i] = NoPart \/ part'[r][i] = Admitted(j, i)
      BY <1>1, <1>a, <2>1 DEF Arrive, TypeOK, NoParts
    <3>2. CASE part'[r][i] = NoPart
      BY <1>2, <3>2 DEF PartRight, NoPart
    <3>3. CASE part'[r][i] = Admitted(j, i) /\ j.file[i] \in {"ok", "type"}
      <4>1. part'[r][i].pc \in {"ensure", "failed"} /\ i \in Files(j)
        BY <3>3 DEF Admitted, Files
      <4>2. QED BY <1>2, <2>1, <4>1 DEF PartRight, StepsOf
    <3>4. CASE part'[r][i] = Admitted(j, i) /\ j.file[i] \notin {"ok", "type"}
      BY <1>2, <3>4 DEF Admitted, PartRight, NoPart
    <3>5. QED BY <3>1, <3>2, <3>3, <3>4
  <2>2. CASE j.kind # "upload"
    <3>1. part'[r][i] = IF i \in Files(j) THEN [pc |-> FirstStep(j.kind), name |-> name[i]]
                                          ELSE NoPart
      BY <1>1, <1>a, <2>2 DEF Arrive, TypeOK
    <3>2. CASE i \notin Files(j)
      BY <1>2, <3>1, <3>2 DEF PartRight, NoPart
    <3>3. CASE i \in Files(j)
      <4>1. j.kind \in {"get", "info", "list", "delete"}
        BY <1>2, <2>2 DEF JobType, Kinds
      <4>2. FirstStep(j.kind) \in StepsOf(j.kind) /\ FirstStep(j.kind) # "idle"
        BY <4>1 DEF FirstStep, StepsOf
      <4>3. j.kind # "list" => name[i] # None
        BY <1>1, <2>2, <3>3
      <4>4. QED BY <1>2, <3>1, <3>3, <4>2, <4>3 DEF PartRight
    <3>4. QED BY <3>2, <3>3
  <2>3. QED BY <2>1, <2>2
<1>4. QED BY <1>2, <1>3 DEF RequestRight

\* Every step keeps the parts of the requests right.
LEMMA PartsStep ==
  ASSUME IInv, TypeOK', [Next]_vars
  PROVE  PartsRight'
<1> USE DEF kept
<1>a. TypeOK /\ \A s \in Reqs : RequestRight(s)
  BY RightOfRequests DEF IInv
<1>b. ASSUME \A s \in Reqs : RequestRight(s)' PROVE PartsRight'
  BY <1>b DEF PartsRight, RequestRight, PartRight
<1>c. ASSUME NEW s \in Reqs, job'[s] = job[s], part'[s] = part[s],
             todo'[s] # {} => Listing(s)
      PROVE  RequestRight(s)'
  BY <1>a, <1>c DEF RequestRight, Listing, Doing
<1>d. ASSUME NEW s \in Reqs, part'[s] = NoParts, todo'[s] = {} PROVE RequestRight(s)'
  BY <1>d DEF RequestRight, PartRight, NoParts, NoPart
<1>1. CASE EnsureRoot \/ UNCHANGED vars
  BY <1>a, <1>b, <1>c, <1>1 DEF EnsureRoot, vars, RequestRight
<1>2. CASE Crash
  BY <1>b, <1>d, <1>2 DEF Crash
<1>3. ASSUME NEW r \in Reqs, StepOf(r) PROVE PartsRight'
  <2>1. ASSUME Start(r) PROVE RequestRight(r)'
    BY <2>1, StartRight
  <2>2. ASSUME Finish(r) PROVE RequestRight(r)'
    BY <1>a, <1>d, <2>2 DEF Finish, TypeOK
  <2>3. ASSUME Answer(r) PROVE RequestRight(r)'
    <3>1. UNCHANGED <<job, part, todo>>
      BY <2>3 DEF Answer, UploadAnswered, UploadRefused, DeleteAnswered, ListAnswered, Reply
    <3>2. QED BY <1>a, <1>c, <3>1 DEF RequestRight
  <2>4. ASSUME NEW i \in Parts, CreateFile(r, i) PROVE RequestRight(r)'
    <3>1. PICK n \in Names : part' = [part EXCEPT ![r][i] = [pc |-> "write", name |-> n]]
      BY <2>4 DEF CreateFile
    <3>2. job[r] # None /\ job[r].kind = "upload" /\ i \in Files(job[r]) /\ UNCHANGED <<job, todo>>
      BY <2>4, KindAt DEF CreateFile, At
    <3>3. PartRight(job'[r], part'[r][i], i)
      BY <1>a, <3>1, <3>2 DEF TypeOK, PartRight, StepsOf
    <3>4. \A k \in Parts \ {i} : part'[r][k] = part[r][k]
      BY <1>a, <3>1 DEF TypeOK
    <3>5. QED BY <1>a, <3>2, <3>3, <3>4 DEF RequestRight, Listing, Doing
  <2>5. ASSUME NEW i \in Parts, EnsureFolder(r, i) \/ WriteEnds(r, i) \/ WriteFails(r, i)
        PROVE  RequestRight(r)'
    <3>1. /\ job[r] # None /\ part[r][i].pc \in {"ensure", "write"} /\ UNCHANGED <<job, todo>>
          /\ \E pc \in {"create", "done", "failed"} : Goto(r, i, pc)
      BY <2>5 DEF EnsureFolder, WriteEnds, WriteFails, At
    <3>2. job[r].kind = "upload"
      BY <3>1, KindAt
    <3>3. {"create", "done", "failed"} \subseteq StepsOf(job[r].kind) \intersect (Steps \ {"idle"})
      BY <3>2 DEF StepsOf, Steps
    <3>4. QED BY <1>a, <3>1, <3>3, GotoRight DEF RequestRight
  <2>6. ASSUME NEW i \in Parts, Unlink(r, i) PROVE RequestRight(r)'
    <3>1. /\ job[r] # None /\ part[r][i].pc = "unlink" /\ UNCHANGED <<job, todo>>
          /\ \E pc \in {"done", "failed"} : Goto(r, i, pc)
      BY <2>6 DEF Unlink, At
    <3>2. job[r].kind = "delete"
      BY <3>1, KindAt
    <3>3. {"done", "failed"} \subseteq StepsOf(job[r].kind) \intersect (Steps \ {"idle"})
      BY <3>2 DEF StepsOf, Steps
    <3>4. QED BY <1>a, <3>1, <3>3, GotoRight DEF RequestRight
  <2>7. ASSUME NEW i \in Parts, AccessFile(r, i) \/ ReadFile(r, i) \/ StatFile(r, i)
        PROVE  RequestRight(r)'
    <3>1. /\ job[r] # None /\ UNCHANGED <<job, todo>>
          /\ \/ part[r][i].pc = "access" /\ \E pc \in {"read", "failed"} : Goto(r, i, pc)
             \/ part[r][i].pc = "read" /\ \E pc \in {"stat", "failed"} : Goto(r, i, pc)
             \/ part[r][i].pc = "stat" /\ \E pc \in {"done", "failed"} : Goto(r, i, pc)
      BY <2>7 DEF AccessFile, ReadFile, StatFile, Lookup, At
    <3>2. CASE part[r][i].pc \in {"access", "read"}
      <4>1. job[r].kind = "get"
        BY <3>1, <3>2, KindAt
      <4>2. {"read", "stat", "failed"} \subseteq StepsOf(job[r].kind) \intersect (Steps \ {"idle"})
        BY <4>1 DEF StepsOf, Steps
      <4>3. QED BY <1>a, <3>1, <3>2, <4>2, GotoRight DEF RequestRight
    <3>3. CASE part[r][i].pc = "stat"
      <4>1. job[r].kind \in {"get", "info"}
        BY <3>1, <3>3, KindAt
      <4>2. {"done", "failed"} \subseteq StepsOf(job[r].kind) \intersect (Steps \ {"idle"})
        BY <4>1 DEF StepsOf, Steps
      <4>3. QED BY <1>a, <3>1, <3>3, <4>2, GotoRight DEF RequestRight
    <3>4. QED BY <3>1, <3>2, <3>3
  <2>8. ASSUME NEW i \in Parts, ReadDir(r, i) PROVE RequestRight(r)'
    <3>1. job[r] # None /\ part[r][i].pc = "readdir" /\ Goto(r, i, "done") /\ job' = job
      BY <2>8 DEF ReadDir, At
    <3>2. job[r].kind = "list"
      BY <3>1, KindAt
    <3>3. "done" \in StepsOf(job[r].kind) /\ "done" \in Steps \ {"idle"}
      BY <3>2 DEF StepsOf, Steps
    <3>4. QED BY <3>1, <3>2, <3>3, GotoRight DEF Listing, Doing
  <2>9. ASSUME NEW n \in Names \union Folders, StatEntry(r, n) PROVE RequestRight(r)'
    <3>1. job'[r] = job[r] /\ part'[r] = part[r] /\ todo[r] # {}
      BY <2>9 DEF StatEntry
    <3>2. QED BY <1>a, <1>c, <3>1 DEF RequestRight
  <2>10. RequestRight(r)'
    BY <1>3, <2>1, <2>2, <2>3, <2>4, <2>5, <2>6, <2>7, <2>8, <2>9 DEF StepOf, PartStep
  <2>11. ASSUME NEW s \in Reqs, s # r PROVE RequestRight(s)'
    <3>1. Same(s)
      BY <1>a, <1>3, <2>11, OthersSame
    <3>2. QED BY <1>a, <1>c, <3>1 DEF Same, RequestRight
  <2>12. QED BY <1>b, <2>10, <2>11
<1>4. QED
  BY <1>1, <1>2, <1>3 DEF Next, StepOf

-----------------------------------------------------------------------------
(* Uploads.                                                                   *)

\* A part of an upload that does not move keeps what is known of it.
LEMMA UploadKept ==
  ASSUME IInv, TypeOK', Onward, NEW r \in Reqs, NEW i \in Parts,
         job'[r] = job[r], part'[r][i] = part[r][i],
         Doing(r, "upload") /\ reply'[r] # "none" /\ part[r][i].pc \in {"ensure", "create", "write"} =>
           reply[r] # "none" \/ Cardinality(Files(job[r])) > 1
  PROVE  UploadFine(r, i)'
<1> SUFFICES ASSUME Doing(r, "upload") PROVE UploadFine(r, i)'
  BY DEF UploadFine, Doing
<1> DEFINE x == part[r][i]
<1>1. UploadFine(r, i) /\ TypeOK
  BY DEF IInv
<1>2. job[r] \in Jobs /\ job[r] \in JobType
  BY StorageAssumption, <1>1 DEF Doing, TypeOK
<1>3. Folder(r) \in Folders /\ Folder(r)' = Folder(r) /\ x \in PartType
  BY <1>1, <1>2 DEF Folder, JobType, TypeOK
<1>4. x.name # None => x.name \in Used
  <2>1. x.name # None => x.name \in Names /\ batch[x.name] = Cardinality(Files(job[r]))
    BY <1>1, <1>3 DEF UploadFine, PartType
  <2>2. QED BY <1>2, <2>1, FilesCounted DEF Used
<1>5. x.name # None => batch'[x.name] = batch[x.name] /\ x.name \in Names
  BY <1>4 DEF Onward, Used
<1>6. faults > 0 => faults' > 0
  BY <1>1, StorageAssumption DEF Onward, TypeOK
<1>7. x.name # None =>
        /\ Here(r, i) # None => Here(r, i)' # None \/ PathOf(r, i) \in gone'
        /\ Here(r, i) = "whole" => Here(r, i)' = "whole" \/ PathOf(r, i) \in gone'
  BY <1>3, <1>5 DEF Onward, Here, PathOf
<1>8. PathOf(r, i)' = PathOf(r, i) /\ gone \subseteq gone' /\ dirs \subseteq dirs'
  BY <1>3 DEF PathOf, Path, Onward
<1>9. QED
  BY <1>1, <1>3, <1>5, <1>6, <1>7, <1>8 DEF UploadFine, Doing

\* A part that belongs to no upload has nothing to keep.
LEMMA NoUpload ==
  ASSUME NEW r \in Reqs, NEW i \in Parts, ~Doing(r, "upload")'
  PROVE  UploadFine(r, i)'
BY DEF UploadFine

LEMMA StartUpload ==
  ASSUME IInv, NEW r \in Reqs, NEW i \in Parts, Start(r)
  PROVE  UploadFine(r, i)'
<1> USE StorageAssumption
<1>a. TypeOK
  BY DEF IInv
<1>1. PICK j \in Jobs, name \in [Parts -> Names \union {None}] : Arrive(r, j, name)
  BY DEF Start
<1>2. job'[r] = j
  BY <1>1, <1>a DEF Arrive, TypeOK
<1>3. CASE j.kind # "upload"
  BY <1>2, <1>3, NoUpload DEF Doing
<1>4. CASE j.kind = "upload" /\ TooLarge(j)
  <2>1. part'[r][i] = NoPart
    BY <1>1, <1>4, <1>a DEF Arrive, TypeOK, NoParts
  <2>2. QED BY <2>1 DEF UploadFine, NoPart
<1>5. CASE j.kind = "upload" /\ ~TooLarge(j)
  <2>1. part'[r][i] = Admitted(j, i) /\ reply'[r] = "none"
    BY <1>1, <1>5, <1>a DEF Arrive, TypeOK
  <2>2. part'[r][i].name = None /\ part'[r][i].pc \in {"ensure", "failed", "idle"}
    BY <2>1 DEF Admitted, NoPart
  <2>3. QED BY <2>1, <2>2 DEF UploadFine
<1>6. QED BY <1>3, <1>4, <1>5

LEMMA AnswerUpload ==
  ASSUME IInv, TypeOK', Onward, NEW r \in Reqs, NEW i \in Parts, Answer(r)
  PROVE  UploadFine(r, i)'
<1>1. UNCHANGED <<job, part>>
  BY DEF Answer, UploadAnswered, UploadRefused, DeleteAnswered, ListAnswered, Reply
<1>2. ASSUME Doing(r, "upload"), part[r][i].pc \in {"ensure", "create", "write"}
      PROVE  Cardinality(Files(job[r])) > 1
  <2>1. job[r] \in Jobs /\ i \in Files(job[r])
    BY <1>2, KindAt DEF Doing
  <2>2. UploadRefused(r)
    BY <1>2, <2>1 DEF Answer, UploadAnswered, DeleteAnswered, ListAnswered, Listing, Doing
  <2>3. PICK k \in Files(job[r]) : part[r][k].pc = "failed"
    BY <2>2 DEF UploadRefused
  <2>4. QED BY <1>2, <2>1, <2>3, TwoFilesCounted
<1>3. QED BY <1>1, <1>2, UploadKept

LEMMA UploadMoves ==
  ASSUME IInv, TypeOK', Onward, NEW r \in Reqs, NEW i \in Parts,
         EnsureFolder(r, i) \/ CreateFile(r, i) \/ WriteEnds(r, i) \/ WriteFails(r, i)
  PROVE  UploadFine(r, i)'
<1>a. TypeOK /\ UploadFine(r, i)
  BY DEF IInv
<1>b. /\ job[r] # None /\ job' = job /\ reply' = reply
      /\ part[r][i].pc \in {"ensure", "create", "write"}
  BY DEF EnsureFolder, CreateFile, WriteEnds, WriteFails, At, kept
<1>c. job[r] \in Jobs /\ Doing(r, "upload") /\ Folder(r)' = Folder(r)
  BY <1>b, KindAt DEF Doing, Folder
<1>d. Folder(r) \in Folders
  BY <1>c, StorageAssumption DEF Folder, JobType
<1>e. reply[r] # "none" => Cardinality(Files(job[r])) > 1
  BY <1>a, <1>b, <1>c DEF UploadFine
<1>1. CASE EnsureFolder(r, i)
  <2>1. part'[r][i].pc = "create" /\ part'[r][i].name = part[r][i].name
    BY <1>1, <1>a, GotoMoves DEF EnsureFolder, Steps
  <2>2. part[r][i].name = None
    BY <1>1, <1>a, <1>c DEF EnsureFolder, At, UploadFine
  <2>3. Folder(r) \in dirs'
    BY <1>1 DEF EnsureFolder, Tree
  <2>4. QED BY <1>b, <1>c, <1>e, <2>1, <2>2, <2>3 DEF UploadFine
<1>2. CASE CreateFile(r, i)
  <2>1. PICK n \in Names \ Used :
          /\ part' = [part EXCEPT ![r][i] = [pc |-> "write", name |-> n]]
          /\ batch' = [batch EXCEPT ![n] = Cardinality(Files(job[r]))]
          /\ disk' = [disk EXCEPT ![Folder(r)][n] = "part"]
          /\ dirs' = dirs
    BY <1>2 DEF CreateFile, Tree
  <2>2. part'[r][i] = [pc |-> "write", name |-> n]
    BY <1>a, <2>1 DEF TypeOK
  <2>3. batch'[n] = Cardinality(Files(job[r]))
    BY <1>a, <2>1 DEF TypeOK
  <2>4. Here(r, i)' = "part"
    BY <1>a, <1>c, <1>d, <2>1, <2>2 DEF TypeOK, Here
  <2>5. "part" # None /\ n # None
    BY StorageAssumption DEF Content
  <2>6. Folder(r) \in dirs
    BY <1>2, <1>a, <1>c DEF CreateFile, At, UploadFine
  <2>7. QED BY <1>b, <1>c, <1>e, <2>1, <2>2, <2>3, <2>4, <2>5, <2>6 DEF UploadFine
<1>3. CASE WriteEnds(r, i)
  <2> DEFINE n == part[r][i].name
  <2>1. part'[r][i].pc = "done" /\ part'[r][i].name = n
    BY <1>3, <1>a, GotoMoves DEF WriteEnds, Steps
  <2>2. n # None /\ n \in Names /\ batch[n] = Cardinality(Files(job[r]))
    BY <1>3, <1>a, <1>b, <1>c, NameAtWork, StorageAssumption DEF WriteEnds, At, UploadFine
  <2>3. batch'[n] = batch[n] /\ PathOf(r, i)' = PathOf(r, i) /\ gone' = gone
    BY <1>3, <1>c, <2>1 DEF WriteEnds, kept, PathOf
  <2>4. Here(r, i)' = "whole" \/ PathOf(r, i) \in gone'
    <3>1. CASE Here(r, i) = None
      BY <1>3, <1>a, <1>c, <2>3, <3>1 DEF WriteEnds, At, UploadFine
    <3>2. CASE Here(r, i) # None
      <4>1. disk' = [disk EXCEPT ![Folder(r)][n] = "whole"]
        BY <1>3, <3>2 DEF WriteEnds, Tree
      <4>2. QED BY <1>a, <1>c, <1>d, <2>1, <2>2, <4>1 DEF TypeOK, Here
    <3>3. QED BY <3>1, <3>2
  <2>5. QED BY <1>b, <1>c, <2>1, <2>2, <2>3, <2>4 DEF UploadFine
<1>4. CASE WriteFails(r, i)
  <2>1. part'[r][i].pc = "failed" /\ part'[r][i].name = part[r][i].name
    BY <1>4, <1>a, GotoMoves DEF WriteFails, Steps
  <2>2. faults' > 0 /\ batch' = batch
    BY <1>4, <1>a, StorageAssumption DEF WriteFails, TypeOK
  <2>3. part[r][i].name # None => batch[part[r][i].name] = Cardinality(Files(job[r]))
    BY <1>a, <1>c DEF UploadFine
  <2>4. QED BY <1>b, <1>c, <2>1, <2>2, <2>3 DEF UploadFine
<1>5. QED BY <1>1, <1>2, <1>3, <1>4

\* Every step keeps what is known of the uploads.
LEMMA UploadsStep ==
  ASSUME IInv, TypeOK', Onward, [Next]_vars, NEW s \in Reqs, NEW i \in Parts
  PROVE  UploadFine(s, i)'
<1> USE DEF kept
<1>1. CASE EnsureRoot \/ UNCHANGED vars
  BY <1>1, UploadKept DEF EnsureRoot, vars
<1>2. CASE Crash
  BY <1>2, NoUpload DEF Crash, Doing
<1>3. ASSUME NEW r \in Reqs, StepOf(r), r # s PROVE UploadFine(s, i)'
  <2>1. Same(s)
    BY <1>3, OthersSame DEF IInv
  <2>2. QED BY <2>1, UploadKept DEF Same
<1>4. CASE Start(s)
  BY <1>4, StartUpload
<1>5. CASE Finish(s)
  BY <1>5, NoUpload DEF Finish, Doing, IInv, TypeOK
<1>6. CASE Answer(s)
  BY <1>6, AnswerUpload
<1>7. ASSUME NEW k \in Parts,
             EnsureFolder(s, k) \/ CreateFile(s, k) \/ WriteEnds(s, k) \/ WriteFails(s, k)
      PROVE  UploadFine(s, i)'
  <2>1. CASE k = i
    BY <1>7, <2>1, UploadMoves
  <2>2. CASE k # i
    <3>1. part'[s][i] = part[s][i]
      <4>1. CASE CreateFile(s, k)
        BY <2>2, <4>1 DEF CreateFile, IInv, TypeOK
      <4>2. CASE EnsureFolder(s, k) \/ WriteEnds(s, k) \/ WriteFails(s, k)
        <5>1. \E pc \in Steps : Goto(s, k, pc)
          BY <4>2 DEF EnsureFolder, WriteEnds, WriteFails, Steps
        <5>2. QED BY <2>2, <5>1, GotoMoves DEF IInv
      <4>3. QED BY <1>7, <4>1, <4>2
    <3>2. job' = job /\ reply' = reply
      BY <1>7 DEF EnsureFolder, CreateFile, WriteEnds, WriteFails
    <3>3. QED BY <3>1, <3>2, UploadKept
  <2>3. QED BY <2>1, <2>2
<1>8. ASSUME NEW k \in Parts,
             Unlink(s, k) \/ AccessFile(s, k) \/ ReadFile(s, k) \/ StatFile(s, k) \/ ReadDir(s, k)
      PROVE  UploadFine(s, i)'
  <2>1. /\ job[s] # None /\ job' = job
        /\ part[s][k].pc \in {"unlink", "access", "read", "stat", "readdir"}
    BY <1>8 DEF Unlink, AccessFile, ReadFile, StatFile, ReadDir, Lookup, At
  <2>2. job[s].kind # "upload"
    BY <2>1, KindAt
  <2>3. QED BY <2>1, <2>2, NoUpload DEF Doing
<1>9. ASSUME NEW n \in Names \union Folders, StatEntry(s, n) PROVE UploadFine(s, i)'
  <2>1. job' = job /\ Listing(s)
    BY <1>9 DEF StatEntry, IInv, PartsRight
  <2>2. QED BY <2>1, NoUpload DEF Listing, Doing
<1>10. QED
  BY <1>1, <1>2, <1>3, <1>4, <1>5, <1>6, <1>7, <1>8, <1>9 DEF Next, StepOf, PartStep

-----------------------------------------------------------------------------
(* Downloads.                                                                 *)

\* A download has one file.
LEMMA OneFileToGet ==
  ASSUME NEW j \in Jobs, j.kind \in {"get", "info", "list"},
         NEW i \in Files(j), NEW k \in Files(j)
  PROVE  i = k
BY StorageAssumption DEF Files

LEMMA DownloadKept ==
  ASSUME IInv, TypeOK', Onward, NEW r \in Reqs, job'[r] = job[r], part'[r] = part[r],
         data'[r] = data[r], known'[r] = known[r],
         Doing(r, "get") => reply'[r] = reply[r]
  PROVE  DownloadFine(r)'
<1>1. DownloadFine(r)
  BY DEF IInv
<1>2. \A i \in Parts : PathOf(r, i)' = PathOf(r, i)
  BY DEF PathOf, Folder
<1>3. gone \subseteq gone'
  BY DEF Onward
<1>4. QED BY <1>1, <1>2, <1>3 DEF DownloadFine, Doing, Files

\* A known file is whole for who reads it, and gone for who misses it.
LEMMA KnownFile ==
  ASSUME IInv, NEW p \in told
  PROVE  /\ disk[p[1]][p[2]] # None => disk[p[1]][p[2]] = "whole"
         /\ disk[p[1]][p[2]] = None => p \in gone
<1>1. p \in Paths /\ (disk[p[1]][p[2]] = "whole" \/ p \in gone)
  BY DEF IInv, TypeOK, StoredUntilRemoved
<1>2. disk[p[1]][p[2]] # None => p \notin gone
  BY <1>1 DEF IInv, TreeTidy, OnDisk, Paths
<1>3. "whole" # None
  BY StorageAssumption DEF Content
<1>4. QED BY <1>1, <1>2, <1>3

LEMMA LookupStep ==
  ASSUME IInv, TypeOK', NEW r \in Reqs, NEW i \in Parts,
         AccessFile(r, i) \/ ReadFile(r, i) \/ StatFile(r, i)
  PROVE  DownloadFine(r)'
<1>a. TypeOK /\ DownloadFine(r) /\ known[r] \subseteq told
  BY DEF IInv
<1>b. /\ job[r] # None /\ UNCHANGED <<job, told, known, gone>>
      /\ part[r][i].pc \in {"access", "read", "stat"}
  BY DEF AccessFile, ReadFile, StatFile, Lookup, At, kept
<1>c. job[r] \in Jobs /\ job[r].kind \in {"get", "info"} /\ i \in Files(job[r])
  BY <1>b, KindAt
<1> SUFFICES ASSUME NEW k \in Files(job[r])
             PROVE  /\ reply'[r] = "ok" => part'[r][k].pc = "done"
                    /\ PathOf(r, k)' \in known'[r] =>
                         /\ part'[r][k].pc \in {"stat", "done"} /\ job[r].kind = "get" =>
                              data'[r] = "whole"
                         /\ reply'[r] = "missing" => PathOf(r, k)' \in gone'
  BY <1>b DEF DownloadFine, Doing
<1>1. k = i
  BY <1>c, OneFileToGet
<1>2. \E pc \in Steps : Goto(r, i, pc)
  BY DEF AccessFile, ReadFile, StatFile, Lookup, Steps
<1>3. part'[r][i].name = part[r][i].name /\ PathOf(r, i)' = PathOf(r, i)
  BY <1>2, <1>a, <1>b, GotoMoves DEF PathOf, Folder
<1>4. PathOf(r, i) \in known[r] =>
        /\ Here(r, i) # None => Here(r, i) = "whole"
        /\ Here(r, i) = None => PathOf(r, i) \in gone
  BY <1>a, KnownFile DEF PathOf, Path, Here
<1>5. CASE Here(r, i) = None
  <2>1. reply'[r] = "missing" /\ Goto(r, i, "failed")
    BY <1>5, <1>a DEF AccessFile, ReadFile, StatFile, Lookup, TypeOK
  <2>2. part'[r][i].pc = "failed"
    BY <1>a, <2>1, GotoMoves DEF Steps
  <2>3. QED BY <1>1, <1>b, <1>3, <1>4, <1>5, <2>1, <2>2
<1>6. CASE Here(r, i) # None
  <2>1. CASE AccessFile(r, i)
    <3>1. reply'[r] = "none" /\ Goto(r, i, "read")
      BY <1>6, <2>1, <1>a DEF AccessFile, Lookup, TypeOK
    <3>2. part'[r][i].pc = "read"
      BY <1>a, <3>1, GotoMoves DEF Steps
    <3>3. QED BY <1>1, <3>1, <3>2
  <2>2. CASE ReadFile(r, i)
    <3>1. reply'[r] = "none" /\ data'[r] = Here(r, i)
      BY <1>6, <2>2, <1>a DEF ReadFile, Lookup, TypeOK
    <3>2. QED BY <1>1, <1>b, <1>3, <1>4, <1>6, <3>1
  <2>3. CASE StatFile(r, i)
    <3>1. reply'[r] = "ok" /\ data'[r] = data[r] /\ Goto(r, i, "done") /\ part[r][i].pc = "stat"
      BY <1>6, <2>3, <1>a DEF StatFile, Lookup, At, TypeOK
    <3>2. part'[r][i].pc = "done"
      BY <1>a, <3>1, GotoMoves DEF Steps
    <3>3. job[r].kind = "get" /\ PathOf(r, i) \in known[r] => data[r] = "whole"
      BY <1>a, <1>b, <1>c, <3>1 DEF DownloadFine, Doing
    <3>4. QED BY <1>1, <1>b, <1>3, <3>1, <3>2, <3>3
  <2>4. QED BY <2>1, <2>2, <2>3
<1>7. QED BY <1>5, <1>6

LEMMA StartDownload ==
  ASSUME IInv, TypeOK', NEW r \in Reqs, Start(r)
  PROVE  DownloadFine(r)' /\ known'[r] \subseteq told
<1> USE StorageAssumption
<1>a. TypeOK
  BY DEF IInv
<1>1. PICK j \in Jobs, name \in [Parts -> Names \union {None}] : Arrive(r, j, name)
  BY DEF Start
<1>2. job'[r] = j
  BY <1>1, <1>a DEF Arrive, TypeOK
<1>3. known'[r] \subseteq told
  BY <1>1, <1>a DEF Arrive, TypeOK
<1>4. CASE j.kind = "get"
  <2>1. reply'[r] = "none"
    BY <1>1, <1>4, <1>a DEF Arrive, TypeOK
  <2>2. \A i \in Files(j) : part'[r][i].pc = "access"
    BY <1>1, <1>4, <1>a DEF Arrive, TypeOK, FirstStep, Files
  <2>3. QED BY <1>2, <1>3, <2>1, <2>2 DEF DownloadFine
<1>5. CASE j.kind # "get"
  BY <1>2, <1>3, <1>5 DEF DownloadFine, Doing
<1>6. QED BY <1>4, <1>5

\* Every step keeps what is known of the downloads.
LEMMA DownloadsStep ==
  ASSUME IInv, TypeOK', Onward, [Next]_vars, NEW s \in Reqs
  PROVE  DownloadFine(s)' /\ known'[s] \subseteq told'
<1> USE DEF kept
<1>a. TypeOK /\ known[s] \subseteq told
  BY DEF IInv
<1>b. told \subseteq told'
  BY DEF Onward
<1>1. CASE EnsureRoot \/ UNCHANGED vars
  BY <1>1, <1>a, DownloadKept DEF EnsureRoot, vars
<1>2. CASE Crash
  BY <1>2 DEF Crash, DownloadFine, Doing
<1>3. ASSUME NEW r \in Reqs, StepOf(r), r # s PROVE DownloadFine(s)' /\ known'[s] \subseteq told'
  <2>1. Same(s)
    BY <1>3, <1>a, OthersSame
  <2>2. QED BY <1>a, <1>b, <2>1, DownloadKept DEF Same
<1>4. CASE Start(s)
  BY <1>4, <1>b, StartDownload
<1>5. CASE Finish(s)
  BY <1>5, <1>a DEF Finish, TypeOK, DownloadFine, Doing
<1>6. CASE Answer(s)
  <2>1. UNCHANGED <<job, part, data, known>> /\ ~Doing(s, "get")
    BY <1>6 DEF Answer, UploadAnswered, UploadRefused, DeleteAnswered, ListAnswered, Reply,
                Listing, Doing
  <2>2. QED BY <1>a, <1>b, <2>1, DownloadKept
<1>7. ASSUME NEW k \in Parts,
             \/ EnsureFolder(s, k) \/ CreateFile(s, k) \/ WriteEnds(s, k) \/ WriteFails(s, k)
             \/ Unlink(s, k) \/ ReadDir(s, k)
      PROVE  DownloadFine(s)' /\ known'[s] \subseteq told'
  <2>1. /\ job[s] # None /\ job' = job /\ known' = known
        /\ part[s][k].pc \in {"ensure", "create", "write", "unlink", "readdir"}
    BY <1>7 DEF EnsureFolder, CreateFile, WriteEnds, WriteFails, Unlink, ReadDir, At
  <2>2. job[s].kind # "get"
    BY <2>1, KindAt
  <2>3. QED BY <1>a, <1>b, <2>1, <2>2 DEF DownloadFine, Doing
<1>8. ASSUME NEW k \in Parts, AccessFile(s, k) \/ ReadFile(s, k) \/ StatFile(s, k)
      PROVE  DownloadFine(s)' /\ known'[s] \subseteq told'
  <2>1. UNCHANGED <<told, known>>
    BY <1>8 DEF AccessFile, ReadFile, StatFile, Lookup
  <2>2. QED BY <1>8, <1>a, <2>1, LookupStep
<1>9. ASSUME NEW n \in Names \union Folders, StatEntry(s, n)
      PROVE  DownloadFine(s)' /\ known'[s] \subseteq told'
  <2>1. UNCHANGED <<job, part, data, known>> /\ Listing(s)
    BY <1>9 DEF StatEntry, IInv, PartsRight
  <2>2. QED BY <1>a, <1>b, <2>1, DownloadKept DEF Listing, Doing
<1>10. QED
  BY <1>1, <1>2, <1>3, <1>4, <1>5, <1>6, <1>7, <1>8, <1>9 DEF Next, StepOf, PartStep

-----------------------------------------------------------------------------
(* Listings.                                                                  *)

\* How a step changes the tree under the listing s: not at all, or as Tree says.
TreeUnder(s) ==
  \/ UNCHANGED <<disk, dirs>> /\ ever'[s] = ever[s] /\ always'[s] = always[s]
  \/ Tree(disk', dirs')

LEMMA TreeSteps ==
  ASSUME TypeOK, NEW s \in Reqs
  PROVE  /\ EnsureRoot \/ UNCHANGED vars => TreeUnder(s)
         /\ \A r \in Reqs \ {s} : StepOf(r) => TreeUnder(s)
         /\ StepOf(s) /\ ~Start(s) /\ ~Finish(s) => TreeUnder(s)
<1> USE DEF TreeUnder, SameTree
<1>1. EnsureRoot \/ UNCHANGED vars => TreeUnder(s)
  BY DEF EnsureRoot, Tree, vars
<1>2. ASSUME NEW r \in Reqs, Start(r) \/ Finish(r), r # s PROVE TreeUnder(s)
  BY <1>2 DEF Start, Arrive, Finish, TypeOK
<1>3. ASSUME NEW r \in Reqs, Answer(r) PROVE TreeUnder(s)
  BY <1>3 DEF Answer, UploadAnswered, UploadRefused, DeleteAnswered, ListAnswered, Reply
<1>4. ASSUME NEW r \in Reqs, NEW i \in Parts,
             EnsureFolder(r, i) \/ CreateFile(r, i) \/ WriteEnds(r, i) \/ Unlink(r, i)
      PROVE  TreeUnder(s)
  <2>1. \E d, ds : Tree(d, ds)
    BY <1>4 DEF EnsureFolder, CreateFile, WriteEnds, Unlink
  <2>2. QED BY <2>1 DEF Tree
<1>5. ASSUME NEW r \in Reqs, NEW i \in Parts,
             \/ AccessFile(r, i) \/ ReadFile(r, i) \/ StatFile(r, i)
             \/ ReadDir(r, i) \/ WriteFails(r, i)
      PROVE  TreeUnder(s)
  BY <1>5 DEF AccessFile, ReadFile, StatFile, ReadDir, WriteFails, Lookup
<1>6. ASSUME NEW r \in Reqs, NEW n \in Names \union Folders, StatEntry(r, n) PROVE TreeUnder(s)
  BY <1>6 DEF StatEntry
<1>7. QED BY <1>1, <1>2, <1>3, <1>4, <1>5, <1>6 DEF StepOf, PartStep

\* What a listing remembers of the tree stays true of it.
LEMMA ListingRemembers ==
  ASSUME IInv, TypeOK', Onward, NEW s \in Reqs, Listing(s), job'[s] = job[s], TreeUnder(s)
  PROVE  /\ always'[s] \subseteq always[s] /\ ever[s] \subseteq ever'[s]
         /\ always'[s] \subseteq Entries(disk', dirs', Folder(s))
         /\ Entries(disk', dirs', Folder(s)) \subseteq ever'[s]
         /\ \A n \in ever'[s] :
              n \in Entries(disk', dirs', Folder(s)) \/ Path(Folder(s), n) \in gone'
<1> DEFINE E == Entries(disk, dirs, Folder(s))
           F == Entries(disk', dirs', Folder(s))
<1>1. /\ always[s] \subseteq E /\ E \subseteq ever[s]
      /\ \A n \in ever[s] : n \in E \/ Path(Folder(s), n) \in gone
  BY DEF IInv, ListingFine
<1>2. \A n \in E : n \in F \/ Path(Folder(s), n) \in gone'
  <2>1. Folder(s) \in Folders
    BY StorageAssumption DEF IInv, TypeOK, JobType, Folder, Listing, Doing
  <2>2. QED BY <2>1 DEF Entries, Onward
<1>3. gone \subseteq gone'
  BY DEF Onward
<1>4. CASE UNCHANGED <<disk, dirs>> /\ ever'[s] = ever[s] /\ always'[s] = always[s]
  BY <1>1, <1>3, <1>4
<1>5. CASE Tree(disk', dirs')
  <2>1. ever'[s] = ever[s] \union F /\ always'[s] = always[s] \intersect F
    BY <1>5 DEF Tree, Folder
  <2>2. QED
    <3> HIDE DEF E, F
    <3> QED BY <1>1, <1>2, <1>3, <2>1 DEF F
<1>6. QED BY <1>4, <1>5 DEF TreeUnder

LEMMA ListingKept ==
  ASSUME IInv, TypeOK', Onward, NEW s \in Reqs, job'[s] = job[s], TreeUnder(s),
         listed'[s] = listed[s],
         Listing(s) => part'[s] = part[s] /\ todo'[s] = todo[s] /\ reply'[s] = reply[s]
  PROVE  ListingFine(s)'
<1>1. ListingFine(s)
  BY DEF IInv
<1>2. CASE ~Listing(s)
  BY <1>1, <1>2 DEF ListingFine, Listing, Doing
<1>3. CASE Listing(s)
  <2> DEFINE E == Entries(disk', dirs', Folder(s))
  <2>1. Listing(s)' /\ Folder(s)' = Folder(s)
    BY <1>3 DEF Listing, Doing, Folder
  <2>2. /\ always'[s] \subseteq always[s] /\ ever[s] \subseteq ever'[s]
        /\ always'[s] \subseteq E /\ E \subseteq ever'[s]
        /\ \A n \in ever'[s] : n \in E \/ Path(Folder(s), n) \in gone'
    BY <1>3, ListingRemembers
  <2>3. gone \subseteq gone'
    BY DEF Onward
  <2>4. todo'[s] \union listed'[s] \subseteq ever'[s]
    BY <1>1, <1>3, <2>2 DEF ListingFine
  <2>5. (\E i \in Parts : part'[s][i].pc = "done") /\ reply'[s] # "missing" =>
          always'[s] \subseteq todo'[s] \union listed'[s]
    BY <1>1, <1>3, <2>2 DEF ListingFine
  <2>6. reply'[s] = "ok" => todo'[s] = {} /\ \E i \in Parts : part'[s][i].pc = "done"
    BY <1>1, <1>3 DEF ListingFine
  <2>7. reply'[s] = "missing" => \E n \in ever'[s] : Path(Folder(s), n) \in gone'
    BY <1>1, <1>3, <2>2, <2>3 DEF ListingFine
  <2> HIDE DEF E
  <2>8. QED BY <2>1, <2>2, <2>4, <2>5, <2>6, <2>7 DEF ListingFine, E
<1>4. QED BY <1>2, <1>3

LEMMA StartListing ==
  ASSUME IInv, TypeOK', NEW r \in Reqs, Start(r)
  PROVE  ListingFine(r)'
<1> USE StorageAssumption
<1>a. TypeOK
  BY DEF IInv
<1>1. PICK j \in Jobs, name \in [Parts -> Names \union {None}] : Arrive(r, j, name)
  BY DEF Start
<1>2. job'[r] = j /\ job[r] = None /\ UNCHANGED <<disk, dirs, todo, listed, gone>>
  BY <1>1, <1>a DEF Arrive, TypeOK
<1>3. todo[r] = {} /\ listed[r] = {}
  BY <1>2 DEF IInv, PartsRight, ListingFine, Listing, Doing
<1>4. CASE j.kind # "list"
  BY <1>2, <1>3, <1>4 DEF ListingFine, Listing, Doing
<1>5. CASE j.kind = "list"
  <2> DEFINE E == Entries(disk, dirs, j.folder)
  <2>1. ever'[r] = E /\ always'[r] = E /\ reply'[r] = "none"
    BY <1>1, <1>5, <1>a DEF Arrive, TypeOK
  <2>2. \A i \in Parts : part'[r][i].pc \in {"readdir", "idle"}
    BY <1>1, <1>5, <1>a DEF Arrive, TypeOK, FirstStep, NoPart
  <2>3. Folder(r)' = j.folder
    BY <1>2 DEF Folder
  <2>4. Entries(disk, dirs, Folder(r))' = E
    BY <1>2, <2>3
  <2> HIDE DEF E
  <2>5. QED BY <1>2, <1>3, <2>1, <2>2, <2>4 DEF ListingFine
<1>6. QED BY <1>4, <1>5

LEMMA ReadDirStep ==
  ASSUME IInv, TypeOK', Onward, NEW r \in Reqs, NEW i \in Parts, ReadDir(r, i)
  PROVE  ListingFine(r)'
<1> DEFINE E == Entries(disk, dirs, Folder(r))
<1>1. /\ job[r] # None /\ part[r][i].pc = "readdir" /\ Goto(r, i, "done")
      /\ UNCHANGED <<disk, dirs, ever, always, job, listed, reply, gone>>
  BY DEF ReadDir, At, SameTree, kept
<1>2. job[r] \in Jobs /\ Listing(r) /\ i \in Files(job[r]) /\ job[r].kind = "list"
  BY <1>1, KindAt DEF Listing, Doing
<1>3. Folder(r) \in Folders
  BY <1>2, StorageAssumption DEF Folder, JobType
<1>4. todo'[r] = E
  <2>1. todo'[r] = IF Folder(r) \in dirs THEN E ELSE {}
    BY DEF ReadDir, IInv, TypeOK
  <2>2. ASSUME Folder(r) \notin dirs PROVE E = {}
    <3>1. \A n \in Names : disk[Folder(r)][n] = None
      <4>1. ASSUME NEW n \in Names, disk[Folder(r)][n] # None PROVE FALSE
        <5>1. Path(Folder(r), n) \in OnDisk /\ Path(Folder(r), n)[1] = Folder(r)
          BY <1>3, <4>1, OnDiskAt DEF Path
        <5>2. QED BY <2>2, <5>1 DEF IInv, TreeTidy
      <4>2. QED BY <4>1
    <3>2. Folder(r) = Root => dirs = {}
      BY <2>2 DEF IInv, TreeTidy
    <3>3. QED BY <3>1, <3>2 DEF Entries
  <2>3. QED BY <2>1, <2>2
<1>5. ListingFine(r)
  BY DEF IInv
<1>6. reply[r] # "ok"
  <2>1. ASSUME NEW k \in Parts, part[r][k].pc = "done" PROVE FALSE
    <3>1. k \in Files(job[r])
      BY <1>1, <2>1, KindAt
    <3>2. QED BY <1>1, <1>2, <2>1, <3>1, OneFileToGet
  <2>2. QED BY <1>2, <1>5, <2>1 DEF ListingFine
<1>7. Folder(r)' = Folder(r) /\ Listing(r)' /\ Entries(disk, dirs, Folder(r))' = E
  BY <1>1, <1>2 DEF Folder, Listing, Doing
<1>8. QED
  <2> HIDE DEF E
  <2>1. /\ always[r] \subseteq E /\ E \subseteq ever[r] /\ listed[r] \subseteq ever[r]
        /\ \A n \in ever[r] : n \in E \/ Path(Folder(r), n) \in gone
        /\ reply[r] = "missing" => \E n \in ever[r] : Path(Folder(r), n) \in gone
    BY <1>2, <1>5 DEF ListingFine, E
  <2>2. QED BY <1>1, <1>4, <1>6, <1>7, <2>1 DEF ListingFine

LEMMA StatEntryStep ==
  ASSUME IInv, TypeOK', Onward, NEW r \in Reqs, NEW n \in Names \union Folders, StatEntry(r, n)
  PROVE  ListingFine(r)'
<1> DEFINE E == Entries(disk, dirs, Folder(r))
<1>1. /\ n \in todo[r] /\ reply[r] = "none"
      /\ UNCHANGED <<disk, dirs, ever, always, job, part, gone>>
  BY DEF StatEntry, SameTree, kept
<1>2. Listing(r) /\ TypeOK
  BY <1>1 DEF IInv, PartsRight
<1>3. Folder(r)' = Folder(r) /\ Listing(r)' /\ Entries(disk, dirs, Folder(r))' = E
  BY <1>1, <1>2 DEF Folder, Listing, Doing
<1>4. /\ always[r] \subseteq E /\ E \subseteq ever[r] /\ todo[r] \union listed[r] \subseteq ever[r]
      /\ \A m \in ever[r] : m \in E \/ Path(Folder(r), m) \in gone
      /\ (\E i \in Parts : part[r][i].pc = "done") => always[r] \subseteq todo[r] \union listed[r]
  BY <1>1, <1>2 DEF IInv, ListingFine
<1>5. CASE n \in E
  <2>1. /\ todo'[r] = todo[r] \ {n} /\ listed'[r] = listed[r] \union {n} /\ reply'[r] = "none"
    BY <1>1, <1>2, <1>5 DEF StatEntry, TypeOK
  <2> HIDE DEF E
  <2>2. QED BY <1>1, <1>3, <1>4, <2>1 DEF ListingFine
<1>6. CASE n \notin E
  <2>1. todo'[r] = {} /\ listed'[r] = listed[r] /\ reply'[r] = "missing"
    BY <1>1, <1>2, <1>6 DEF StatEntry, TypeOK
  <2> HIDE DEF E
  <2>2. n \in ever[r] /\ Path(Folder(r), n) \in gone
    BY <1>1, <1>4, <1>6
  <2>3. QED BY <1>1, <1>3, <1>4, <2>1, <2>2 DEF ListingFine
<1>7. QED BY <1>5, <1>6

LEMMA ListAnsweredStep ==
  ASSUME IInv, TypeOK', NEW r \in Reqs, ListAnswered(r)
  PROVE  ListingFine(r)'
<1>1. /\ Listing(r) /\ todo[r] = {} /\ reply'[r] = "ok"
      /\ UNCHANGED <<disk, dirs, ever, always, job, part, todo, listed, gone>>
  BY DEF ListAnswered, Reply, SameTree, IInv, TypeOK
<1>2. job[r] \in Jobs
  BY <1>1 DEF IInv, TypeOK, Listing, Doing
<1>3. PICK i \in Files(job[r]) : part[r][i].pc = "done"
  BY <1>2, StorageAssumption DEF ListAnswered, Files
<1>4. i \in Parts /\ reply[r] = "none" /\ ListingFine(r)
  BY <1>3 DEF Files, ListAnswered, IInv
<1>5. Listing(r)' /\ Folder(r)' = Folder(r)
  BY <1>1 DEF Listing, Doing, Folder
<1>6. Entries(disk, dirs, Folder(r))' = Entries(disk, dirs, Folder(r))
  BY <1>1, <1>5
<1>7. QED BY <1>1, <1>3, <1>4, <1>5, <1>6 DEF ListingFine

\* Every step keeps what is known of the listings.
LEMMA ListingsStep ==
  ASSUME IInv, TypeOK', Onward, [Next]_vars, NEW s \in Reqs
  PROVE  ListingFine(s)'
<1> USE DEF kept
<1>a. TypeOK
  BY DEF IInv
<1>1. CASE EnsureRoot \/ UNCHANGED vars
  <2>1. TreeUnder(s)
    BY <1>1, <1>a, TreeSteps
  <2>2. UNCHANGED <<job, part, todo, listed, reply>>
    BY <1>1 DEF EnsureRoot, vars
  <2>3. QED BY <2>1, <2>2, ListingKept
<1>2. CASE Crash
  BY <1>2 DEF Crash, ListingFine, Listing, Doing
<1>3. ASSUME NEW r \in Reqs, StepOf(r), r # s PROVE ListingFine(s)'
  <2>1. Same(s)
    BY <1>3, <1>a, OthersSame
  <2>2. TreeUnder(s)
    BY <1>3, <1>a, TreeSteps
  <2>3. QED BY <2>1, <2>2, ListingKept DEF Same
<1>4. CASE Start(s)
  BY <1>4, StartListing
<1>5. CASE Finish(s)
  BY <1>5, <1>a DEF Finish, TypeOK, ListingFine, Listing, Doing
<1>6. ASSUME StepOf(s), ~Start(s), ~Finish(s), ~Listing(s) PROVE ListingFine(s)'
  <2>1. TreeUnder(s)
    BY <1>6, <1>a, TreeSteps
  <2>2. todo[s] = {}
    BY <1>6 DEF IInv, PartsRight
  <2>3. job' = job /\ listed' = listed
    BY <1>6, <2>2
    DEF StepOf, PartStep, Answer, UploadAnswered, UploadRefused, DeleteAnswered, ListAnswered,
        Reply, EnsureFolder, CreateFile, WriteEnds, Unlink, AccessFile, ReadFile, StatFile,
        ReadDir, WriteFails, Lookup, StatEntry
  <2>4. QED BY <1>6, <2>1, <2>3, ListingKept
<1>7. ASSUME StepOf(s), ~Start(s), ~Finish(s), Listing(s) PROVE ListingFine(s)'
  <2>1. CASE Answer(s)
    <3>1. ListAnswered(s)
      BY <1>7, <2>1 DEF Answer, UploadAnswered, UploadRefused, DeleteAnswered, Listing, Doing
    <3>2. QED BY <3>1, ListAnsweredStep
  <2>2. ASSUME NEW i \in Parts, PartStep(s, i) \/ WriteFails(s, i) PROVE ListingFine(s)'
    <3>1. ReadDir(s, i)
      <4>1. job[s] # None /\ job[s].kind = "list"
        BY <1>7 DEF Listing, Doing
      <4>2. part[s][i].pc \notin {"ensure", "create", "write", "unlink", "access", "read", "stat"}
        BY <4>1, KindAt
      <4>3. QED BY <2>2, <4>2 DEF PartStep, EnsureFolder, CreateFile, WriteEnds, Unlink,
                    AccessFile, ReadFile, StatFile, WriteFails, Lookup, At
    <3>2. QED BY <3>1, ReadDirStep
  <2>3. ASSUME NEW n \in Names \union Folders, StatEntry(s, n) PROVE ListingFine(s)'
    BY <2>3, StatEntryStep
  <2>4. QED BY <1>7, <2>1, <2>2, <2>3 DEF StepOf
<1>8. QED
  BY <1>1, <1>2, <1>3, <1>4, <1>5, <1>6, <1>7 DEF Next, StepOf

-----------------------------------------------------------------------------
(* What was answered, and what nobody was told of.                            *)

LEMMA StoredStep ==
  ASSUME IInv, TypeOK', Onward, [Next]_vars
  PROVE  StoredUntilRemoved'
<1>a. TypeOK /\ StoredUntilRemoved
  BY DEF IInv
<1>1. ASSUME NEW p \in told PROVE disk'[p[1]][p[2]] = "whole" \/ p \in gone'
  <2>1. PICK f \in Folders, n \in Names : p = Path(f, n)
    BY <1>a DEF TypeOK, Paths, Path
  <2>2. disk[f][n] = "whole" \/ p \in gone
    BY <1>a, <2>1 DEF StoredUntilRemoved, Path
  <2>3. QED BY <2>1, <2>2 DEF Onward, Path
<1>2. CASE told' = told
  BY <1>1, <1>2 DEF StoredUntilRemoved
<1>3. ASSUME NEW r \in Reqs, UploadAnswered(r) PROVE StoredUntilRemoved'
  <2>1. \A i \in Files(job[r]) : Here(r, i) = "whole" \/ PathOf(r, i) \in gone
    BY <1>3 DEF UploadAnswered, IInv, UploadFine, Files
  <2>2. /\ told' = told \union {PathOf(r, i) : i \in Files(job[r])}
        /\ disk' = disk /\ gone' = gone
    BY <1>3 DEF UploadAnswered, Reply, SameTree, PathOf
  <2>3. QED BY <1>1, <2>1, <2>2 DEF StoredUntilRemoved, Here, PathOf, Path
<1>4. ASSUME NEW r \in Reqs, StepOf(r), ~UploadAnswered(r) PROVE told' = told
  BY <1>4 DEF StepOf, Start, Arrive, Finish, PartStep, Answer, UploadRefused, DeleteAnswered,
      ListAnswered, EnsureFolder, CreateFile, WriteEnds, Unlink, AccessFile, ReadFile, StatFile,
      ReadDir, WriteFails, Lookup, StatEntry, kept
<1>5. CASE EnsureRoot \/ Crash \/ UNCHANGED vars
  BY <1>2, <1>5 DEF EnsureRoot, Crash, vars, kept
<1>6. QED
  BY <1>2, <1>3, <1>4, <1>5 DEF Next, StepOf

\* What excuses a file that is on disk.
Excused(p) ==
  p \in told \/ (\E r \in Reqs : Holds(r, p)) \/ faults > 0 \/ batch[p[2]] > 1

\* A part that holds a path goes on holding it until its request is answered.
LEMMA HoldsOn ==
  ASSUME IInv, TypeOK', NEW r \in Reqs, NEW p, Holds(r, p),
         job'[r] = job[r], reply'[r] = reply[r],
         \A i \in Parts : part[r][i].name # None => part'[r][i].name = part[r][i].name
  PROVE  Holds(r, p)'
BY DEF Holds, Doing, PathOf, Path, Folder

\* An answer that ends an upload excuses what it held.
LEMMA AnswerExcuses ==
  ASSUME IInv, TypeOK', Onward, NEW r \in Reqs, Answer(r), NEW p, Holds(r, p)
  PROVE  Excused(p)'
<1>1. PICK i \in Parts : part[r][i].name # None /\ p = PathOf(r, i)
  BY DEF Holds
<1>2. job[r] # None /\ job[r] \in Jobs /\ Doing(r, "upload")
  BY DEF Holds, IInv, TypeOK, Doing
<1>3. part[r][i].pc # "idle"
  BY <1>1, <1>2 DEF IInv, PartsRight
<1>4. i \in Files(job[r])
  BY <1>2, <1>3, KindAt
<1>5. CASE UploadAnswered(r)
  <2>1. p \in told'
    BY <1>1, <1>4, <1>5 DEF UploadAnswered, PathOf
  <2>2. QED BY <2>1 DEF Excused
<1>6. CASE UploadRefused(r)
  <2>1. PICK k \in Files(job[r]) : part[r][k].pc = "failed"
    BY <1>6 DEF UploadRefused
  <2>2. batch' = batch /\ faults' = faults
    BY <1>6 DEF UploadRefused, Reply
  <2>3. CASE k = i
    <3>1. faults > 0
      BY <1>1, <1>2, <2>1, <2>3 DEF IInv, UploadFine
    <3>2. QED BY <2>2, <3>1 DEF Excused
  <2>4. CASE k # i
    <3>1. Cardinality(Files(job[r])) > 1
      BY <1>2, <1>4, <2>4, TwoFilesCounted
    <3>2. batch[part[r][i].name] = Cardinality(Files(job[r]))
      BY <1>1, <1>2 DEF IInv, UploadFine
    <3>3. p[2] = part[r][i].name
      BY <1>1 DEF PathOf, Path
    <3>4. QED BY <2>2, <3>1, <3>2, <3>3 DEF Excused
  <2>5. QED BY <2>3, <2>4
<1>7. QED
  BY <1>2, <1>5, <1>6 DEF Answer, DeleteAnswered, ListAnswered, Listing, Doing

LEMMA OrphansStep ==
  ASSUME IInv, TypeOK', Onward, [Next]_vars
  PROVE  OrphansHaveCause'
<1>a. TypeOK
  BY DEF IInv
<1>b. ASSUME \A p \in OnDisk' : Excused(p)' PROVE OrphansHaveCause'
  BY <1>b DEF OrphansHaveCause, Excused
<1>c. \A p \in OnDisk : Excused(p) /\ p[2] \in Used
  BY <1>a DEF IInv, OrphansHaveCause, Excused, TreeTidy, OnDisk, Used
<1>d. faults \in Nat /\ faults' \in Nat
  BY <1>a, StorageAssumption DEF TypeOK
<1>1. ASSUME NEW p \in OnDisk, \A r \in Reqs : Holds(r, p) => Excused(p)'
      PROVE  Excused(p)'
  <2>1. Excused(p) /\ batch'[p[2]] = batch[p[2]]
    BY <1>c DEF Onward
  <2>2. told \subseteq told' /\ (faults > 0 => faults' > 0)
    BY <1>d DEF Onward
  <2>3. QED BY <1>1, <2>1, <2>2 DEF Excused
<1>2. ASSUME NEW s \in Reqs, NEW p, Holds(s, p), Same(s) PROVE Excused(p)'
  <2>1. Holds(s, p)'
    BY <1>2, HoldsOn DEF Same
  <2>2. QED BY <2>1 DEF Excused
<1>3. CASE EnsureRoot \/ UNCHANGED vars
  <2>1. disk' = disk /\ \A s \in Reqs : Same(s)
    BY <1>3 DEF EnsureRoot, Tree, vars, kept, Same
  <2>2. QED BY <1>b, <1>1, <1>2, <2>1 DEF OnDisk
<1>4. CASE Crash
  BY <1>b, <1>4, <1>d DEF Crash, Excused
<1>5. ASSUME NEW r \in Reqs, StepOf(r) PROVE OrphansHaveCause'
  <2>1. \A s \in Reqs \ {r} : Same(s)
    BY <1>a, <1>5, OthersSame
  <2>2. ASSUME NEW p, Holds(r, p) PROVE Excused(p)'
    <3>1. CASE Start(r)
      BY <2>2, <3>1 DEF Start, Arrive, Holds, Doing
    <3>2. CASE Finish(r)
      BY <2>2, <3>2 DEF Finish, Holds
    <3>3. CASE Answer(r)
      BY <2>2, <3>3, AnswerExcuses
    <3>4. ASSUME NEW i \in Parts, PartStep(r, i) \/ WriteFails(r, i) PROVE Holds(r, p)'
      <4>1. /\ job[r] # None /\ job[r].kind = "upload"
        BY <2>2 DEF Holds, Doing
      <4>2. EnsureFolder(r, i) \/ CreateFile(r, i) \/ WriteEnds(r, i) \/ WriteFails(r, i)
        <5>1. part[r][i].pc \notin {"unlink", "access", "read", "stat", "readdir"}
          BY <4>1, KindAt
        <5>2. QED BY <3>4, <5>1 DEF PartStep, Unlink, AccessFile, ReadFile, StatFile, ReadDir,
                      Lookup, At
      <4>3. CASE CreateFile(r, i)
        <5>1. part[r][i].name = None
          BY <4>1, <4>3 DEF CreateFile, At, IInv, UploadFine, Doing
        <5>2. \A k \in Parts \ {i} : part'[r][k] = part[r][k]
          BY <1>a, <4>3 DEF CreateFile, TypeOK
        <5>3. job' = job /\ reply' = reply
          BY <4>3 DEF CreateFile
        <5>4. \A k \in Parts : part[r][k].name # None => part'[r][k].name = part[r][k].name
          BY <5>1, <5>2
        <5>5. QED BY <2>2, <5>3, <5>4, HoldsOn
      <4>4. CASE EnsureFolder(r, i) \/ WriteEnds(r, i) \/ WriteFails(r, i)
        <5>1. \E pc \in Steps : Goto(r, i, pc)
          BY <4>4 DEF EnsureFolder, WriteEnds, WriteFails, Steps
        <5>2. \A k \in Parts : part'[r][k].name = part[r][k].name
          BY <1>a, <5>1, GotoMoves
        <5>3. job' = job /\ reply' = reply
          BY <4>4 DEF EnsureFolder, WriteEnds, WriteFails
        <5>4. QED BY <2>2, <5>2, <5>3, HoldsOn
      <4>5. QED BY <4>2, <4>3, <4>4
    <3>5. ASSUME NEW n \in Names \union Folders, StatEntry(r, n) PROVE FALSE
      BY <2>2, <3>5 DEF StatEntry, IInv, PartsRight, Listing, Holds, Doing
    <3>6. QED BY <1>5, <3>1, <3>2, <3>3, <3>4, <3>5 DEF StepOf, Excused
  <2>3. \A p \in OnDisk : Excused(p)'
    BY <1>1, <1>2, <2>1, <2>2
  <2>4. ASSUME NEW i \in Parts, CreateFile(r, i), NEW p \in OnDisk', p \notin OnDisk
        PROVE  Excused(p)'
    <3>1. PICK n \in Names :
            /\ part' = [part EXCEPT ![r][i] = [pc |-> "write", name |-> n]]
            /\ batch' = [batch EXCEPT ![n] = Cardinality(Files(job[r]))]
            /\ disk' = [disk EXCEPT ![Folder(r)][n] = "part"]
      BY <2>4 DEF CreateFile, Tree
    <3>2. job[r] # None /\ job[r].kind = "upload" /\ job' = job /\ reply' = reply
      BY <2>4, KindAt DEF CreateFile, At
    <3>3. part'[r][i] = [pc |-> "write", name |-> n] /\ n # None
      BY <1>a, <3>1, StorageAssumption DEF TypeOK
    <3>4. p = Path(Folder(r), n) /\ p[2] = n
      BY <1>a, <2>4, <3>1 DEF OnDisk, TypeOK, Path
    <3>5. CASE reply[r] = "none"
      <4>1. Holds(r, p)'
        BY <3>2, <3>3, <3>4, <3>5 DEF Holds, Doing, PathOf, Path, Folder
      <4>2. QED BY <4>1 DEF Excused
    <3>6. CASE reply[r] # "none"
      <4>1. Cardinality(Files(job[r])) > 1
        BY <2>4, <3>2, <3>6 DEF CreateFile, At, IInv, UploadFine, Doing
      <4>2. batch'[n] = Cardinality(Files(job[r]))
        BY <1>a, <3>1 DEF TypeOK
      <4>3. QED BY <3>4, <4>1, <4>2 DEF Excused
    <3>7. QED BY <3>5, <3>6
  <2>5. ASSUME \A i \in Parts : ~CreateFile(r, i) PROVE OnDisk' \subseteq OnDisk
    <3>1. CASE \E i \in Parts : WriteEnds(r, i) \/ Unlink(r, i)
      <4>1. PICK i \in Parts : WriteEnds(r, i) \/ Unlink(r, i)
        BY <3>1
      <4>2. part[r][i].name \in Names /\ Folder(r) \in Folders
        BY <4>1, NameAtWork DEF WriteEnds, Unlink, At
      <4> DEFINE f0 == Folder(r)
                 n0 == part[r][i].name
      <4>3. ASSUME disk' # disk
            PROVE  \E c : disk' = [disk EXCEPT ![f0][n0] = c] /\ (c # None => disk[f0][n0] # None)
        BY <4>1, <4>3 DEF WriteEnds, Unlink, Tree, Here
      <4>4. ASSUME NEW f \in Folders, NEW n \in Names, disk'[f][n] # None PROVE disk[f][n] # None
        <5>1. CASE disk' = disk
          BY <4>4, <5>1
        <5>2. CASE disk' # disk
          <6>1. PICK c : /\ disk' = [disk EXCEPT ![f0][n0] = c]
                         /\ c # None => disk[f0][n0] # None
            BY <4>3, <5>2
          <6>2. disk'[f][n] = IF f = f0 /\ n = n0 THEN c ELSE disk[f][n]
            BY <1>a, <4>2, <6>1 DEF TypeOK
          <6>3. QED BY <4>4, <6>1, <6>2
        <5>3. QED BY <5>1, <5>2
      <4>5. QED BY <4>4 DEF OnDisk
    <3>2. CASE disk' = disk
      BY <3>2 DEF OnDisk
    <3>3. ASSUME \A i \in Parts : ~WriteEnds(r, i) /\ ~Unlink(r, i) PROVE disk' = disk
      BY <1>5, <2>5, <3>3
      DEF StepOf, Start, Arrive, Finish, PartStep, Answer, UploadAnswered, UploadRefused,
          DeleteAnswered, ListAnswered, Reply, EnsureFolder, AccessFile, ReadFile, StatFile,
          ReadDir, WriteFails, Lookup, StatEntry, SameTree, Tree
    <3>4. QED BY <3>1, <3>2, <3>3
  <2>6. QED BY <1>b, <2>3, <2>4, <2>5
<1>6. QED
  BY <1>3, <1>4, <1>5 DEF Next, StepOf

-----------------------------------------------------------------------------
LEMMA InitIInv ==
  ASSUME Init
  PROVE  IInv
<1> USE StorageAssumption DEF Init
<1>1. TypeOK
  BY DEF TypeOK, NoParts, NoPart, PartType, Steps, Replies
<1>2. TreeTidy /\ OnDisk = {}
  BY DEF TreeTidy, OnDisk
<1>3. PartsRight
  BY DEF PartsRight, NoParts, NoPart, Listing, Doing
<1>4. \A r \in Reqs : \A i \in Parts : UploadFine(r, i)
  BY DEF UploadFine, Doing
<1>5. \A r \in Reqs : DownloadFine(r) /\ ListingFine(r) /\ known[r] \subseteq told
  BY DEF DownloadFine, ListingFine, Listing, Doing
<1>6. StoredUntilRemoved /\ OrphansHaveCause
  BY <1>2 DEF StoredUntilRemoved, OrphansHaveCause
<1>7. QED BY <1>1, <1>2, <1>3, <1>4, <1>5, <1>6 DEF IInv

LEMMA StepIInv ==
  ASSUME IInv, [Next]_vars
  PROVE  IInv'
<1>1. TypeOK'
  BY TypeStep
<1>2. TreeTidy' /\ Onward
  BY <1>1, TreeStep
<1>3. PartsRight'
  BY <1>1, PartsStep
<1>4. \A r \in Reqs : \A i \in Parts : UploadFine(r, i)'
  BY <1>1, <1>2, UploadsStep
<1>5. \A r \in Reqs : DownloadFine(r)' /\ ListingFine(r)' /\ known'[r] \subseteq told'
  BY <1>1, <1>2, DownloadsStep, ListingsStep
<1>6. StoredUntilRemoved' /\ OrphansHaveCause'
  BY <1>1, <1>2, StoredStep, OrphansStep
<1>7. QED BY <1>1, <1>2, <1>3, <1>4, <1>5, <1>6 DEF IInv

-----------------------------------------------------------------------------
\* What is known of the tree and of the requests in progress always holds: the
\* invariant from which the properties follow.
THEOREM StorageInvariant == Spec => []IInv
BY InitIInv, StepIInv, PTL DEF Spec

\* The variables of storage.service.ts keep their types.
THEOREM StorageType == Spec => []TypeOK
<1>1. IInv => TypeOK
  BY DEF IInv
<1>2. QED BY <1>1, StorageInvariant, PTL

\* Whatever uploads, removals, failed writes and restarts come together, a file
\* that an upload has answered is there, whole, until it is removed.
THEOREM AnsweredFilesKept == Spec => []StoredUntilRemoved
<1>1. IInv => StoredUntilRemoved
  BY DEF IInv
<1>2. QED BY <1>1, StorageInvariant, PTL

\* A download of a file known from an answer is sent all of it, or not found
\* because the file was removed (getFile of storage.service.ts).
THEOREM DownloadsRight == Spec => []DownloadsWhole
<1>1. ASSUME IInv PROVE DownloadsWhole
  <2>1. SUFFICES ASSUME NEW r \in Reqs, NEW i \in Parts, Doing(r, "get"),
                        i \in Files(job[r]), PathOf(r, i) \in known[r]
                 PROVE  /\ reply[r] = "ok" => data[r] = "whole"
                        /\ reply[r] = "missing" => PathOf(r, i) \in gone
    BY DEF DownloadsWhole
  <2>2. DownloadFine(r)
    BY <1>1 DEF IInv
  <2>3. QED BY <2>1, <2>2 DEF DownloadFine
<1>2. QED BY <1>1, StorageInvariant, PTL

\* A listing leaves out no file that stayed, names none that never was there, and
\* fails only for a removed file (listFiles of storage.service.ts).
THEOREM ListingsRight == Spec => []ListingHonest
<1>1. ASSUME IInv, NEW r \in Reqs, Listing(r)
      PROVE  /\ reply[r] = "ok" => always[r] \subseteq listed[r] /\ listed[r] \subseteq ever[r]
             /\ reply[r] = "missing" => \E n \in ever[r] : Path(Folder(r), n) \in gone
  <2>1. ListingFine(r)
    BY <1>1 DEF IInv
  <2>2. QED BY <1>1, <2>1 DEF ListingFine
<1>2. IInv => ListingHonest
  BY <1>1 DEF ListingHonest
<1>3. QED BY <1>2, StorageInvariant, PTL

\* No upload of a single file leaves a file behind that nobody is told of, unless
\* a write failed or the process was restarted (uploadFiles of storage.service.ts).
THEOREM OrphansExplained == Spec => []OrphansHaveCause
<1>1. IInv => OrphansHaveCause
  BY DEF IInv
<1>2. QED BY <1>1, StorageInvariant, PTL
=============================================================================
