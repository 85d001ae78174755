-------------------------- MODULE HistoricalArchive --------------------------
(* HistoricalDataArchiver and GoogleDriveArchiveStore: chunks of market       *)
(* history are staged as local files named after the second, digested into a  *)
(* manifest, and put into the Drive folder of their partition.  Each chunk    *)
(* goes through stage_jsonl_gz and put at its own pace, in one process or in  *)
(* several.  A step is one file operation or one call of the Drive API.       *)
EXTENDS Integers, Sequences

CONSTANTS Chunks,      \* chunks of records to be archived
          Partitions,  \* the partitions: each is the names of its folders
          Rubbish,     \* what a file that goes bad may be afterwards
          LastSecond,  \* bound on the clock
          MaxFolders,  \* bound on the folders in Drive
          ApiFails     \* whether a call of the Drive API may raise

Names == UNION {{p[i] : i \in DOMAIN p} : p \in Partitions}

ASSUME PartitionAssumption == Partitions \subseteq Seq(Names) \ {<<>>}
ASSUME BoundsAssumption == LastSecond \in Nat /\ MaxFolders \in Nat
ASSUME ApiAssumption == ApiFails \in BOOLEAN

VARIABLES now,      \* the second
          files,    \* what is in the staging file of a partition and a second
          folders,  \* folders[i]: the parent and the name of folder i; 0 is root
          remote,   \* the files in Drive
          pc,       \* where a chunk is
          partition,  \* the partition it is staged for; <<>> before
          name,     \* the second its file is named after
          sha,      \* the digest in its manifest
          spoiled,  \* the chunks whose file changed under the put that verified it (history)
          at,       \* the folder ensure_folder_path has reached for it
          depth     \* and how many names of its partition lead there

local == <<now, files, partition, name, sha>>
drive == <<folders, remote, at, depth>>
vars == <<local, drive, spoiled, pc>>

\* The records of one chunk, some of them, a mixture of two chunks, or rubbish.
Content == [state : {"partial", "whole", "mixed"}, by : Chunks]
               \union [state : {"rotten"}, by : Rubbish]
Absent == [state |-> "absent"]
Whole(c) == [state |-> "whole", by |-> c]
Rotten(rubbish) == [state |-> "rotten", by |-> rubbish]

FileOf(c) == <<partition[c], name[c]>>
ContentOf(c) == files[FileOf(c)]

Putting == {"path", "create"}
Stages == {"new", "writing", "written", "staged", "archived"} \union Putting

\* The names of the folders from the root down to folder i.
Path[i \in 0..Len(folders)] ==
    IF i = 0 THEN <<>> ELSE Append(Path[folders[i].parent], folders[i].name)

\* A folder is made inside an older one, and a put that has come so far down its
\* partition stands in a folder that lies as far down.
TypeOK ==
    /\ now \in 0..LastSecond
    /\ files \in [Partitions \X (0..LastSecond) -> Content \union {Absent}]
    /\ Len(folders) \in 0..MaxFolders
    /\ \A i \in DOMAIN folders :
          /\ folders[i].parent \in 0..(i - 1)
          /\ folders[i].name \in Names
    /\ remote \subseteq
          [chunk : Chunks, name : 0..LastSecond, content : Content, folder : 1..Len(folders)]
    /\ pc \in [Chunks -> Stages]
    /\ partition \in [Chunks -> Partitions \union {<<>>}]
    /\ name \in [Chunks -> 0..LastSecond]
    /\ sha \in [Chunks -> Content \union {Absent}]
    /\ spoiled \subseteq Chunks
    /\ at \in [Chunks -> 0..Len(folders)]
    /\ \A c \in Chunks : depth[c] = Len(Path[at[c]]) /\ (pc[c] \notin Putting => at[c] = 0)

Init ==
    /\ now = 0
    /\ files = [f \in Partitions \X (0..LastSecond) |-> Absent]
    /\ folders = <<>>
    /\ remote = {}
    /\ pc = [c \in Chunks |-> "new"]
    /\ partition = [c \in Chunks |-> <<>>]
    /\ name = [c \in Chunks |-> 0]
    /\ sha = [c \in Chunks |-> Absent]
    /\ spoiled = {}
    /\ at = [c \in Chunks |-> 0]
    /\ depth = [c \in Chunks |-> 0]

Goto(c, stage) == pc' = [pc EXCEPT ![c] = stage]
Tick ==
    /\ now < LastSecond /\ now' = now + 1
    /\ UNCHANGED <<files, partition, name, sha, drive, spoiled, pc>>

\* A file changes; a put of it that is under way has verified what it was before.
Change(f, content) ==
    /\ files' = [files EXCEPT ![f] = content]
    /\ spoiled' = spoiled \union {c \in Chunks : pc[c] \in Putting /\ FileOf(c) = f}

-----------------------------------------------------------------------------
(* stage_jsonl_gz                                                             *)

\* The file is named after the second and opened, whether or not there is one.
Open(c, p) ==
    /\ pc[c] = "new"
    /\ partition' = [partition EXCEPT ![c] = p]
    /\ name' = [name EXCEPT ![c] = now]
    /\ Change(<<p, now>>, [state |-> "partial", by |-> c])
    /\ Goto(c, "writing")
    /\ UNCHANGED <<now, sha, drive>>

\* The records are in the file, among those of whoever opened it meanwhile.
Close(c) ==
    /\ pc[c] = "writing"
    /\ \E state \in {"whole", "mixed"} :
          /\ state = "mixed" => ContentOf(c) # [state |-> "partial", by |-> c]
          /\ Change(FileOf(c), [state |-> state, by |-> c])
    /\ Goto(c, "written")
    /\ UNCHANGED <<now, partition, name, sha, drive>>

\* The file is read back for the manifest.
Digest(c) ==
    /\ pc[c] = "written"
    /\ sha' = [sha EXCEPT ![c] = ContentOf(c)]
    /\ Goto(c, "staged")
    /\ UNCHANGED <<now, files, partition, name, drive, spoiled>>

\* A file that was written goes bad: before its digest, before a put or under one.
Rot(c) ==
    /\ pc[c] \in {"written", "staged"} \union Putting
    /\ \E rubbish \in Rubbish :
          ContentOf(c) # Rotten(rubbish) /\ Change(FileOf(c), Rotten(rubbish))
    /\ UNCHANGED <<now, partition, name, sha, drive, pc>>

-----------------------------------------------------------------------------
(* put                                                                        *)

\* HistoricalDataArchiver.verify: the digest of the file is that of the manifest.
MatchesAnyway(c) == TRUE  \* mutant of Matches
Matches(c) == ContentOf(c) = sha[c]

\* Then the account is compared: an exception leaves the chunk staged, and put may
\* be called again.
Verify(c) ==
    /\ pc[c] = "staged"
    /\ Matches(c)
    /\ Goto(c, "path")
    /\ spoiled' = spoiled \ {c}
    /\ UNCHANGED <<local, drive>>

NextName(c) == partition[c][depth[c] + 1]
FoldersNamed(c) ==  \* mutant of Listed
    {i \in DOMAIN folders : folders[i].name = NextName(c)}
Listed(c) ==
    {i \in DOMAIN folders : folders[i] = [parent |-> at[c], name |-> NextName(c)]}

\* The put is over, by return or by an exception.
LeaveTo(c, stage) ==
    /\ Goto(c, stage)
    /\ at' = [at EXCEPT ![c] = 0]
    /\ depth' = [depth EXCEPT ![c] = 0]

Descend(c, i) ==
    /\ at' = [at EXCEPT ![c] = i]
    /\ depth' = [depth EXCEPT ![c] = @ + 1]

\* The folder is there, or several are and the first of them is taken.
Find(c) ==
    /\ pc[c] = "path" /\ depth[c] < Len(partition[c])
    /\ \E i \in Listed(c) : Descend(c, i)
    /\ UNCHANGED <<local, folders, remote, spoiled, pc>>

Miss(c) ==
    /\ pc[c] = "path" /\ depth[c] < Len(partition[c])
    /\ Listed(c) = {}
    /\ Goto(c, "create")
    /\ UNCHANGED <<local, drive, spoiled>>

\* The folder is created; the answer may be lost.
CreateAtRoot(c) ==  \* mutant of Create
    /\ pc[c] = "create" /\ Len(folders) < MaxFolders
    /\ folders' = Append(folders, [parent |-> 0, name |-> NextName(c)])
    /\ \/ Descend(c, Len(folders) + 1) /\ Goto(c, "path")
       \/ ApiFails /\ LeaveTo(c, "staged")
    /\ UNCHANGED <<local, remote, spoiled>>
Create(c) ==
    /\ pc[c] = "create" /\ Len(folders) < MaxFolders
    /\ folders' = Append(folders, [parent |-> at[c], name |-> NextName(c)])
    /\ \/ Descend(c, Len(folders) + 1) /\ Goto(c, "path")
       \/ ApiFails /\ LeaveTo(c, "staged")
    /\ UNCHANGED <<local, remote, spoiled>>

\* The local file is read again, whatever it is by now, and uploaded; the answer may
\* be lost.
Upload(c) ==
    /\ pc[c] = "path" /\ depth[c] = Len(partition[c])
    /\ remote' = remote \union {[chunk |-> c, name |-> name[c], content |-> ContentOf(c),
                                 folder |-> at[c]]}
    /\ LeaveTo(c, "archived") \/ (ApiFails /\ LeaveTo(c, "staged"))
    /\ UNCHANGED <<local, folders, spoiled>>

Fail(c) ==
    /\ ApiFails /\ pc[c] \in Putting
    /\ LeaveTo(c, "staged")
    /\ UNCHANGED <<local, folders, remote, spoiled>>

Stage(c) == (\E p \in Partitions : Open(c, p)) \/ Close(c) \/ Digest(c)
Put(c) == Verify(c) \/ Find(c) \/ Miss(c) \/ Create(c) \/ Upload(c) \/ Fail(c)

Next == Tick \/ \E c \in Chunks : Stage(c) \/ Rot(c) \/ Put(c)

Spec == Init /\ [][Next]_vars

-----------------------------------------------------------------------------
(* Properties                                                                 *)

Named(c) == pc[c] # "new"
Shared(c) == \E d \in Chunks : d # c /\ Named(d) /\ FileOf(d) = FileOf(c)

\* A put, however often it is repeated, uploads what the manifest describes, and that
\* is the chunk, all of it and nothing else, or the rubbish its file was by the time
\* of the digest.  Two things only can be in the way: another chunk of the partition
\* was staged in the same second and shares the file, which can make the manifest
\* describe anything; or the file changed after this very put had verified it, for
\* put reads it once more, several calls later, and uploads what is there.
UploadsAreVerified ==
    [][\A r \in remote' \ remote :
          LET c == r.chunk IN
          c \notin spoiled =>
             /\ r.content = sha[c]
             /\ Shared(c) \/ sha[c] = Whole(c) \/ sha[c].state = "rotten"]_vars

\* Whatever folders overlapping or interrupted puts left behind, a chunk is filed
\* under the names of its partition.
FiledUnderPartition == \A r \in remote : Path[r.folder] = partition[r.chunk]

\* A staged chunk is immutable: its manifest describes the records it was made of.
ManifestsAreTrue == \A c \in Chunks : sha[c] = Whole(c) \/ sha[c].state \in {"absent", "rotten"}

\* What is in Drive is what the manifest describes.
CopiesMatchManifests == \A r \in remote : r.content = sha[r.chunk]
=============================================================================
