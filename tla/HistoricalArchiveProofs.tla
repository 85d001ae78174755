----------------------- MODULE HistoricalArchiveProofs -----------------------
(* What arrives in Drive, for every number of chunks and partitions, whatever *)
(* goes bad, at any moment, and whatever calls of the Drive API raise.        *)
EXTENDS HistoricalArchive, WellFoundedInduction, TLAPS

ShapeOK ==
    /\ now \in 0..LastSecond
    /\ files \in [Partitions \X (0..LastSecond) -> Content \union {Absent}]
    /\ pc \in [Chunks -> Stages]
    /\ name \in [Chunks -> 0..LastSecond]
    /\ partition \in [Chunks -> Partitions \union {<<>>}]
    /\ \A c \in Chunks : Named(c) => partition[c] \in Partitions
    /\ DOMAIN sha = Chunks
    /\ spoiled \subseteq Chunks
    /\ \A r \in remote : r.chunk \in Chunks

Digested == {"staged", "archived"} \union Putting

\* The chunk, all of it and nothing else, or rubbish.
Sound(c, content) == content = Whole(c) \/ content.state = "rotten"

\* A file that is shared with no other chunk holds its chunk or has gone bad, and
\* the manifest says so from the digest on.
Traced(c) ==
    ~Shared(c) =>
        /\ pc[c] = "writing" => ContentOf(c) = [state |-> "partial", by |-> c]
        /\ pc[c] = "written" => Sound(c, ContentOf(c))
        /\ pc[c] \in Digested => Sound(c, sha[c])

\* Under a put the file is what was verified, or it is known to have changed.
Checked(c) == pc[c] \in Putting /\ c \notin spoiled => ContentOf(c) = sha[c]

IInv == ShapeOK /\ \A c \in Chunks : Traced(c) /\ Checked(c)

USE DEF FileOf, ContentOf, Named, Digested, Putting, Stages

LEMMA InitInvariant == Init => IInv
<1> QED
  BY BoundsAssumption DEF Init, IInv, ShapeOK, Traced, Checked

\* A file that is shared stays shared: chunks keep their files.
LEMMA SharedStays ==
    ASSUME \A d \in Chunks : Named(d) => Named(d)' /\ FileOf(d)' = FileOf(d),
           NEW c \in Chunks, Named(c), Shared(c)
    PROVE  Shared(c)'
<1>1. PICK d \in Chunks : d # c /\ Named(d) /\ FileOf(d) = FileOf(c)
  BY DEF Shared
<1>2. Named(d)' /\ FileOf(d)' = FileOf(c)'
  BY <1>1
<1> QED
  BY <1>1, <1>2 DEF Shared

\* Steps that leave the files alone: one chunk moves on, and a put begins only with
\* a file that matches.
LEMMA PutStep ==
    ASSUME IInv, UNCHANGED local, NEW c \in Chunks, pc[c] \in {"staged"} \union Putting,
           NEW stage \in {"staged", "archived"} \union Putting,
           pc' = [pc EXCEPT ![c] = stage],
           stage \in Putting => Matches(c) \/ (pc[c] \in Putting /\ spoiled' = spoiled),
           spoiled' \in {spoiled, spoiled \ {c}},
           \A r \in remote' : r \in remote \/ r.chunk = c
    PROVE  IInv'
<1> USE DEF IInv, local
<1>1. ShapeOK'
  BY DEF ShapeOK
<1>2. \A d \in Chunks : Named(d) => Named(d)' /\ FileOf(d)' = FileOf(d)
  BY DEF ShapeOK
<1>3. ASSUME NEW d \in Chunks PROVE Traced(d)' /\ Checked(d)'
  <2>1. Named(d) /\ Shared(d) => Shared(d)'
    BY <1>2, SharedStays
  <2>2. ContentOf(d)' = ContentOf(d) /\ sha'[d] = sha[d]
    OBVIOUS
  <2>3. CASE d = c
    <3>1. pc'[d] = stage
      BY <2>3 DEF ShapeOK
    <3>2. Traced(d)'
      BY <2>1, <2>2, <2>3, <3>1 DEF Traced
    <3> QED
      BY <2>2, <2>3, <3>1, <3>2 DEF Checked, Matches
  <2>4. CASE d # c
    <3>1. pc'[d] = pc[d] /\ (d \in spoiled' <=> d \in spoiled)
      BY <2>4 DEF ShapeOK
    <3> QED
      BY <2>1, <2>2, <3>1 DEF Traced, Checked
  <2> QED
    BY <2>3, <2>4
<1> QED
  BY <1>1, <1>3

\* A step that changes a file leaves every other chunk as it was, or shares its file
\* with it.
LEMMA ChangeStep ==
    ASSUME IInv, NEW f \in Partitions \X (0..LastSecond), NEW content \in Content,
           Change(f, content), sha' = sha,
           NEW d \in Chunks, pc'[d] = pc[d], FileOf(d)' = FileOf(d),
           Named(d) /\ Shared(d) => Shared(d)',
           Named(d) /\ FileOf(d) = f => Shared(d)'
    PROVE  Traced(d)' /\ Checked(d)'
<1> USE DEF IInv
<1>1. CASE Named(d) /\ FileOf(d) = f
  BY <1>1 DEF Change, Traced, Checked
<1>2. CASE Named(d) /\ FileOf(d) # f
  <2>1. FileOf(d) \in DOMAIN files
    BY <1>2 DEF ShapeOK
  <2>2. ContentOf(d)' = ContentOf(d)
    BY <1>2, <2>1 DEF Change
  <2>3. d \in spoiled => d \in spoiled'
    BY DEF Change
  <2> QED
    BY <1>2, <2>2, <2>3 DEF Traced, Checked
<1>3. CASE ~Named(d)
  BY <1>3 DEF Traced, Checked
<1> QED
  BY <1>1, <1>2, <1>3

\* The same for a step of a chunk on the file it has.
LEMMA OwnStep ==
    ASSUME IInv, NEW c \in Chunks, Named(c), NEW content \in Content,
           Change(FileOf(c), content), NEW stage \in Stages \ {"new"},
           pc' = [pc EXCEPT ![c] = stage],
           UNCHANGED <<now, partition, name, sha, drive>>,
           Traced(c)', Checked(c)'
    PROVE  IInv'
<1> USE DEF IInv
<1>1. FileOf(c) \in Partitions \X (0..LastSecond)
  BY DEF ShapeOK
<1>2. ShapeOK'
  BY <1>1 DEF ShapeOK, Change, drive
<1>3. \A d \in Chunks : Named(d) => Named(d)' /\ FileOf(d)' = FileOf(d)
  BY DEF ShapeOK
<1>4. ASSUME NEW d \in Chunks, d # c PROVE Traced(d)' /\ Checked(d)'
  <2>1. Named(d) /\ Shared(d) => Shared(d)'
    BY <1>3, SharedStays
  <2>2. pc'[d] = pc[d] /\ FileOf(d)' = FileOf(d)
    BY <1>4 DEF ShapeOK
  <2>3. Named(d) /\ FileOf(d) = FileOf(c) => Shared(d)'
    <3>1. Named(c)' /\ FileOf(c)' = FileOf(c)
      BY <1>3
    <3> QED
      BY <1>4, <2>2, <3>1 DEF Shared
  <2> QED
    BY <1>1, <2>1, <2>2, <2>3, ChangeStep
<1> QED
  BY <1>2, <1>4

LEMMA NextInvariant == IInv /\ [Next]_vars => IInv'
<1> SUFFICES ASSUME IInv, [Next]_vars PROVE IInv'
  OBVIOUS
<1> USE DEF IInv
<1>1. CASE Tick
  BY <1>1, BoundsAssumption DEF Tick, drive, ShapeOK, Traced, Checked, Shared
<1>2. ASSUME NEW c \in Chunks, NEW p \in Partitions, Open(c, p) PROVE IInv'
  <2> DEFINE opened == [state |-> "partial", by |-> c]
  <2>1. /\ pc[c] = "new" /\ pc' = [pc EXCEPT ![c] = "writing"]
        /\ partition' = [partition EXCEPT ![c] = p]
        /\ name' = [name EXCEPT ![c] = now]
        /\ Change(<<p, now>>, opened)
        /\ sha' = sha /\ remote' = remote /\ now' = now
    BY <1>2 DEF Open, Goto, drive
  <2>2. <<p, now>> \in Partitions \X (0..LastSecond) /\ opened \in Content
    BY DEF ShapeOK, Content
  <2>3. files' = [files EXCEPT ![<<p, now>>] = opened] /\ spoiled' \subseteq Chunks
    BY <2>1 DEF Change, ShapeOK
  <2>4. ShapeOK'
    BY <2>1, <2>2, <2>3 DEF ShapeOK
  <2>5. \A d \in Chunks : Named(d) => Named(d)' /\ FileOf(d)' = FileOf(d)
    BY <2>1 DEF ShapeOK
  <2>6. pc'[c] = "writing" /\ FileOf(c)' = <<p, now>> /\ Named(c)'
    BY <2>1 DEF ShapeOK
  <2>7. ContentOf(c)' = opened
    BY <2>2, <2>3, <2>6 DEF ShapeOK
  <2>8. Traced(c)' /\ Checked(c)'
    BY <2>6, <2>7 DEF Traced, Checked
  <2>9. ASSUME NEW d \in Chunks, d # c PROVE Traced(d)' /\ Checked(d)'
    <3>1. Named(d) /\ Shared(d) => Shared(d)'
      BY <2>5, SharedStays
    <3>2. pc'[d] = pc[d] /\ FileOf(d)' = FileOf(d)
      BY <2>1, <2>9 DEF ShapeOK
    <3>3. FileOf(d) = <<p, now>> => Shared(d)'
      BY <2>6, <2>9, <3>2 DEF Shared
    <3> HIDE DEF opened
    <3> QED
      BY <2>1, <2>2, <3>1, <3>2, <3>3, ChangeStep
  <2> QED
    BY <2>4, <2>8, <2>9
<1>3. ASSUME NEW c \in Chunks, Close(c) PROVE IInv'
  <2>1. PICK state \in {"whole", "mixed"} :
          /\ state = "mixed" => ContentOf(c) # [state |-> "partial", by |-> c]
          /\ Change(FileOf(c), [state |-> state, by |-> c])
    BY <1>3 DEF Close
  <2> DEFINE closed == [state |-> state, by |-> c]
  <2>2. /\ pc[c] = "writing" /\ pc' = [pc EXCEPT ![c] = "written"]
        /\ UNCHANGED <<now, partition, name, sha, drive>>
    BY <1>3 DEF Close, Goto
  <2>3. closed \in Content
    BY DEF Content
  <2>4. ~Shared(c) => closed = Whole(c)
    BY <2>1, <2>2 DEF Traced, Whole
  <2>5. pc'[c] = "written" /\ ContentOf(c)' = closed /\ (Shared(c) => Shared(c)')
    <3>1. FileOf(c) \in DOMAIN files /\ FileOf(c)' = FileOf(c)
      BY <2>2 DEF ShapeOK
    <3>2. \A d \in Chunks : Named(d) => Named(d)' /\ FileOf(d)' = FileOf(d)
      BY <2>2 DEF ShapeOK
    <3> QED
      BY <2>1, <2>2, <3>1, <3>2, SharedStays DEF Change, ShapeOK
  <2>6. Traced(c)' /\ Checked(c)'
    BY <2>4, <2>5 DEF Traced, Checked, Sound
  <2> HIDE DEF closed
  <2>7. Change(FileOf(c), closed)
    BY <2>1 DEF closed
  <2> QED
    BY <2>2, <2>3, <2>6, <2>7, OwnStep
<1>4. ASSUME NEW c \in Chunks, Rot(c) PROVE IInv'
  <2>1. PICK rubbish \in Rubbish : Change(FileOf(c), Rotten(rubbish))
    BY <1>4 DEF Rot
  <2> DEFINE bad == Rotten(rubbish)
  <2>2. /\ pc[c] \in {"written", "staged"} \union Putting /\ pc' = [pc EXCEPT ![c] = pc[c]]
        /\ UNCHANGED <<now, partition, name, sha, drive>>
    BY <1>4 DEF Rot, ShapeOK
  <2>3. bad \in Content /\ bad.state = "rotten"
    BY DEF Content, Rotten
  <2>4. pc'[c] = pc[c] /\ ContentOf(c)' = bad /\ (Shared(c) => Shared(c)')
    <3>1. FileOf(c) \in DOMAIN files /\ FileOf(c)' = FileOf(c)
      BY <2>2 DEF ShapeOK
    <3>2. \A d \in Chunks : Named(d) => Named(d)' /\ FileOf(d)' = FileOf(d)
      BY <2>2 DEF ShapeOK
    <3> QED
      BY <2>1, <2>2, <3>1, <3>2, SharedStays DEF Change, ShapeOK
  <2> HIDE DEF bad
  <2>5. pc[c] \in Putting => c \in spoiled'
    BY <2>1 DEF Change
  <2>6. Traced(c)' /\ Checked(c)'
    BY <2>2, <2>3, <2>4, <2>5 DEF Traced, Checked, Sound
  <2>7. Change(FileOf(c), bad)
    BY <2>1 DEF bad
  <2> QED
    BY <2>2, <2>3, <2>6, <2>7, OwnStep
<1>5. ASSUME NEW c \in Chunks, Digest(c) PROVE IInv'
  <2>1. /\ pc[c] = "written" /\ pc' = [pc EXCEPT ![c] = "staged"]
        /\ sha' = [sha EXCEPT ![c] = ContentOf(c)]
        /\ UNCHANGED <<now, files, partition, name, remote, spoiled>>
    BY <1>5 DEF Digest, Goto, drive
  <2>2. ShapeOK'
    BY <2>1 DEF ShapeOK
  <2>3. \A d \in Chunks : Named(d) => Named(d)' /\ FileOf(d)' = FileOf(d)
    BY <2>1 DEF ShapeOK
  <2>4. ASSUME NEW d \in Chunks PROVE Traced(d)' /\ Checked(d)'
    <3>1. Named(d) /\ Shared(d) => Shared(d)'
      BY <2>3, SharedStays
    <3>2. CASE d = c
      BY <2>1, <3>1, <3>2 DEF Traced, Checked, ShapeOK
    <3>3. CASE d # c
      BY <2>1, <3>1, <3>3 DEF Traced, Checked, ShapeOK
    <3> QED
      BY <3>2, <3>3
  <2> QED
    BY <2>2, <2>4
<1>6. ASSUME NEW c \in Chunks, Put(c) PROVE IInv'
  <2>1. CASE Verify(c)
    BY <2>1, PutStep DEF Verify, Goto, drive
  <2>2. CASE Find(c)
    <3>1. pc' = [pc EXCEPT ![c] = "path"]
      BY <2>2 DEF Find, ShapeOK
    <3> QED
      BY <2>2, <3>1, PutStep DEF Find
  <2>3. CASE Miss(c)
    BY <2>3, PutStep DEF Miss, Goto, drive
  <2>4. CASE Create(c)
    <3>1. PICK stage \in {"path", "staged"} : pc' = [pc EXCEPT ![c] = stage]
      BY <2>4 DEF Create, Goto, LeaveTo
    <3> QED
      BY <2>4, <3>1, PutStep DEF Create
  <2>5. CASE Upload(c)
    <3>1. PICK stage \in {"archived", "staged"} : pc' = [pc EXCEPT ![c] = stage]
      BY <2>5 DEF Upload, Goto, LeaveTo
    <3>2. \A r \in remote' : r \in remote \/ r.chunk = c
      BY <2>5 DEF Upload
    <3> QED
      BY <2>5, <3>1, <3>2, PutStep DEF Upload
  <2>6. CASE Fail(c)
    BY <2>6, PutStep DEF Fail, Goto, LeaveTo
  <2> QED
    BY <1>6, <2>1, <2>2, <2>3, <2>4, <2>5, <2>6 DEF Put
<1>7. CASE UNCHANGED vars
  BY <1>7 DEF vars, local, drive, ShapeOK, Traced, Checked, Shared
<1> QED
  BY <1>1, <1>2, <1>3, <1>4, <1>5, <1>6, <1>7 DEF Next, Stage

\* A put, the first or a repeated one, and whenever files go bad, uploads what the
\* manifest describes unless the file changed after that put had verified it; and
\* with a file of its own that is the chunk, or what had become of it by the digest
\* (HistoricalDataArchiver.stage_jsonl_gz and verify, GoogleDriveArchiveStore.put).
THEOREM UploadsVerified == Spec => UploadsAreVerified
<1> DEFINE Verified ==
      \A r \in remote' \ remote :
          LET c == r.chunk IN
          c \notin spoiled =>
             /\ r.content = sha[c]
             /\ Shared(c) \/ sha[c] = Whole(c) \/ sha[c].state = "rotten"
<1>1. ASSUME IInv, [Next]_vars PROVE [Verified]_vars
  <2> SUFFICES ASSUME Next, NEW r \in remote', r \notin remote
               PROVE  LET c == r.chunk IN
                      c \notin spoiled =>
                         /\ r.content = sha[c]
                         /\ Shared(c) \/ sha[c] = Whole(c) \/ sha[c].state = "rotten"
    BY <1>1
  <2>1. PICK c \in Chunks : Upload(c)
    BY DEF Next, Tick, Stage, Open, Close, Digest, Rot, Put, Verify, Find, Miss, Create,
           Fail, local, drive
  <2>2. r.chunk = c /\ r.content = ContentOf(c) /\ pc[c] = "path"
    BY <2>1 DEF Upload
  <2>3. Traced(c) /\ Checked(c)
    BY <1>1 DEF IInv
  <2> QED
    BY <2>2, <2>3 DEF Traced, Checked, Sound
<1> QED
  BY InitInvariant, NextInvariant, <1>1, PTL DEF Spec, UploadsAreVerified

-----------------------------------------------------------------------------
(* The folders.                                                               *)

LEMMA SmallestNumber ==
    ASSUME NEW S \in SUBSET Nat, S # {}
    PROVE  \E m \in S : \A n \in S : m <= n
<1>1. PICK m \in S : \A n \in S : ~(<<n, m>> \in OpToRel(<, Nat))
  BY WFMin, NatLessThanWellFounded, Zenon
<1>2. \A n \in S : ~(n < m)
  BY <1>1 DEF OpToRel
<1> QED
  BY <1>2

\* Folders that lie in older ones: their paths up to the n-th.
Older(F, n) == \A i \in 1..n : F[i].parent \in 0..(i - 1)
NextPath(g, F, i) == IF i = 0 THEN <<>> ELSE Append(g[F[i].parent], F[i].name)
ArePaths(g, F, n) == g = [i \in 0..n |-> NextPath(g, F, i)]

\* Every folder has a path, since the parent of a folder is an older one.
LEMMA PathsExist ==
    ASSUME NEW F, NEW n \in Nat, Older(F, n)
    PROVE  \E g : ArePaths(g, F, n)
<1> DEFINE Without == {m \in 0..n : ~\E g : ArePaths(g, F, m)}
<1> SUFFICES ASSUME Without # {} PROVE FALSE
  OBVIOUS
<1>1. PICK m \in Without : \A k \in Without : m <= k
  <2>1. Without \in SUBSET Nat
    OBVIOUS
  <2> HIDE DEF Without
  <2> QED
    BY <2>1, SmallestNumber
<1>2. m # 0
  <2>1. ArePaths([i \in 0..0 |-> <<>>], F, 0)
    BY DEF ArePaths, NextPath
  <2> QED
    BY <2>1
<1>3. PICK g : ArePaths(g, F, m - 1)
  BY <1>1, <1>2
<1> DEFINE h == [i \in 0..m |-> NextPath(g, F, i)]
<1>4. ASSUME NEW i \in 0..(m - 1) PROVE h[i] = g[i]
  <2>1. g = [k \in 0..(m - 1) |-> NextPath(g, F, k)]
    BY <1>3 DEF ArePaths
  <2>2. g[i] = NextPath(g, F, i)
    BY <2>1
  <2>3. h[i] = NextPath(g, F, i)
    BY <1>2
  <2> QED
    BY <2>2, <2>3
<1> HIDE DEF h
<1>5. ASSUME NEW i \in 0..m PROVE NextPath(g, F, i) = NextPath(h, F, i)
  <2>1. i # 0 => F[i].parent \in 0..(m - 1)
    BY DEF Older
  <2> QED
    BY <1>4, <2>1 DEF NextPath
<1>6. ArePaths(h, F, m)
  <2>1. h = [i \in 0..m |-> NextPath(h, F, i)]
    BY <1>5 DEF h
  <2> QED
    BY <2>1 DEF ArePaths
<1> QED
  BY <1>6

\* Folders that are made later change no path.
LEMMA PathsAgree ==
    ASSUME NEW F, NEW n \in Nat, Older(F, n), NEW g, ArePaths(g, F, n),
           NEW G, NEW m \in Nat, NEW h, ArePaths(h, G, m),
           n <= m, \A i \in 1..n : G[i] = F[i]
    PROVE  \A i \in 0..n : h[i] = g[i]
<1> DEFINE Apart == {i \in 0..n : h[i] # g[i]}
<1> SUFFICES ASSUME Apart # {} PROVE FALSE
  OBVIOUS
<1>1. PICK i \in Apart : \A k \in Apart : i <= k
  <2>1. Apart \in SUBSET Nat
    OBVIOUS
  <2> HIDE DEF Apart
  <2> QED
    BY <2>1, SmallestNumber
<1>2. g[i] = NextPath(g, F, i) /\ h[i] = NextPath(h, G, i)
  <2>1. g = [k \in 0..n |-> NextPath(g, F, k)] /\ h = [k \in 0..m |-> NextPath(h, G, k)]
    BY DEF ArePaths
  <2> QED
    BY <2>1
<1>3. i # 0
  BY <1>2 DEF NextPath
<1>4. F[i].parent \in 0..(i - 1) /\ G[i] = F[i]
  BY <1>3 DEF Older
<1>5. h[F[i].parent] = g[F[i].parent]
  BY <1>1, <1>4
<1> QED
  BY <1>2, <1>4, <1>5 DEF NextPath

\* The folders of Drive lie in older ones, so the paths the model speaks of exist.
FoldersOK ==
    /\ folders \in Seq([parent : Nat, name : Names])
    /\ Len(folders) <= MaxFolders
    /\ Older(folders, Len(folders))

PathsIn(F) == CHOOSE g : ArePaths(g, F, Len(F))

LEMMA PathsAre ==
    ASSUME NEW F, Len(F) \in Nat, Older(F, Len(F))
    PROVE  /\ ArePaths(PathsIn(F), F, Len(F))
           /\ PathsIn(F)[0] = <<>>
           /\ \A i \in 1..Len(F) : PathsIn(F)[i] = Append(PathsIn(F)[F[i].parent], F[i].name)
<1>1. PICK g : ArePaths(g, F, Len(F))
  BY PathsExist
<1>2. ArePaths(PathsIn(F), F, Len(F))
  BY <1>1 DEF PathsIn
<1>3. \A i \in 0..Len(F) : PathsIn(F)[i] = NextPath(PathsIn(F), F, i)
  <2>1. PathsIn(F) = [i \in 0..Len(F) |-> NextPath(PathsIn(F), F, i)]
    BY <1>2 DEF ArePaths
  <2> QED
    BY <2>1
<1>4. NextPath(PathsIn(F), F, 0) = <<>>
  BY DEF NextPath
<1>5. \A i \in 1..Len(F) :
          NextPath(PathsIn(F), F, i) = Append(PathsIn(F)[F[i].parent], F[i].name)
  BY DEF NextPath
<1> QED
  BY <1>2, <1>3, <1>4, <1>5

LEMMA PathIs == Path = PathsIn(folders) /\ Path' = PathsIn(folders')
<1> QED
  BY DEF Path, PathsIn, ArePaths, NextPath

LEMMA PathsStay ==
    ASSUME FoldersOK, FoldersOK', Len(folders) <= Len(folders'),
           \A i \in 1..Len(folders) : folders'[i] = folders[i]
    PROVE  \A i \in 0..Len(folders) : Path'[i] = Path[i]
<1>1. ArePaths(Path, folders, Len(folders)) /\ ArePaths(Path', folders', Len(folders'))
  BY PathsAre, PathIs DEF FoldersOK
<1>2. Len(folders) \in Nat /\ Len(folders') \in Nat /\ Older(folders, Len(folders))
  BY DEF FoldersOK
<1> QED
  BY <1>1, <1>2, PathsAgree

\* The first d names of a partition.
Front(p, d) == [k \in 1..d |-> p[k]]

LEMMA FrontFacts ==
    ASSUME NEW p \in Seq(Names)
    PROVE  /\ Front(p, 0) = <<>>
           /\ Front(p, Len(p)) = p
           /\ \A d \in 0..Len(p) : Front(p, d) \in Seq(Names) /\ Len(Front(p, d)) = d
           /\ \A d \in Nat : d < Len(p) =>
                 p[d + 1] \in Names /\ Append(Front(p, d), p[d + 1]) = Front(p, d + 1)
<1> QED
  BY DEF Front

-----------------------------------------------------------------------------
(* Where chunks are filed.                                                    *)

\* A chunk that was opened has a file with something in it, and a digest is one of
\* what files hold.
Contents ==
    /\ \A c \in Chunks : Named(c) => ContentOf(c) \in Content
    /\ \A c \in Chunks : ~Named(c) => partition[c] = <<>>
    /\ sha \in [Chunks -> Content \union {Absent}]

\* A put stands in the folder that the first names of its partition lead to, and a
\* file lies where all of them lead.
StandsAt(c) ==
    /\ at[c] \in 0..Len(folders)
    /\ depth[c] \in 0..Len(partition[c])
    /\ Path[at[c]] = Front(partition[c], depth[c])
    /\ pc[c] \notin Putting => at[c] = 0 /\ depth[c] = 0
    /\ pc[c] = "create" => depth[c] < Len(partition[c])
LiesAt(r) ==
    /\ r \in [chunk : Chunks, name : 0..LastSecond, content : Content, folder : 1..Len(folders)]
    /\ Named(r.chunk)
    /\ Path[r.folder] = partition[r.chunk]

Filing ==
    /\ FoldersOK
    /\ at \in [Chunks -> Nat] /\ depth \in [Chunks -> Nat]
    /\ \A c \in Chunks : StandsAt(c)
    /\ \A r \in remote : LiesAt(r)

FInv == ShapeOK /\ Contents /\ Filing

LEMMA InitFiling == Init => FInv
<1> SUFFICES ASSUME Init PROVE FInv
  OBVIOUS
<1>1. ShapeOK
  BY InitInvariant DEF IInv
<1>2. Contents
  BY <1>1 DEF Init, Contents
<1>3. FoldersOK /\ Path[0] = <<>>
  <2>1. folders = <<>> /\ Len(folders) = 0
    BY DEF Init
  <2>2. FoldersOK
    BY <2>1, BoundsAssumption DEF FoldersOK, Older
  <2> QED
    BY <2>1, <2>2, PathIs, PathsAre DEF FoldersOK
<1>4. Front(<<>>, 0) = <<>>
  BY DEF Front
<1>5. Filing
  BY <1>3, <1>4 DEF Init, Filing, StandsAt
<1> QED
  BY <1>1, <1>2, <1>5 DEF FInv

\* A chunk's partition has names, once there is one, and leads to a folder below the
\* root.
LEMMA PartitionNames ==
    ASSUME FInv, NEW c \in Chunks
    PROVE  /\ partition[c] \in Seq(Names)
           /\ Named(c) => Len(partition[c]) > 0
<1>1. CASE Named(c)
  <2>1. partition[c] \in Seq(Names) \ {<<>>}
    BY <1>1, PartitionAssumption DEF FInv, ShapeOK
  <2> QED
    BY <2>1
<1>2. CASE ~Named(c)
  <2>1. partition[c] = <<>>
    BY <1>2 DEF FInv, Contents
  <2> QED
    BY <1>2, <2>1
<1> QED
  BY <1>1, <1>2

\* Steps that leave Drive alone.
LEMMA DriveStays ==
    ASSUME FInv, UNCHANGED drive, ShapeOK', Contents',
           \A c \in Chunks :
              /\ partition'[c] = partition[c] \/ ~Named(c)
              /\ Named(c) => Named(c)'
              /\ pc'[c] = pc[c] \/ (pc'[c] \notin Putting /\ pc[c] \notin Putting)
                 \/ (pc'[c] \in Putting /\ (pc'[c] = "create" => depth[c] < Len(partition[c])))
              /\ Named(c) \/ pc'[c] \notin Putting
    PROVE  FInv'
<1> USE DEF FInv
<1>1. FoldersOK' /\ Path' = Path /\ Path[0] = <<>>
  <2>1. FoldersOK' /\ Path' = Path
    BY PathIs DEF drive, Filing, FoldersOK
  <2> QED
    BY <2>1, PathIs, PathsAre DEF Filing, FoldersOK
<1>2. ASSUME NEW c \in Chunks PROVE StandsAt(c)'
  <2>1. CASE Named(c)
    BY <1>1, <1>2, <2>1 DEF drive, Filing, StandsAt
  <2>2. CASE ~Named(c)
    <3>1. at'[c] = 0 /\ depth'[c] = 0 /\ pc'[c] \notin Putting
      BY <2>2 DEF drive, Filing, StandsAt
    <3>2. partition'[c] \in Seq(Names)
      <4>1. partition'[c] \in Partitions \/ partition'[c] = <<>>
        BY DEF ShapeOK
      <4>2. <<>> \in Seq(Names)
        OBVIOUS
      <4> QED
        BY <4>1, <4>2, PartitionAssumption
    <3>3. Front(partition'[c], 0) = <<>> /\ Len(partition'[c]) \in Nat
      BY <3>2 DEF Front
    <3>4. 0 \in 0..Len(folders')
      BY <1>1 DEF FoldersOK
    <3> QED
      BY <1>1, <3>1, <3>3, <3>4 DEF StandsAt
  <2> QED
    BY <2>1, <2>2
<1>3. ASSUME NEW r \in remote' PROVE LiesAt(r)'
  <2>1. LiesAt(r)
    BY DEF drive, Filing
  <2> QED
    BY <1>1, <2>1 DEF drive, LiesAt
<1> QED
  BY <1>1, <1>2, <1>3 DEF drive, Filing

\* Steps of a put: names and files stay, folders are only added, and one chunk moves.
LEMMA PutFiles ==
    ASSUME FInv, ShapeOK', UNCHANGED local, FoldersOK', Len(folders) <= Len(folders'),
           \A i \in 1..Len(folders) : folders'[i] = folders[i],
           NEW c \in Chunks, NEW stage \in {"staged", "archived"} \union Putting,
           pc' = [pc EXCEPT ![c] = stage], Named(c),
           NEW to, NEW d, at' = [at EXCEPT ![c] = to], depth' = [depth EXCEPT ![c] = d],
           StandsAt(c)', \A r \in remote' \ remote : LiesAt(r)'
    PROVE  FInv'
<1> USE DEF FInv
<1>1. \A i \in 0..Len(folders) : Path'[i] = Path[i]
  BY PathsStay DEF Filing
<1>2. Len(folders) \in Nat /\ Len(folders') \in Nat
  BY DEF Filing, FoldersOK
<1>3. Contents'
  BY DEF Contents, local, ShapeOK
<1>4. ASSUME NEW x \in Chunks PROVE StandsAt(x)'
  <2>1. CASE x # c
    <3>1. at'[x] = at[x] /\ depth'[x] = depth[x] /\ pc'[x] = pc[x] /\ partition' = partition
      BY <1>4, <2>1 DEF Filing, local, ShapeOK
    <3>2. StandsAt(x) /\ at[x] \in 0..Len(folders')
      BY <1>2, <1>4 DEF Filing, StandsAt
    <3> QED
      BY <1>1, <3>1, <3>2 DEF StandsAt
  <2> QED
    BY <2>1
<1>5. ASSUME NEW r \in remote' PROVE LiesAt(r)'
  <2>1. CASE r \in remote
    <3>1. LiesAt(r)
      BY <2>1 DEF Filing
    <3>2. r.folder \in 1..Len(folders')
      BY <1>2, <3>1 DEF LiesAt
    <3> QED
      BY <1>1, <1>2, <3>1, <3>2 DEF LiesAt, local, ShapeOK
  <2> QED
    BY <2>1
<1>6. at' \in [Chunks -> Nat] /\ depth' \in [Chunks -> Nat]
  <2>1. at'[c] = to /\ depth'[c] = d
    BY DEF Filing
  <2>2. to \in Nat /\ d \in Nat
    BY <2>1 DEF StandsAt
  <2> QED
    BY <2>2 DEF Filing
<1> QED
  BY <1>3, <1>4, <1>5, <1>6 DEF Filing

LEMMA NextFiling == IInv /\ FInv /\ [Next]_vars => FInv'
<1> SUFFICES ASSUME IInv, FInv, [Next]_vars PROVE FInv'
  OBVIOUS
<1>0. ShapeOK'
  BY NextInvariant DEF IInv
<1> USE <1>0
<1>1. CASE Tick
  <2>1. Contents'
    BY <1>1 DEF Tick, drive, FInv, Contents, ShapeOK
  <2> QED
    BY <1>1, <2>1, DriveStays DEF Tick
<1>2. ASSUME NEW c \in Chunks, NEW p \in Partitions, Open(c, p) PROVE FInv'
  <2>1. /\ pc[c] = "new" /\ pc' = [pc EXCEPT ![c] = "writing"]
        /\ partition' = [partition EXCEPT ![c] = p]
        /\ name' = [name EXCEPT ![c] = now]
        /\ files' = [files EXCEPT ![<<p, now>>] = [state |-> "partial", by |-> c]]
        /\ sha' = sha /\ UNCHANGED drive
    BY <1>2 DEF Open, Goto, Change
  <2>2. [state |-> "partial", by |-> c] \in Content
    BY DEF Content
  <2>3. ASSUME NEW d \in Chunks, Named(d)' PROVE ContentOf(d)' \in Content
    <3>1. CASE d = c
      BY <2>1, <2>2, <3>1 DEF FInv, ShapeOK
    <3>2. CASE d # c
      <4>1. FileOf(d)' = FileOf(d) /\ Named(d) /\ FileOf(d) \in DOMAIN files
        BY <2>1, <2>3, <3>2 DEF FInv, ShapeOK
      <4> QED
        BY <2>1, <2>2, <4>1 DEF FInv, Contents
    <3> QED
      BY <3>1, <3>2
  <2>4. Contents'
    BY <2>1, <2>3 DEF Contents, FInv, ShapeOK
  <2> QED
    BY <2>1, <2>4, DriveStays DEF FInv, ShapeOK
<1>3. ASSUME NEW c \in Chunks, NEW content \in Content, NEW stage \in Stages, Named(c),
             stage = pc[c] \/ (pc[c] = "writing" /\ stage = "written"),
             pc' = [pc EXCEPT ![c] = stage],
             files' = [files EXCEPT ![FileOf(c)] = content],
             UNCHANGED <<now, partition, name, sha, drive>>
      PROVE  FInv'
  <2>1. Contents'
    BY <1>3 DEF Contents, FInv, ShapeOK
  <2>2. stage # "new"
    BY <1>3
  <2>3. ASSUME NEW d \in Chunks
        PROVE  /\ Named(d) => Named(d)'
               /\ pc'[d] = pc[d] \/ (pc'[d] \notin Putting /\ pc[d] \notin Putting)
               /\ Named(d) \/ pc'[d] \notin Putting
    BY <1>3, <2>2 DEF FInv, ShapeOK
  <2> QED
    BY <1>3, <2>1, <2>3, DriveStays
<1>4. ASSUME NEW c \in Chunks, Close(c) PROVE FInv'
  <2>1. PICK state \in {"whole", "mixed"} :
          files' = [files EXCEPT ![FileOf(c)] = [state |-> state, by |-> c]]
    BY <1>4 DEF Close, Change
  <2>2. [state |-> state, by |-> c] \in Content
    BY DEF Content
  <2> QED
    BY <1>3, <1>4, <2>1, <2>2 DEF Close, Goto
<1>5. ASSUME NEW c \in Chunks, Rot(c) PROVE FInv'
  <2>1. PICK rubbish \in Rubbish : files' = [files EXCEPT ![FileOf(c)] = Rotten(rubbish)]
    BY <1>5 DEF Rot, Change
  <2>2. Rotten(rubbish) \in Content
    BY DEF Content, Rotten
  <2>3. /\ Named(c) /\ pc[c] \in Stages /\ pc' = [pc EXCEPT ![c] = pc[c]]
        /\ UNCHANGED <<now, partition, name, sha, drive>>
    BY <1>5 DEF Rot, FInv, ShapeOK
  <2> QED
    BY <1>3, <2>1, <2>2, <2>3
<1>6. ASSUME NEW c \in Chunks, Digest(c) PROVE FInv'
  <2>1. /\ pc[c] = "written" /\ pc' = [pc EXCEPT ![c] = "staged"]
        /\ sha' = [sha EXCEPT ![c] = ContentOf(c)]
        /\ UNCHANGED <<now, files, partition, name, drive>>
    BY <1>6 DEF Digest, Goto
  <2>2. Contents'
    BY <2>1 DEF Contents, FInv, ShapeOK
  <2> QED
    BY <2>1, <2>2, DriveStays DEF FInv, ShapeOK
<1>7. ASSUME NEW c \in Chunks, NEW stage \in Putting, UNCHANGED <<local, drive>>, Named(c),
             pc' = [pc EXCEPT ![c] = stage],
             stage = "create" => depth[c] < Len(partition[c])
      PROVE  FInv'
  <2>1. Contents'
    BY <1>7 DEF Contents, FInv, ShapeOK, local
  <2> QED
    BY <1>7, <2>1, DriveStays DEF FInv, ShapeOK, local
<1>8. ASSUME NEW c \in Chunks, Verify(c) \/ Miss(c) PROVE FInv'
  BY <1>7, <1>8 DEF Verify, Miss, Goto
\* One name further down: the folder is there, or it was just made.
<1>9. ASSUME NEW c \in Chunks, NEW i \in 1..Len(folders'), pc[c] \in Putting,
             UNCHANGED local, FoldersOK', Len(folders) <= Len(folders'),
             \A k \in 1..Len(folders) : folders'[k] = folders[k],
             depth[c] < Len(partition[c]),
             folders'[i] = [parent |-> at[c], name |-> NextName(c)],
             Descend(c, i), pc' = [pc EXCEPT ![c] = "path"], remote' = remote
      PROVE  FInv'
  <2>1. StandsAt(c) /\ partition[c] \in Seq(Names)
    BY PartitionNames DEF FInv, Filing
  <2>2. Path'[at[c]] = Path[at[c]]
    BY <1>9, <2>1, PathsStay DEF FInv, Filing, StandsAt
  <2>3. Path'[i] = Append(Path'[at[c]], NextName(c))
    <3>1. Path' = PathsIn(folders')
      BY PathIs
    <3>2. Len(folders') \in Nat /\ Older(folders', Len(folders'))
      BY <1>9 DEF FoldersOK
    <3>3. PathsIn(folders')[i] = Append(PathsIn(folders')[folders'[i].parent], folders'[i].name)
      BY <1>9, <3>2, PathsAre
    <3>4. folders'[i].parent = at[c] /\ folders'[i].name = NextName(c)
      BY <1>9
    <3> QED
      BY <3>1, <3>3, <3>4
  <2>4. /\ depth[c] \in Nat /\ depth[c] + 1 \in 0..Len(partition[c])
        /\ Path'[i] = Front(partition[c], depth[c] + 1)
    <3>1. depth[c] \in Nat /\ Len(partition[c]) \in Nat
      BY <2>1 DEF FInv, Filing
    <3>2. Append(Front(partition[c], depth[c]), NextName(c)) = Front(partition[c], depth[c] + 1)
      BY <1>9, <2>1, <3>1, FrontFacts DEF NextName
    <3>3. Path[at[c]] = Front(partition[c], depth[c])
      BY <2>1 DEF StandsAt
    <3> QED
      BY <1>9, <2>2, <2>3, <3>1, <3>2, <3>3
  <2>5. at'[c] = i /\ depth'[c] = depth[c] + 1 /\ pc'[c] = "path"
    BY <1>9 DEF Descend, FInv, ShapeOK, Filing
  <2>6. i \in 0..Len(folders')
    BY <1>9
  <2>7. StandsAt(c)'
    BY <1>9, <2>4, <2>5, <2>6 DEF StandsAt, local
  <2> QED
    BY <1>9, <2>7, PutFiles DEF Descend
<1>10. ASSUME NEW c \in Chunks, Find(c) PROVE FInv'
  <2>1. PICK i \in Listed(c) : Descend(c, i)
    BY <1>10 DEF Find
  <2>2. pc' = [pc EXCEPT ![c] = "path"]
    BY <1>10 DEF Find, FInv, ShapeOK
  <2>3. UNCHANGED <<local, folders, remote>> /\ FoldersOK /\ FoldersOK'
    BY <1>10 DEF Find, FInv, Filing, FoldersOK
  <2>4. i \in 1..Len(folders) /\ folders[i] = [parent |-> at[c], name |-> NextName(c)]
    BY <2>1, <2>3 DEF Listed, FoldersOK
  <2>5. Len(folders) \in Nat
    BY <2>3 DEF FoldersOK
  <2>6. pc[c] \in Putting /\ depth[c] < Len(partition[c])
    BY <1>10 DEF Find
  <2>7. UNCHANGED local /\ folders' = folders /\ remote' = remote
    BY <2>3
  <2>8. /\ Len(folders) <= Len(folders') /\ i \in 1..Len(folders')
        /\ folders'[i] = [parent |-> at[c], name |-> NextName(c)]
        /\ \A k \in 1..Len(folders) : folders'[k] = folders[k]
    BY <2>4, <2>5, <2>7
  <2> QED
    BY <1>9, <2>1, <2>2, <2>3, <2>6, <2>7, <2>8
\* A put that is over leaves its chunk at the root.
<1>11. ASSUME NEW c \in Chunks, NEW stage \in {"staged", "archived"}, LeaveTo(c, stage),
              Named(c), UNCHANGED local, FoldersOK', Len(folders) <= Len(folders'),
              \A k \in 1..Len(folders) : folders'[k] = folders[k],
              \A r \in remote' \ remote : LiesAt(r)'
       PROVE  FInv'
  <2>1. at'[c] = 0 /\ depth'[c] = 0 /\ pc'[c] = stage
    BY <1>11 DEF LeaveTo, Goto, FInv, ShapeOK, Filing
  <2>2. partition[c] \in Seq(Names) /\ Front(partition[c], 0) = <<>>
    BY PartitionNames, FrontFacts
  <2>3. Path'[0] = <<>>
    BY <1>11, PathIs, PathsAre DEF FoldersOK
  <2>4. 0 \in 0..Len(folders') /\ 0 \in 0..Len(partition[c])
    BY <1>11, <2>2 DEF FoldersOK
  <2>5. StandsAt(c)'
    BY <1>11, <2>1, <2>2, <2>3, <2>4 DEF StandsAt, local
  <2> QED
    BY <1>11, <2>5, PutFiles DEF LeaveTo, Goto
<1>12. ASSUME NEW c \in Chunks, Create(c) PROVE FInv'
  <2> DEFINE new == [parent |-> at[c], name |-> NextName(c)]
  <2>1. /\ pc[c] = "create" /\ Len(folders) < MaxFolders /\ UNCHANGED <<local, remote>>
        /\ folders' = Append(folders, new)
    BY <1>12 DEF Create
  <2>2. FoldersOK /\ StandsAt(c) /\ partition[c] \in Seq(Names)
    BY PartitionNames DEF FInv, Filing
  <2>3. new \in [parent : Nat, name : Names]
    <3>1. depth[c] \in Nat /\ depth[c] < Len(partition[c])
      BY <2>1, <2>2 DEF StandsAt
    <3>2. NextName(c) \in Names
      BY <2>2, <3>1, FrontFacts DEF NextName
    <3>3. at[c] \in Nat
      BY <2>2 DEF StandsAt, FoldersOK
    <3> QED
      BY <3>2, <3>3
  <2> HIDE DEF new
  <2>4. /\ folders' \in Seq([parent : Nat, name : Names])
        /\ Len(folders') = Len(folders) + 1
        /\ folders'[Len(folders) + 1] = new
        /\ \A k \in 1..Len(folders) : folders'[k] = folders[k]
        /\ Len(folders) \in Nat
    BY <2>1, <2>2, <2>3 DEF FoldersOK
  <2>5. FoldersOK'
    <3>1. at[c] \in 0..Len(folders)
      BY <2>2 DEF StandsAt
    <3>2. ASSUME NEW k \in 1..Len(folders') PROVE folders'[k].parent \in 0..(k - 1)
      <4>1. CASE k \in 1..Len(folders)
        BY <2>2, <2>4, <4>1 DEF FoldersOK, Older
      <4>2. CASE k = Len(folders) + 1
        BY <2>4, <3>1, <4>2 DEF new
      <4> QED
        BY <2>4, <4>1, <4>2
    <3> QED
      BY <2>1, <2>4, <3>2, BoundsAssumption DEF FoldersOK, Older
  <2>6. CASE Descend(c, Len(folders) + 1) /\ Goto(c, "path")
    <3>1. pc[c] \in Putting /\ pc' = [pc EXCEPT ![c] = "path"] /\ remote' = remote
      BY <2>1, <2>6 DEF Goto
    <3>2. depth[c] < Len(partition[c])
      BY <2>1, <2>2 DEF StandsAt
    <3>3. Len(folders) + 1 \in 1..Len(folders') /\ Len(folders) <= Len(folders')
      BY <2>4
    <3>4. folders'[Len(folders) + 1] = [parent |-> at[c], name |-> NextName(c)]
      BY <2>4 DEF new
    <3> QED
      BY <1>9, <2>1, <2>4, <2>5, <2>6, <3>1, <3>2, <3>3, <3>4
  <2>7. CASE LeaveTo(c, "staged")
    BY <1>11, <2>1, <2>4, <2>5, <2>7
  <2> QED
    BY <1>12, <2>6, <2>7 DEF Create
<1>13. ASSUME NEW c \in Chunks, Upload(c) PROVE FInv'
  <2> DEFINE new == [chunk |-> c, name |-> name[c], content |-> ContentOf(c), folder |-> at[c]]
  <2>1. /\ pc[c] = "path" /\ depth[c] = Len(partition[c])
        /\ remote' = remote \union {new} /\ UNCHANGED <<local, folders>>
    BY <1>13 DEF Upload
  <2>2. FoldersOK /\ FoldersOK' /\ Path' = Path /\ Len(folders) \in Nat
    BY <2>1, PathIs DEF FInv, Filing, FoldersOK
  <2>3. Path[at[c]] = partition[c] /\ partition[c] # <<>> /\ at[c] \in 0..Len(folders)
    BY <2>1, PartitionNames, FrontFacts DEF FInv, Filing, StandsAt
  <2>4. at[c] # 0
    BY <2>2, <2>3, PathIs, PathsAre DEF FoldersOK
  <2>5. new \in [chunk : Chunks, name : 0..LastSecond, content : Content,
                 folder : 1..Len(folders)]
    BY <2>1, <2>2, <2>3, <2>4 DEF FInv, ShapeOK, Contents
  <2>6. PICK stage \in {"archived", "staged"} : LeaveTo(c, stage)
    BY <1>13 DEF Upload
  <2>7. Named(c)' /\ partition' = partition
    BY <2>1, <2>6 DEF LeaveTo, Goto, local, FInv, ShapeOK
  <2>8. ASSUME NEW r \in remote' \ remote PROVE LiesAt(r)'
    <3>1. r = new /\ r.chunk = c /\ r.folder = at[c]
      BY <2>1
    <3>2. r \in [chunk : Chunks, name : 0..LastSecond, content : Content,
                folder : 1..Len(folders')]
      BY <2>1, <2>5, <3>1
    <3> QED
      BY <2>2, <2>3, <2>7, <3>1, <3>2 DEF LiesAt
  <2>9. /\ Named(c) /\ UNCHANGED local /\ Len(folders) <= Len(folders')
        /\ \A k \in 1..Len(folders) : folders'[k] = folders[k]
    BY <2>1, <2>2
  <2> QED
    BY <1>11, <2>2, <2>6, <2>8, <2>9
<1>14. ASSUME NEW c \in Chunks, Fail(c) PROVE FInv'
  <2>1. pc[c] \in Putting /\ LeaveTo(c, "staged") /\ UNCHANGED <<local, folders, remote>>
    BY <1>14 DEF Fail
  <2>2. FoldersOK' /\ Len(folders) \in Nat
    BY <2>1 DEF FInv, Filing, FoldersOK
  <2> QED
    BY <1>11, <2>1, <2>2
<1>15. CASE UNCHANGED vars
  <2>1. Contents'
    BY <1>15 DEF vars, local, FInv, Contents
  <2> QED
    BY <1>15, <2>1, DriveStays DEF vars, local
<1> QED
  BY <1>1, <1>2, <1>4, <1>5, <1>6, <1>8, <1>10, <1>12, <1>13, <1>14, <1>15
  DEF Next, Stage, Put

LEMMA FilingInvariant == Spec => []FInv
<1> QED
  BY InitInvariant, NextInvariant, InitFiling, NextFiling, PTL DEF Spec

\* Folders lie in older ones, a put stands as deep as it has come, and every file in
\* Drive was put into a folder below the root.
THEOREM TypeCorrect == Spec => []TypeOK
<1>1. ASSUME FInv PROVE TypeOK
  <2> USE <1>1 DEF FInv
  <2>1. FoldersOK /\ Len(folders) \in Nat
    BY DEF Filing, FoldersOK
  <2>2. Len(folders) \in 0..MaxFolders
    BY <2>1, BoundsAssumption DEF FoldersOK
  <2>3. ASSUME NEW i \in DOMAIN folders
        PROVE  folders[i].parent \in 0..(i - 1) /\ folders[i].name \in Names
    <3>0. folders \in Seq([parent : Nat, name : Names])
      BY <2>1 DEF FoldersOK
    <3>1. i \in 1..Len(folders)
      BY <2>3, <3>0
    <3>2. folders[i] \in [parent : Nat, name : Names]
      <4> DEFINE Rows == [parent : Nat, name : Names]
      <4>1. folders \in Seq(Rows)
        BY <3>0
      <4> HIDE DEF Rows
      <4>2. folders[i] \in Rows
        BY <3>1, <4>1
      <4> QED
        BY <4>2 DEF Rows
    <3> QED
      BY <2>1, <3>1, <3>2 DEF FoldersOK, Older
  <2>4. ASSUME NEW c \in Chunks
        PROVE  /\ at[c] \in 0..Len(folders)
               /\ depth[c] = Len(Path[at[c]]) /\ (pc[c] \notin Putting => at[c] = 0)
    <3>1. StandsAt(c) /\ partition[c] \in Seq(Names)
      BY PartitionNames DEF Filing
    <3>2. Len(Front(partition[c], depth[c])) = depth[c]
      BY <3>1, FrontFacts DEF StandsAt
    <3> QED
      BY <3>1, <3>2 DEF StandsAt
  <2>5. at \in [Chunks -> 0..Len(folders)]
    BY <2>4 DEF Filing
  <2> QED
    BY <2>2, <2>3, <2>4, <2>5 DEF TypeOK, ShapeOK, Contents, Filing, LiesAt
<1> QED
  BY <1>1, FilingInvariant, PTL

\* Wherever puts overlapped, were interrupted or lost their answers, and however many
\* folders of one name that left behind, a chunk lies under the names of its partition
\* (GoogleDriveArchiveStore.ensure_folder_path, put).
THEOREM FiledWhereItBelongs == Spec => []FiledUnderPartition
<1>1. FInv => FiledUnderPartition
  BY DEF FInv, Filing, LiesAt, FiledUnderPartition
<1> QED
  BY <1>1, FilingInvariant, PTL
=============================================================================
