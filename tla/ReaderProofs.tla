---------------------------- MODULE ReaderProofs ----------------------------
(***************************************************************************)
(* Theorems about what readers get: from the file server of the CTS        *)
(* canister (Frontcode), for every number of files, creators, readers and  *)
(* chunks; and from the views of the trades and the candles (TradeViews),  *)
(* for every number of positions, trades and canisters, every capacity and *)
(* every size of the chunks.                                               *)
(*                                                                         *)
(* LiveInv, what is live, does not use what sha256_hash computes: it may   *)
(* be any operator of the chunks.  What readers stream does: Joined is its *)
(* loop over the chunks.                                                   *)
(*                                                                         *)
(* The views are computed from where the trades are, so their theorems are *)
(* consequences of LogsInv: queue, buffer and canisters have the trades in *)
(* a row, each canister with its index.  The loops of the views (At, the   *)
(* chunks one after another, the canisters one after another) are          *)
(* recursive functions: StepByStep, LoopExists and SameLoop are about all  *)
(* of them.  The candles have an invariant of their own, CandlesOK.        *)
(***************************************************************************)
EXTENDS Frontcode, TradeViews, Sums, SequenceTheorems, TLAPS

----------------------------------------------------------------------------
(* The file server *)

(* The tree of the hashes is a record, also after its shape is changed.    *)
TreeOK == frontcode_files_hashes =
            [hashes |-> frontcode_files_hashes.hashes, shape |-> frontcode_files_hashes.shape]

(* The hash of a proposal is that of the files the controller saw.         *)
SawWhatItProposed ==
  proposal # None =>
    /\ proposal.files = [f \in DOMAIN proposal.files |-> proposal.files[f]]
    /\ proposal.batch_hash = {<<f, proposal.files[f]>> : f \in DOMAIN proposal.files}

(* The inductive invariant. *)
LiveInv == TreeOK /\ CertifiedFilesServed /\ SawWhatItProposed /\ LiveAsReviewed

(* The hash of a batch tells its files, by name and content.               *)
LEMMA HashTellsFiles ==
  ASSUME NEW seen, NEW files,
         seen = [f \in DOMAIN seen |-> seen[f]],
         {<<f, seen[f]>> : f \in DOMAIN seen} = hash_of_files(files)
  PROVE  Hashes(files) = seen
<1>1. \A f \in DOMAIN seen : f \in DOMAIN files /\ seen[f] = sha256_hash(files[f])
  <2> SUFFICES ASSUME NEW f \in DOMAIN seen
               PROVE  f \in DOMAIN files /\ seen[f] = sha256_hash(files[f])
    OBVIOUS
  <2>1. <<f, seen[f]>> \in hash_of_files(files)
    OBVIOUS
  <2>2. PICK g \in DOMAIN files : <<f, seen[f]>> = <<g, sha256_hash(files[g])>>
    BY <2>1 DEF hash_of_files
  <2> QED
    BY <2>2
<1>2. \A f \in DOMAIN files : f \in DOMAIN seen
  <2> SUFFICES ASSUME NEW f \in DOMAIN files
               PROVE  f \in DOMAIN seen
    OBVIOUS
  <2>1. <<f, sha256_hash(files[f])>> \in {<<g, seen[g]>> : g \in DOMAIN seen}
    BY DEF hash_of_files
  <2>2. PICK g \in DOMAIN seen : <<f, sha256_hash(files[f])>> = <<g, seen[g]>>
    BY <2>1
  <2> QED
    BY <2>2
<1>3. DOMAIN files = DOMAIN seen
  BY <1>1, <1>2
<1> QED
  BY <1>1, <1>3 DEF Hashes

LEMMA InitLive == Init => LiveInv
<1> SUFFICES ASSUME Init
             PROVE  LiveInv
  OBVIOUS
<1>1. Hashes(NoFiles) = NoFiles
  BY DEF Hashes, NoFiles
<1>2. PICK shape \in Shape : frontcode_files_hashes = FilesHashes(NoFiles, shape)
  BY DEF Init
<1>3. TreeOK
  BY <1>2 DEF TreeOK, FilesHashes
<1>4. view_file_hashes = Hashes(frontcode_files)
  BY <1>2 DEF Init, view_file_hashes, FilesHashes, Hashes
<1>5. DOMAIN frontcode_files = {}
  BY DEF Init, NoFiles
<1>6. CertifiedFilesServed
  BY <1>4, <1>5 DEF CertifiedFilesServed, view_live_files_hash
<1>7. SawWhatItProposed
  BY DEF Init, SawWhatItProposed
<1>8. LiveAsReviewed
  BY <1>1 DEF Init, LiveAsReviewed
<1> QED
  BY <1>3, <1>6, <1>7, <1>8 DEF LiveInv

(* A step that sets the files, their tree and the root together.           *)
LEMMA GoesLive ==
  ASSUME NEW hashes, NEW shape, SawWhatItProposed,
         set_root_hash([hashes |-> hashes, shape |-> shape]),
         hashes = Hashes(frontcode_files'), hashes = reviewed',
         UNCHANGED proposal
  PROVE  LiveInv'
<1>1. frontcode_files_hashes' = [hashes |-> hashes, shape |-> shape]
  BY DEF set_root_hash
<1>2. certified_data' = root_hash(frontcode_files_hashes')
  BY <1>1 DEF set_root_hash
<1>3. TreeOK'
  BY <1>1 DEF TreeOK
<1>4. CertifiedFilesServed'
  BY <1>1, <1>2 DEF CertifiedFilesServed, view_file_hashes, root_hash, Hashes
<1>5. LiveAsReviewed'
  BY DEF LiveAsReviewed, Hashes
<1>6. SawWhatItProposed'
  BY DEF SawWhatItProposed
<1> QED
  BY <1>3, <1>4, <1>5, <1>6 DEF LiveInv

LEMMA StaysLive ==
  ASSUME LiveInv, UNCHANGED <<liveVars, proposal>>
  PROVE  LiveInv'
BY DEF LiveInv, TreeOK, CertifiedFilesServed, SawWhatItProposed, LiveAsReviewed, liveVars,
       view_file_hashes, view_live_files_hash, hash_of_files, root_hash, Hashes

LEMMA CommitLive ==
  ASSUME LiveInv, controller_commit_batch
  PROVE  LiveInv'
<1>1. Hashes(current_batch) = proposal.files
  BY HashTellsFiles DEF controller_commit_batch, LiveInv, SawWhatItProposed
<1>2. PICK shape \in Shape : set_root_hash(FilesHashes(current_batch, shape))
  BY DEF controller_commit_batch
<1>3. FilesHashes(current_batch, shape) = [hashes |-> Hashes(current_batch), shape |-> shape]
  BY DEF FilesHashes, Hashes
<1>4. /\ frontcode_files' = current_batch /\ reviewed' = proposal.files
      /\ UNCHANGED proposal
  BY DEF controller_commit_batch
<1>5. Hashes(frontcode_files') = Hashes(current_batch)
  BY <1>4
<1> QED
  BY <1>1, <1>2, <1>3, <1>4, <1>5, GoesLive DEF LiveInv

LEMMA ClearFilesLive ==
  ASSUME LiveInv, controller_clear_files
  PROVE  LiveInv'
<1>1. PICK shape \in Shape : set_root_hash(FilesHashes(NoFiles, shape))
  BY DEF controller_clear_files
<1>2. FilesHashes(NoFiles, shape) = [hashes |-> NoFiles, shape |-> shape]
  BY DEF FilesHashes, NoFiles
<1>3. /\ frontcode_files' = NoFiles /\ reviewed' = NoFiles
      /\ UNCHANGED proposal
  BY DEF controller_clear_files
<1>4. NoFiles = Hashes(frontcode_files')
  BY <1>3 DEF Hashes, NoFiles
<1> QED
  BY <1>1, <1>2, <1>3, <1>4, GoesLive DEF LiveInv

LEMMA ClearFileLive ==
  ASSUME LiveInv, NEW f, controller_clear_file(f)
  PROVE  LiveInv'
<1>1. PICK shape \in Shape : set_root_hash(HashesWithout(f, shape))
  BY DEF controller_clear_file
<1>2. frontcode_files_hashes.hashes = Hashes(frontcode_files)
  BY DEF LiveInv, CertifiedFilesServed, view_file_hashes
<1>3. /\ frontcode_files' = Without(frontcode_files, f)
      /\ reviewed' = Without(reviewed, f)
      /\ UNCHANGED proposal
  BY DEF controller_clear_file
<1>4. Without(Hashes(frontcode_files), f) = Hashes(frontcode_files')
  BY <1>3 DEF Without, Hashes
<1>5. reviewed = Hashes(frontcode_files)
  BY DEF LiveInv, LiveAsReviewed
<1>6. HashesWithout(f, shape) = [hashes |-> Hashes(frontcode_files'), shape |-> shape]
  BY <1>2, <1>4 DEF HashesWithout
<1>7. Hashes(frontcode_files') = reviewed'
  BY <1>3, <1>4, <1>5
<1> QED
  BY <1>1, <1>3, <1>6, <1>7, GoesLive DEF LiveInv

LEMMA UpgradeLive ==
  ASSUME LiveInv, Upgrade
  PROVE  LiveInv'
<1>1. PICK shape \in Shape : set_root_hash([frontcode_files_hashes EXCEPT !.shape = shape])
  BY DEF Upgrade
<1>2. [frontcode_files_hashes EXCEPT !.shape = shape]
        = [hashes |-> frontcode_files_hashes.hashes, shape |-> shape]
  BY DEF LiveInv, TreeOK
<1>3. UNCHANGED <<frontcode_files, reviewed, proposal>>
  BY DEF Upgrade
<1>4. frontcode_files_hashes.hashes = Hashes(frontcode_files')
  BY <1>3 DEF LiveInv, CertifiedFilesServed, view_file_hashes
<1>5. frontcode_files_hashes.hashes = reviewed'
  BY <1>3, <1>4 DEF LiveInv, LiveAsReviewed
<1> QED
  BY <1>1, <1>2, <1>3, <1>4, <1>5, GoesLive DEF LiveInv

LEMMA ProposeLive ==
  ASSUME LiveInv, Propose
  PROVE  LiveInv'
<1>1. /\ proposal' = [files |-> view_current_batch_file_hashes,
                      batch_hash |-> view_current_batch_hash]
      /\ view_current_batch_hash = hash_of_files(current_batch)
      /\ UNCHANGED liveVars
  BY DEF Propose, view_current_batch_hash
<1>2. hash_of_files(current_batch)
        = {<<f, view_current_batch_file_hashes[f]>> : f \in DOMAIN view_current_batch_file_hashes}
  BY DEF hash_of_files, view_current_batch_file_hashes
<1>3. SawWhatItProposed'
  BY <1>1, <1>2 DEF SawWhatItProposed, view_current_batch_file_hashes
<1>4. (TreeOK /\ CertifiedFilesServed /\ LiveAsReviewed)'
  BY <1>1 DEF LiveInv, TreeOK, CertifiedFilesServed, LiveAsReviewed, liveVars,
       view_file_hashes, view_live_files_hash, hash_of_files, root_hash, Hashes
<1> QED
  BY <1>3, <1>4 DEF LiveInv

LEMMA NextLive ==
  ASSUME LiveInv, [Next]_vars
  PROVE  LiveInv'
<1>1. CASE UNCHANGED vars
  BY <1>1, StaysLive DEF vars
<1>2. CASE BatchCreators
  BY <1>2, StaysLive DEF BatchCreators, create_batch, upload_file, upload_file_chunks
<1>3. CASE Readers
  BY <1>3, StaysLive DEF Readers, http_request, http_request_stream_callback, ReaderLeaves
<1>4. ASSUME NEW ps \in SUBSET Creator,
             controller_add_batch_creators(ps) \/ controller_remove_batch_creators(ps)
      PROVE  LiveInv'
  BY <1>4, StaysLive DEF controller_add_batch_creators, controller_remove_batch_creators
<1> QED
  BY <1>1, <1>2, <1>3, <1>4, ProposeLive, CommitLive, ClearFilesLive, UpgradeLive, ClearFileLive
  DEF Next, Controller

(* What is live is what was reviewed, and a proposal's hash is that of the *)
(* files its controller saw.                                               *)
THEOREM LiveInvariant == Spec => []LiveInv
BY InitLive, NextLive, PTL DEF Spec

(* Whatever is served verifies: the tree has the hashes of the served      *)
(* files and its root is certified, through commits, clears and upgrades.  *)
THEOREM Certified == Spec => []CertifiedFilesServed
<1>1. LiveInv => CertifiedFilesServed
  BY DEF LiveInv
<1> QED
  BY <1>1, LiveInvariant, PTL

(* What is live is what the controller saw when it proposed, whatever was  *)
(* uploaded between the proposal and the commit.                           *)
THEOREM Reviewed == Spec => []LiveAsReviewed
<1>1. LiveInv => LiveAsReviewed
  BY DEF LiveInv
<1> QED
  BY <1>1, LiveInvariant, PTL

----------------------------------------------------------------------------
(* The hash of a file: the loop over its chunks. *)

(* The operator \o, for leaves that are not about sequences. *)
Glue(s, t) == s \o t

(* f has the bytes of the first chunks, for up to n of them. *)
IsJoined(f, chunks, n) ==
  f = [i \in 0 .. n |-> IF i = 0 THEN <<>> ELSE Glue(f[i - 1], chunks[i])]
Joined(chunks) == CHOOSE f : IsJoined(f, chunks, Len(chunks))

LEMMA HashIsJoined ==
  ASSUME NEW chunks
  PROVE  sha256_hash(chunks) = Joined(chunks)[Len(chunks)]
BY DEF sha256_hash, Joined, IsJoined, Glue

LEMMA JoinedOneMore ==
  ASSUME NEW chunks, NEW n \in Nat, NEW f, IsJoined(f, chunks, n)
  PROVE  \E g : IsJoined(g, chunks, n + 1)
<1> DEFINE g == [i \in 0 .. n + 1 |-> IF i = n + 1 THEN Glue(f[n], chunks[i]) ELSE f[i]]
<1>1. \A i \in 0 .. n : f[i] = IF i = 0 THEN <<>> ELSE Glue(f[i - 1], chunks[i])
  BY DEF IsJoined
<1>2. \A i \in 0 .. n : g[i] = f[i]
  OBVIOUS
<1>3. \A i \in 0 .. n + 1 : g[i] = IF i = 0 THEN <<>> ELSE Glue(g[i - 1], chunks[i])
  <2> TAKE i \in 0 .. n + 1
  <2>1. CASE i = n + 1
    <3>1. g[i] = Glue(f[n], chunks[i]) /\ i # 0 /\ i - 1 = n
      BY <2>1
    <3>2. g[i - 1] = f[n]
      BY <1>2, <3>1
    <3> QED
      BY <3>1, <3>2
  <2>2. CASE i # n + 1
    <3>1. i \in 0 .. n /\ g[i] = f[i] /\ (i # 0 => i - 1 \in 0 .. n)
      BY <2>2
    <3>2. i # 0 => g[i - 1] = f[i - 1]
      BY <1>2, <3>1
    <3> HIDE DEF g
    <3> QED
      BY <1>1, <3>1, <3>2
  <2> QED
    BY <2>1, <2>2
<1>4. g = [i \in 0 .. n + 1 |-> g[i]]
  OBVIOUS
<1> HIDE DEF g
<1> QED
  BY <1>3, <1>4 DEF IsJoined

LEMMA JoinedExists ==
  ASSUME NEW chunks
  PROVE  \A n \in Nat : \E f : IsJoined(f, chunks, n)
<1> DEFINE T == {n \in Nat : ~ \E f : IsJoined(f, chunks, n)}
<1>1. 0 \notin T
  <2>1. IsJoined([i \in {0} |-> <<>>], chunks, 0)
    BY DEF IsJoined
  <2> QED
    BY <2>1
<1>2. ASSUME T # {} PROVE FALSE
  <2>1. PICK m \in T : \A n \in T : m <= n
    <3>1. T \subseteq Nat
      OBVIOUS
    <3> HIDE DEF T
    <3> QED
      BY <3>1, <1>2, LeastNat
  <2>2. m - 1 \in Nat /\ m - 1 \notin T /\ (m - 1) + 1 = m
    BY <1>1, <2>1
  <2> QED
    BY <2>1, <2>2, JoinedOneMore
<1> QED
  BY <1>2

(* The bytes of the first i chunks are those of one less and the chunk i.  *)
LEMMA JoinedIs ==
  ASSUME NEW chunks, Len(chunks) \in Nat
  PROVE  /\ Joined(chunks)[0] = <<>>
         /\ \A i \in 1 .. Len(chunks) : Joined(chunks)[i] = Glue(Joined(chunks)[i - 1], chunks[i])
<1> DEFINE r == Joined(chunks)
<1>1. IsJoined(r, chunks, Len(chunks))
  BY JoinedExists DEF Joined
<1> HIDE DEF r
<1>2. \A i \in 0 .. Len(chunks) : r[i] = IF i = 0 THEN <<>> ELSE Glue(r[i - 1], chunks[i])
  BY <1>1 DEF IsJoined
<1>3. r[0] = <<>>
  BY <1>2
<1>4. \A i \in 1 .. Len(chunks) : r[i] = Glue(r[i - 1], chunks[i])
  BY <1>2
<1> QED
  BY <1>3, <1>4 DEF r

(* They are bytes. *)
LEMMA JoinedType ==
  ASSUME NEW B, NEW chunks \in Seq(Seq(B))
  PROVE  /\ \A i \in 0 .. Len(chunks) : Joined(chunks)[i] \in Seq(B)
         /\ sha256_hash(chunks) \in Seq(B)
<1> DEFINE r == Joined(chunks)
           T == {i \in 0 .. Len(chunks) : r[i] \notin Seq(B)}
<1>0. Len(chunks) \in Nat
  OBVIOUS
<1>1. r[0] = <<>> /\ \A i \in 1 .. Len(chunks) : r[i] = Glue(r[i - 1], chunks[i])
  BY <1>0, JoinedIs
<1>2. ASSUME T # {} PROVE FALSE
  <2> HIDE DEF r
  <2>1. PICK m \in T : \A n \in T : m <= n
    <3>1. T \subseteq Nat
      OBVIOUS
    <3> HIDE DEF T
    <3> QED
      BY <3>1, <1>2, LeastNat
  <2>2. m # 0
    <3>1. r[0] \in Seq(B)
      BY <1>1
    <3> QED
      BY <3>1, <2>1
  <2>3. m - 1 \notin T /\ m - 1 \in 0 .. Len(chunks) /\ m \in 1 .. Len(chunks)
    BY <2>1, <2>2
  <2>4. r[m - 1] \in Seq(B) /\ chunks[m] \in Seq(B)
    BY <2>3
  <2>5. r[m] = r[m - 1] \o chunks[m]
    BY <1>1, <2>3 DEF Glue
  <2>6. r[m - 1] \o chunks[m] \in Seq(B)
    <3> DEFINE s == r[m - 1]
               t == chunks[m]
    <3>1. s \in Seq(B) /\ t \in Seq(B)
      BY <2>4
    <3> HIDE DEF s, t
    <3>2. s \o t \in Seq(B)
      BY <3>1
    <3> QED
      BY <3>2 DEF s, t
  <2>7. r[m] \in Seq(B)
    BY <2>5, <2>6
  <2> QED
    BY <2>7, <2>1
<1>3. \A i \in 0 .. Len(chunks) : r[i] \in Seq(B)
  BY <1>2
<1>4. sha256_hash(chunks) = r[Len(chunks)] /\ Len(chunks) \in 0 .. Len(chunks)
  BY <1>0, HashIsJoined
<1> HIDE DEF r
<1>5. sha256_hash(chunks) \in Seq(B)
  BY <1>3, <1>4
<1> QED
  BY <1>3, <1>5 DEF r

----------------------------------------------------------------------------
(* Types, and what a reader has got so far. *)

Stored(files) == \A f \in DOMAIN files :
  /\ files[f] \in Seq(Seq(Bytes))
  /\ Len(files[f]) \in 1 .. MaxChunks
  /\ sha256_hash(files[f]) \in Seq(Bytes)

LEMMA FilesStored ==
  ASSUME NEW files, FilesOK(files)
  PROVE  Stored(files)
<1>1. Chunk \cup {<<>>} \subseteq Seq(Bytes)
  <2>1. Chunk \subseteq Seq(Bytes)
    BY FrontcodeAssumption
  <2> DEFINE B == Bytes
  <2>2. <<>> \in Seq(B)
    <3> HIDE DEF B
    <3> QED
      OBVIOUS
  <2> QED
    BY <2>1, <2>2
<1>2. ASSUME NEW f \in DOMAIN files
      PROVE  files[f] \in Seq(Seq(Bytes)) /\ Len(files[f]) \in 1 .. MaxChunks
  <2>1. files[f] \in Seq(Chunk \cup {<<>>}) /\ Len(files[f]) \in 1 .. MaxChunks
    BY DEF FilesOK, PartialFunction
  <2> DEFINE C == Chunk \cup {<<>>}
             D == Seq(Bytes)
             c == files[f]
  <2>2. c \in Seq(C) /\ C \subseteq D
    BY <1>1, <2>1
  <2> HIDE DEF C, D, c
  <2>3. c \in Seq(D)
    BY <2>2
  <2> QED
    BY <2>1, <2>3 DEF D, c
<1> QED
  BY <1>2, JoinedType DEF Stored

LEMMA NoFilesOK == FilesOK(NoFiles)
<1>1. DOMAIN NoFiles = {}
  BY DEF NoFiles
<1>2. NoFiles = [f \in DOMAIN NoFiles |-> NoFiles[f]]
  BY DEF NoFiles
<1> QED
  BY <1>1, <1>2 DEF FilesOK, PartialFunction

LEMMA WithoutOK ==
  ASSUME NEW files, FilesOK(files), NEW f
  PROVE  FilesOK(Without(files, f))
BY DEF FilesOK, PartialFunction, Without

(* A file is added to the batch, or a chunk of one of its files is set.    *)
Put(files, f, chunks) == [g \in DOMAIN files \cup {f} |-> IF g = f THEN chunks ELSE files[g]]

LEMMA PutOK ==
  ASSUME NEW files, FilesOK(files), NEW f \in FileName,
         NEW chunks \in Seq(Chunk \cup {<<>>}), Len(chunks) \in 1 .. MaxChunks
  PROVE  FilesOK(Put(files, f, chunks))
BY DEF Put, FilesOK, PartialFunction

(* All of TypeOK but the readers. *)
StoreOK ==
  /\ FilesOK(frontcode_files) /\ FilesOK(current_batch)
  /\ batch_creators \subseteq Creator
  /\ uploads \in 0 .. MaxUploads /\ commits \in 0 .. MaxCommits

LEMMA UploadOK ==
  ASSUME StoreOK, NEW p, NEW f \in FileName, NEW chunk \in Chunk, NEW n \in 0 .. MaxChunks,
         upload_file(p, f, chunk, n)
  PROVE  StoreOK'
<1> DEFINE chunks == [i \in 1 .. n |-> IF i = 1 THEN chunk ELSE <<>>]
<1>1. n \in 1 .. MaxChunks /\ MaxChunks \in Nat /\ MaxUploads \in Nat
  BY FrontcodeAssumption DEF upload_file
<1>2. chunks \in Seq(Chunk \cup {<<>>}) /\ Len(chunks) = n
  BY <1>1
<1>3. current_batch' = Put(current_batch, f, chunks)
  BY DEF upload_file, Put
<1> HIDE DEF chunks
<1>4. FilesOK(current_batch')
  <2>1. FilesOK(current_batch)
    BY DEF StoreOK
  <2> QED
    BY <1>1, <1>2, <1>3, <2>1, PutOK
<1>5. uploads' \in 0 .. MaxUploads
  BY <1>1 DEF upload_file, Uploads, StoreOK
<1> QED
  BY <1>4, <1>5 DEF upload_file, StoreOK, liveVars, FilesOK, PartialFunction

LEMMA UploadChunkOK ==
  ASSUME StoreOK, NEW p, NEW f \in FileName, NEW chunk \in Chunk, NEW n \in 0 .. MaxChunks,
         upload_file_chunks(p, f, n, chunk)
  PROVE  StoreOK'
<1> DEFINE chunks == [current_batch[f] EXCEPT ![n] = chunk]
           C == Chunk \cup {<<>>}
<1>1. MaxUploads \in Nat
  BY FrontcodeAssumption
<1>2. current_batch[f] \in Seq(C) /\ Len(current_batch[f]) \in 1 .. MaxChunks
  BY DEF upload_file_chunks, StoreOK, FilesOK, PartialFunction
<1>3. chunks \in Seq(C) /\ Len(chunks) = Len(current_batch[f])
  <2> DEFINE file == current_batch[f]
  <2>1. chunk \in C /\ file \in Seq(C) /\ n \in DOMAIN file
    BY <1>2 DEF upload_file_chunks
  <2> HIDE DEF C, file
  <2>2. [file EXCEPT ![n] = chunk] \in Seq(C) /\ Len([file EXCEPT ![n] = chunk]) = Len(file)
    BY <2>1
  <2> QED
    BY <2>2 DEF file
<1>4. current_batch = [g \in DOMAIN current_batch |-> current_batch[g]]
  BY DEF StoreOK, FilesOK, PartialFunction
<1>5. current_batch' = Put(current_batch, f, chunks)
  BY <1>4 DEF upload_file_chunks, Put
<1> HIDE DEF chunks
<1>6. FilesOK(current_batch')
  <2>1. FilesOK(current_batch)
    BY DEF StoreOK
  <2>2. chunks \in Seq(Chunk \cup {<<>>})
    BY <1>3
  <2> HIDE DEF C
  <2> QED
    BY <1>2, <1>3, <1>5, <2>1, <2>2, PutOK
<1>7. uploads' \in 0 .. MaxUploads
  BY <1>1 DEF upload_file_chunks, Uploads, StoreOK
<1> QED
  BY <1>6, <1>7 DEF upload_file_chunks, StoreOK, liveVars, FilesOK, PartialFunction

(* A step that only commits, clears or builds the tree anew. *)
LEMMA CommitOK ==
  ASSUME StoreOK, Commits, FilesOK(frontcode_files'), FilesOK(current_batch'),
         UNCHANGED <<batch_creators, uploads>>
  PROVE  StoreOK'
<1>1. commits' \in 0 .. MaxCommits
  BY FrontcodeAssumption DEF Commits, StoreOK
<1> QED
  BY <1>1 DEF StoreOK, FilesOK, PartialFunction

LEMMA NextStoreOK ==
  ASSUME StoreOK, [Next]_vars
  PROVE  StoreOK'
<1>1. ASSUME UNCHANGED <<liveVars, batch_creators, current_batch, boundVars>> PROVE StoreOK'
  BY <1>1 DEF StoreOK, liveVars, boundVars, FilesOK, PartialFunction
<1>2. CASE UNCHANGED vars
  BY <1>1, <1>2 DEF vars
<1>3. ASSUME NEW p \in Creator, create_batch(p) PROVE StoreOK'
  BY <1>3, NoFilesOK DEF create_batch, StoreOK, liveVars, boundVars, FilesOK, PartialFunction
<1>4. CASE BatchCreators
  BY <1>3, <1>4, UploadOK, UploadChunkOK DEF BatchCreators
<1>5. CASE Readers
  BY <1>1, <1>5 DEF Readers, http_request, http_request_stream_callback, ReaderLeaves
<1>6. ASSUME NEW ps \in SUBSET Creator,
             controller_add_batch_creators(ps) \/ controller_remove_batch_creators(ps)
      PROVE  StoreOK'
  BY <1>6 DEF controller_add_batch_creators, controller_remove_batch_creators, StoreOK,
              liveVars, boundVars, FilesOK, PartialFunction
<1>7. CASE Propose
  BY <1>1, <1>7 DEF Propose
<1>8. CASE controller_commit_batch
  BY <1>8, CommitOK, NoFilesOK DEF controller_commit_batch, StoreOK
<1>9. CASE controller_clear_files
  BY <1>9, CommitOK, NoFilesOK DEF controller_clear_files, StoreOK
<1>10. CASE Upgrade
  BY <1>10, CommitOK DEF Upgrade, StoreOK
<1>11. ASSUME NEW f \in FileName, controller_clear_file(f) PROVE StoreOK'
  BY <1>11, CommitOK, WithoutOK DEF controller_clear_file, StoreOK
<1> QED
  BY <1>2, <1>4, <1>5, <1>6, <1>7, <1>8, <1>9, <1>10, <1>11 DEF Next, Controller

(* A request in progress, of the type of TypeOK.                           *)
Request == [name : FileName, hash : Seq(Bytes), body : Seq(Bytes),
            token : 2 .. MaxChunks \cup {None}, changed : BOOLEAN]

(* The chunks of a file that a reader with a token has. *)
Got(chunks, token) == IF token = None THEN Len(chunks) ELSE token - 1

(* Unless its file was touched, the reader has the hash of the file as it  *)
(* is, and the bytes of its first chunks, all of them without a token.     *)
Follows(rd, files) ==
  ~rd.changed =>
    /\ rd.name \in DOMAIN files
    /\ rd.hash = sha256_hash(files[rd.name])
    /\ rd.body = Joined(files[rd.name])[Got(files[rd.name], rd.token)]

ReadersOK ==
  /\ DOMAIN readers = Reader
  /\ \A r \in Reader :
       readers[r] # None => readers[r] \in Request /\ Follows(readers[r], frontcode_files)

LEMMA SameReaders ==
  ASSUME ReadersOK, UNCHANGED <<frontcode_files, readers>>
  PROVE  ReadersOK'
<1> SUFFICES ASSUME NEW r \in Reader, readers[r] # None
             PROVE  readers[r] \in Request /\ Follows(readers[r], frontcode_files')
  BY DEF ReadersOK
<1>1. Follows(readers[r], frontcode_files)
  BY DEF ReadersOK
<1>2. frontcode_files' = frontcode_files
  OBVIOUS
<1>3. Follows(readers[r], frontcode_files')
  BY <1>1, <1>2
<1> QED
  BY <1>3 DEF ReadersOK

(* One request goes on, begins or ends. *)
LEMMA OneReader ==
  ASSUME ReadersOK, UNCHANGED frontcode_files, NEW r \in Reader, NEW rd,
         readers' = [readers EXCEPT ![r] = rd],
         rd # None => rd \in Request /\ Follows(rd, frontcode_files)
  PROVE  ReadersOK'
<1>1. DOMAIN readers' = Reader
  BY DEF ReadersOK
<1>2. frontcode_files' = frontcode_files
  OBVIOUS
<1>3. ASSUME NEW q \in Reader, readers'[q] # None
      PROVE  readers'[q] \in Request /\ Follows(readers'[q], frontcode_files')
  <2>1. CASE q = r
    <3>1. readers'[q] = rd
      BY <2>1 DEF ReadersOK
    <3> QED
      BY <1>2, <1>3, <3>1
  <2>2. CASE q # r
    <3>1. readers'[q] = readers[q]
      BY <2>2 DEF ReadersOK
    <3>2. readers[q] \in Request /\ Follows(readers[q], frontcode_files)
      BY <1>3, <3>1 DEF ReadersOK
    <3> QED
      BY <1>2, <3>1, <3>2
  <2> QED
    BY <2>1, <2>2
<1> QED
  BY <1>1, <1>3 DEF ReadersOK

(* Files are replaced or removed, the others stay. *)
LEMMA TouchedReaders ==
  ASSUME ReadersOK, NEW files, readers' = Changed(files),
         \A f \in DOMAIN frontcode_files \ files :
           f \in DOMAIN frontcode_files' /\ frontcode_files'[f] = frontcode_files[f]
  PROVE  ReadersOK'
<1>1. DOMAIN readers' = Reader
  BY DEF Changed
<1>2. ASSUME NEW q \in Reader, readers'[q] # None
      PROVE  readers'[q] \in Request /\ Follows(readers'[q], frontcode_files')
  <2> DEFINE old == readers[q]
             new == readers'[q]
  <2>1. old # None /\ new = [old EXCEPT !.changed = @ \/ old.name \in files]
    BY <1>2 DEF Changed
  <2>2. old \in Request /\ Follows(old, frontcode_files)
    BY <2>1 DEF ReadersOK
  <2> HIDE DEF old, new
  <2>3. /\ new \in Request
        /\ new.name = old.name /\ new.hash = old.hash /\ new.body = old.body
        /\ new.token = old.token
        /\ new.changed <=> (old.changed \/ old.name \in files)
    BY <2>1, <2>2 DEF Request
  <2>4. ASSUME ~new.changed
        PROVE  /\ new.name \in DOMAIN frontcode_files'
               /\ frontcode_files'[new.name] = frontcode_files[new.name]
    BY <2>2, <2>3, <2>4 DEF Follows
  <2>5. Follows(new, frontcode_files')
    BY <2>2, <2>3, <2>4 DEF Follows
  <2> QED
    BY <2>3, <2>5 DEF new
<1> QED
  BY <1>1, <1>2 DEF ReadersOK

LEMMA TokenOK ==
  ASSUME NEW file, Len(file) \in 1 .. MaxChunks, NEW i \in 1 .. Len(file)
  PROVE  LET token == create_opt_stream_callback_token(file, i)
         IN token \in 2 .. MaxChunks \cup {None} /\ Got(file, token) = i
<1>1. MaxChunks \in Nat /\ None \notin Nat
  BY FrontcodeAssumption
<1> DEFINE n == Len(file)
<1>2. CASE n > i
  <2>1. create_opt_stream_callback_token(file, i) = i + 1
    BY <1>2 DEF create_opt_stream_callback_token
  <2>2. i + 1 \in 2 .. MaxChunks /\ i + 1 # None /\ (i + 1) - 1 = i
    BY <1>1, <1>2
  <2> QED
    BY <2>1, <2>2 DEF Got
<1>3. CASE ~(n > i)
  <2>1. create_opt_stream_callback_token(file, i) = None /\ n = i
    BY <1>1, <1>3 DEF create_opt_stream_callback_token
  <2> QED
    BY <2>1 DEF Got
<1> QED
  BY <1>2, <1>3

LEMMA HttpRequestOK ==
  ASSUME ReadersOK, LiveInv, StoreOK, NEW r \in Reader, NEW f \in FileName, http_request(r, f)
  PROVE  ReadersOK'
<1> DEFINE file == frontcode_files[f]
           rd == [name |-> f, hash |-> frontcode_files_hashes.hashes[f], body |-> file[1],
                  token |-> create_opt_stream_callback_token(file, 1), changed |-> FALSE]
<1>1. /\ f \in DOMAIN frontcode_files /\ readers' = [readers EXCEPT ![r] = rd]
      /\ UNCHANGED frontcode_files
  BY DEF http_request, liveVars
<1>2. /\ file \in Seq(Seq(Bytes)) /\ Len(file) \in 1 .. MaxChunks
      /\ sha256_hash(file) \in Seq(Bytes)
  BY <1>1, FilesStored DEF StoreOK, Stored
<1>3. frontcode_files_hashes.hashes[f] = sha256_hash(file)
  BY <1>1 DEF LiveInv, CertifiedFilesServed, view_file_hashes, Hashes
<1>4. MaxChunks \in Nat
  BY FrontcodeAssumption
<1> DEFINE token == create_opt_stream_callback_token(file, 1)
<1>5. token \in 2 .. MaxChunks \cup {None} /\ Got(file, token) = 1
  BY <1>2, <1>4, TokenOK
<1>6. Joined(file)[1] = file[1] /\ file[1] \in Seq(Bytes)
  <2> HIDE DEF file
  <2>1. Len(file) \in Nat /\ 1 \in 1 .. Len(file) /\ 1 - 1 = 0
    BY <1>2
  <2>2. Joined(file)[1] = Glue(<<>>, file[1])
    BY <2>1, JoinedIs
  <2>3. file[1] \in Seq(Bytes)
    BY <1>2, <2>1
  <2>4. \A s \in Seq(Bytes) : <<>> \o s = s
    <3> DEFINE B == Bytes
    <3> HIDE DEF B
    <3>1. \A s \in Seq(B) : <<>> \o s = s
      OBVIOUS
    <3> QED
      BY <3>1 DEF B
  <2> QED
    BY <2>2, <2>3, <2>4 DEF Glue
<1>7. /\ rd.name = f /\ rd.hash = sha256_hash(file) /\ rd.body = file[1] /\ rd.token = token
      /\ rd.changed = FALSE
  BY <1>3
<1>8. rd \in Request
  <2> HIDE DEF token
  <2>1. [name |-> f, hash |-> sha256_hash(file), body |-> file[1], token |-> token,
         changed |-> FALSE] \in Request
    <3> HIDE DEF file
    <3> QED
      BY <1>2, <1>5, <1>6 DEF Request
  <2> QED
    BY <1>3, <2>1 DEF token
<1>9. Follows(rd, frontcode_files)
  <2> HIDE DEF rd, token
  <2> QED
    BY <1>1, <1>5, <1>6, <1>7 DEF Follows
<1> HIDE DEF rd, file
<1> QED
  BY <1>1, <1>8, <1>9, OneReader

LEMMA CallbackOK ==
  ASSUME ReadersOK, StoreOK, NEW r \in Reader, http_request_stream_callback(r)
  PROVE  ReadersOK'
<1> DEFINE old == readers[r]
           f == old.name
           i == old.token
           file == frontcode_files[f]
           more == [old EXCEPT !.body = old.body \o file[i],
                               !.token = create_opt_stream_callback_token(file, i)]
           rd == IF f \in DOMAIN frontcode_files /\ i <= Len(file) THEN more ELSE None
<1>1. /\ old # None /\ i # None
      /\ readers' = [readers EXCEPT ![r] = rd]
      /\ UNCHANGED frontcode_files
  BY DEF http_request_stream_callback, liveVars, ReadersOK
<1>2. old \in Request /\ Follows(old, frontcode_files)
  BY <1>1 DEF ReadersOK
<1>3. i \in 2 .. MaxChunks /\ old.body \in Seq(Bytes) /\ MaxChunks \in Nat
  BY <1>1, <1>2, FrontcodeAssumption DEF Request
<1>4. ASSUME f \in DOMAIN frontcode_files, i <= Len(file)
      PROVE  more \in Request /\ Follows(more, frontcode_files)
  <2> DEFINE token == create_opt_stream_callback_token(file, i)
             body == old.body \o file[i]
  <2>1. file \in Seq(Seq(Bytes)) /\ Len(file) \in 1 .. MaxChunks
    BY <1>4, FilesStored DEF StoreOK, Stored
  <2> HIDE DEF file
  <2>2. i \in 1 .. Len(file) /\ file[i] \in Seq(Bytes) /\ Len(file) \in Nat
    BY <1>3, <1>4, <2>1
  <2>3. body \in Seq(Bytes)
    <3> DEFINE B == Bytes
               s == old.body
               t == file[i]
    <3>1. s \in Seq(B) /\ t \in Seq(B)
      BY <1>3, <2>2
    <3> HIDE DEF B, s, t
    <3>2. s \o t \in Seq(B)
      BY <3>1
    <3> QED
      BY <3>2 DEF s, t, B
  <2>4. token \in 2 .. MaxChunks \cup {None} /\ Got(file, token) = i
    BY <2>1, <2>2, TokenOK
  <2>5. more = [old EXCEPT !.body = body, !.token = token]
    OBVIOUS
  <2> HIDE DEF more, token, body, i, f, old
  <2>6. /\ more \in Request /\ more.name = old.name /\ more.hash = old.hash
        /\ more.body = body /\ more.token = token /\ more.changed = old.changed
    BY <1>2, <2>3, <2>4, <2>5 DEF Request
  <2>7. ASSUME ~old.changed
        PROVE  body = Joined(file)[i]
    <3>1. old.body = Joined(file)[Got(file, i)] /\ Got(file, i) = i - 1
      BY <1>1, <1>2, <2>7 DEF Follows, file, f, i, Got
    <3>2. Joined(file)[i] = Glue(Joined(file)[i - 1], file[i])
      BY <2>2, JoinedIs
    <3> QED
      BY <3>1, <3>2 DEF Glue, body
  <2>8. Follows(more, frontcode_files)
    <3> SUFFICES ASSUME ~old.changed
                 PROVE  /\ old.name \in DOMAIN frontcode_files
                        /\ old.hash = sha256_hash(frontcode_files[old.name])
                        /\ body = Joined(file)[Got(file, token)] /\ file = frontcode_files[old.name]
      BY <2>6 DEF Follows
    <3>1. /\ old.name \in DOMAIN frontcode_files
          /\ old.hash = sha256_hash(frontcode_files[old.name])
      BY <1>2 DEF Follows
    <3> QED
      BY <2>4, <2>7, <3>1 DEF file, f
  <2> QED
    BY <2>6, <2>8
<1>5. rd # None => rd \in Request /\ Follows(rd, frontcode_files)
  BY <1>4
<1> HIDE DEF rd
<1> QED
  BY <1>1, <1>5, OneReader

LEMMA LeavesOK ==
  ASSUME ReadersOK, NEW r \in Reader, ReaderLeaves(r)
  PROVE  ReadersOK'
<1>1. readers' = [readers EXCEPT ![r] = None] /\ UNCHANGED frontcode_files
  BY DEF ReaderLeaves, liveVars
<1> QED
  BY <1>1, OneReader

LEMMA NextReadersOK ==
  ASSUME ReadersOK, LiveInv, StoreOK, [Next]_vars
  PROVE  ReadersOK'
<1>1. CASE UNCHANGED vars
  BY <1>1, SameReaders DEF vars, liveVars
<1>2. CASE BatchCreators
  BY <1>2, SameReaders DEF BatchCreators, create_batch, upload_file, upload_file_chunks, liveVars
<1>3. CASE Readers
  BY <1>3, HttpRequestOK, CallbackOK, LeavesOK DEF Readers
<1>4. ASSUME NEW ps \in SUBSET Creator,
             controller_add_batch_creators(ps) \/ controller_remove_batch_creators(ps)
      PROVE  ReadersOK'
  BY <1>4, SameReaders DEF controller_add_batch_creators, controller_remove_batch_creators,
                           liveVars
<1>5. CASE Propose \/ Upgrade
  BY <1>5, SameReaders DEF Propose, Upgrade, liveVars
<1>6. CASE controller_commit_batch \/ controller_clear_files
  <2>1. DOMAIN frontcode_files \ FileName = {}
    BY DEF StoreOK, FilesOK, PartialFunction
  <2> QED
    BY <1>6, <2>1, TouchedReaders DEF controller_commit_batch, controller_clear_files
<1>7. ASSUME NEW f \in FileName, controller_clear_file(f) PROVE ReadersOK'
  <2>1. frontcode_files' = Without(frontcode_files, f) /\ readers' = Changed({f})
    BY <1>7 DEF controller_clear_file
  <2>2. \A g \in DOMAIN frontcode_files \ {f} :
          g \in DOMAIN frontcode_files' /\ frontcode_files'[g] = frontcode_files[g]
    BY <2>1 DEF Without
  <2> QED
    BY <2>1, <2>2, TouchedReaders
<1> QED
  BY <1>1, <1>2, <1>3, <1>4, <1>5, <1>6, <1>7 DEF Next, Controller

(* The inductive invariant of the file server. *)
ServerInv == LiveInv /\ StoreOK /\ ReadersOK

LEMMA InitServer == Init => ServerInv
<1> SUFFICES ASSUME Init
             PROVE  ServerInv
  OBVIOUS
<1>1. StoreOK
  BY NoFilesOK, FrontcodeAssumption DEF Init, StoreOK
<1>2. ReadersOK
  BY DEF Init, ReadersOK
<1> QED
  BY <1>1, <1>2, InitLive DEF ServerInv

LEMMA ReadersTyped ==
  ASSUME ServerInv
  PROVE  TypeOK
<1>1. \A r \in Reader : readers[r] # None => readers[r] \in Request
  BY DEF ServerInv, ReadersOK
<1> QED
  BY <1>1 DEF ServerInv, StoreOK, ReadersOK, TypeOK, Request

LEMMA ReadersStream ==
  ASSUME ServerInv
  PROVE  StreamsWhole
<1> SUFFICES ASSUME NEW r \in Reader, readers[r] # None,
                    readers[r].token = None, ~readers[r].changed
             PROVE  readers[r].body = readers[r].hash
  BY DEF StreamsWhole
<1>1. Follows(readers[r], frontcode_files)
  BY DEF ServerInv, ReadersOK
<1> DEFINE file == frontcode_files[readers[r].name]
<1>2. readers[r].body = Joined(file)[Len(file)] /\ readers[r].hash = sha256_hash(file)
  BY <1>1 DEF Follows, Got
<1> QED
  BY <1>2, HashIsJoined

(* What is served, the batch, the readers and the limits are of their      *)
(* types, live files are certified and reviewed, and every reader has a    *)
(* beginning of the file it asked for.                                     *)
THEOREM ServerInvariant == Spec => []ServerInv
<1>1. ServerInv /\ [Next]_vars => ServerInv'
  BY NextLive, NextStoreOK, NextReadersOK DEF ServerInv
<1> QED
  BY <1>1, InitServer, PTL DEF Spec

(* The files, their tree and its root belong together and have the types   *)
(* of the code, through uploads, commits, clears, upgrades and requests.   *)
THEOREM FilesBelongTogether == Spec => []FilesInv
<1>1. ServerInv => FilesInv
  BY ReadersTyped DEF ServerInv, LiveInv, FilesInv
<1> QED
  BY <1>1, ServerInvariant, PTL

(* A reader who follows the tokens to the end has every byte of the file   *)
(* that was certified to it, unless a commit touched that file meanwhile.  *)
THEOREM StreamsAreWhole == Spec => []StreamsWhole
<1>1. ServerInv => StreamsWhole
  BY ReadersStream
<1> QED
  BY <1>1, ServerInvariant, PTL

----------------------------------------------------------------------------
(* Loops *)

(* What holds of 0 and goes on from each number to the next holds up to n. *)
LEMMA StepByStep ==
  ASSUME NEW n \in Nat, NEW T, 0 \in T, \A i \in 0 .. n - 1 : i \in T => i + 1 \in T
  PROVE  \A i \in 0 .. n : i \in T
<1> DEFINE U == {i \in 0 .. n : i \notin T}
<1>1. CASE U = {}
  BY <1>1
<1>2. CASE U # {}
  <2>1. U \subseteq Nat
    OBVIOUS
  <2>2. PICK m \in U : \A i \in U : m <= i
    <3> HIDE DEF U
    <3> QED
      BY <1>2, <2>1, LeastNat
  <2>3. m # 0 /\ m - 1 \in 0 .. n - 1 /\ m - 1 \notin U
    BY <2>2
  <2>4. m - 1 \in T
    BY <2>3
  <2> QED
    BY <2>2, <2>3, <2>4
<1> QED
  BY <1>1, <1>2

Loop(f, first, step, n) == f[0] = first /\ \A i \in 1 .. n : f[i] = step[<<i, f[i - 1]>>]

(* A loop that computes in D from a first value, with a step for each of   *)
(* its numbers, computes something.                                        *)
LEMMA LoopExists ==
  ASSUME NEW n \in Nat, NEW D, NEW first \in D, NEW step,
         \A i \in 1 .. n, d \in D : step[<<i, d>>] \in D
  PROVE  \E f \in [0 .. n -> D] : Loop(f, first, step, n)
<1> DEFINE Runs(f, m) == Loop(f, first, step, m)
           T == {m \in 0 .. n : \E f \in [0 .. n -> D] : Runs(f, m)}
<1>1. 0 \in T
  <2> DEFINE f == [i \in 0 .. n |-> first]
  <2>1. f \in [0 .. n -> D] /\ Runs(f, 0)
    BY DEF Loop
  <2> HIDE DEF f
  <2> QED
    BY <2>1
<1>2. ASSUME NEW m \in 0 .. n - 1, m \in T
      PROVE  m + 1 \in T
  <2>1. PICK f \in [0 .. n -> D] : Runs(f, m)
    BY <1>2
  <2> DEFINE next == step[<<m + 1, f[m]>>]
             g == [f EXCEPT ![m + 1] = next]
  <2>11. f[0] = first /\ \A i \in 1 .. m : f[i] = step[<<i, f[i - 1]>>]
    BY <2>1 DEF Loop
  <2>2. m + 1 \in 1 .. n /\ f[m] \in D
    BY <2>1
  <2>3. next \in D
    BY <2>2
  <2>4. g \in [0 .. n -> D]
    BY <2>3
  <2>5. \A i \in 1 .. m + 1 : g[i] = step[<<i, g[i - 1]>>]
    <3> SUFFICES ASSUME NEW i \in 1 .. m + 1 PROVE g[i] = step[<<i, g[i - 1]>>]
      OBVIOUS
    <3>1. g[i - 1] = f[i - 1]
      BY <2>1
    <3>2. CASE i = m + 1
      BY <3>1, <3>2, <2>1
    <3>3. CASE i # m + 1
      <4>1. i \in 1 .. m /\ g[i] = f[i]
        BY <3>3, <2>1
      <4> QED
        BY <3>1, <4>1, <2>11
    <3> QED
      BY <3>2, <3>3
  <2>6. g[0] = first
    BY <2>1, <2>11
  <2>7. Runs(g, m + 1)
    BY <2>5, <2>6 DEF Loop
  <2> HIDE DEF g, next, Runs
  <2> QED
    BY <2>4, <2>7
<1>3. n \in T
  <2> HIDE DEF T
  <2> QED
    BY <1>1, <1>2, StepByStep
<1> QED
  BY <1>3

(* Two loops that begin alike and go on alike are alike. *)
GoAlike(f, g, n) == f[0] = g[0] /\ \A i \in 1 .. n : f[i - 1] = g[i - 1] => f[i] = g[i]

LEMMA SameLoop ==
  ASSUME NEW n \in Nat, NEW f, NEW g, GoAlike(f, g, n)
  PROVE  \A i \in 0 .. n : f[i] = g[i]
<1> DEFINE T == {i \in 0 .. n : f[i] = g[i]}
<1>1. 0 \in T
  BY DEF GoAlike
<1>2. \A i \in 0 .. n - 1 : i \in T => i + 1 \in T
  <2> SUFFICES ASSUME NEW i \in 0 .. n - 1, f[i] = g[i] PROVE f[i + 1] = g[i + 1]
    OBVIOUS
  <2>1. i + 1 \in 1 .. n /\ (i + 1) - 1 = i
    OBVIOUS
  <2> QED
    BY <2>1 DEF GoAlike
<1>3. \A i \in 0 .. n : i \in T
  <2> HIDE DEF T
  <2> QED
    BY <1>1, <1>2, StepByStep
<1> QED
  BY <1>3

----------------------------------------------------------------------------
(* The logs at some places *)

AtStep(ls, S, i, before) == IF i \in S THEN Append(before, ls[i]) ELSE before
IsAt(at, ls, S) ==
  at = [i \in 0 .. Len(ls) |-> IF i = 0 THEN <<>> ELSE AtStep(ls, S, i, at[i - 1])]
AtLoop(ls, S) == CHOOSE at : IsAt(at, ls, S)

LEMMA AtIsLoop ==
  ASSUME NEW ls, NEW n, NEW S
  PROVE  At(ls, n, S) = AtLoop(ls, S)[n]
BY DEF At, AtLoop, IsAt, AtStep

(* At goes over the sequence, one after another. *)
LEMMA AtGoes ==
  ASSUME NEW X, NEW ls \in Seq(X), NEW S
  PROVE  /\ At(ls, 0, S) = <<>>
         /\ \A i \in 1 .. Len(ls) : At(ls, i, S) = AtStep(ls, S, i, At(ls, i - 1, S))
         /\ \A i \in 0 .. Len(ls) : At(ls, i, S) \in Seq(X)
<1> DEFINE n == Len(ls)
           D == Seq(X)
           step == [p \in (1 .. n) \X D |-> AtStep(ls, S, p[1], p[2])]
           a == AtLoop(ls, S)
<1>1. \A i \in 1 .. n, d \in D : AtStep(ls, S, i, d) \in D
  BY DEF AtStep
<1>2. /\ \A i \in 1 .. n, d \in D : step[<<i, d>>] = AtStep(ls, S, i, d)
      /\ n \in Nat /\ <<>> \in D
  OBVIOUS
<1>3. \E f \in [0 .. n -> D] : Loop(f, <<>>, step, n)
  <2> DEFINE e == <<>>
  <2>1. e \in D /\ \A i \in 1 .. n, d \in D : step[<<i, d>>] \in D
    BY <1>1, <1>2
  <2> HIDE DEF step, D, n, e
  <2>2. \E f \in [0 .. n -> D] : Loop(f, e, step, n)
    BY <1>2, <2>1, LoopExists
  <2> QED
    BY <2>2, Zenon DEF e
<1>4. PICK f \in [0 .. n -> D] : f[0] = <<>> /\ \A i \in 1 .. n : f[i] = step[<<i, f[i - 1]>>]
  BY <1>3 DEF Loop
<1>5. \A i \in 1 .. n : f[i] = AtStep(ls, S, i, f[i - 1])
  <2> SUFFICES ASSUME NEW i \in 1 .. n PROVE f[i] = AtStep(ls, S, i, f[i - 1])
    OBVIOUS
  <2>1. f[i - 1] \in D
    <3> HIDE DEF n, D
    <3> QED
      BY <1>2, <1>4
  <2> QED
    BY <1>2, <1>4, <2>1
<1>6. IsAt(f, ls, S)
  <2>1. \A i \in 0 .. n : f[i] = IF i = 0 THEN <<>> ELSE AtStep(ls, S, i, f[i - 1])
    BY <1>2, <1>4, <1>5
  <2>2. f = [i \in 0 .. n |-> f[i]]
    BY <1>4
  <2> QED
    BY <2>1, <2>2, Zenon DEF IsAt
<1>7. IsAt(a, ls, S)
  <2> HIDE DEF a
  <2> QED
    BY <1>6 DEF AtLoop, a
<1>8. a[0] = <<>> /\ \A i \in 1 .. n : a[i] = AtStep(ls, S, i, a[i - 1])
  <2> HIDE DEF a
  <2>1. \A i \in 0 .. n : a[i] = IF i = 0 THEN <<>> ELSE AtStep(ls, S, i, a[i - 1])
    BY <1>7, Zenon DEF IsAt
  <2> HIDE DEF n
  <2>2. 0 \in 0 .. n /\ \A i \in 1 .. n : i \in 0 .. n /\ i # 0
    BY <1>2
  <2> QED
    BY <2>1, <2>2, Zenon
<1>9. \A i \in 0 .. n : a[i] = f[i]
  <2> HIDE DEF a, step, D
  <2>1. \A i \in 1 .. n : a[i - 1] = f[i - 1] => a[i] = f[i]
    BY <1>5, <1>8
  <2>2. a[0] = f[0] /\ n \in Nat
    BY <1>2, <1>4, <1>8
  <2> HIDE DEF n
  <2>3. GoAlike(a, f, n)
    BY <2>1, <2>2 DEF GoAlike
  <2> QED
    BY <2>2, <2>3, SameLoop
<1>10. \A i \in 0 .. n : At(ls, i, S) = a[i]
  BY AtIsLoop
<1>11. \A i \in 0 .. n : a[i] \in D
  <2> HIDE DEF a, D
  <2> QED
    BY <1>4, <1>9
<1>12. At(ls, 0, S) = a[0]
  BY <1>2, <1>10
<1> HIDE DEF a
<1>13. \A i \in 1 .. n : At(ls, i, S) = AtStep(ls, S, i, At(ls, i - 1, S))
  <2> SUFFICES ASSUME NEW i \in 1 .. n
               PROVE  At(ls, i, S) = AtStep(ls, S, i, At(ls, i - 1, S))
    OBVIOUS
  <2>1. i \in 0 .. n /\ i - 1 \in 0 .. n
    BY <1>2
  <2>2. At(ls, i, S) = a[i] /\ At(ls, i - 1, S) = a[i - 1]
    BY <1>10, <2>1
  <2> QED
    BY <1>8, <2>2
<1> QED
  BY <1>8, <1>10, <1>11, <1>12, <1>13

(* Before the first log there is none. *)
LEMMA AtNone ==
  ASSUME NEW X, NEW ls \in Seq(X), NEW S
  PROVE  At(ls, 0, S) = <<>>
BY AtGoes

(* The logs of the first n are the first of all. *)
LEMMA AtPrefix ==
  ASSUME NEW X, NEW ls \in Seq(X), NEW S, NEW n \in 0 .. Len(ls), NEW m \in 0 .. n
  PROVE  /\ Len(At(ls, m, S)) <= Len(At(ls, n, S))
         /\ At(ls, m, S) = SubSeq(At(ls, n, S), 1, Len(At(ls, m, S)))
<1> DEFINE a(i) == At(ls, i, S)
           Begins(s, v) == Len(s) <= Len(v) /\ s = SubSeq(v, 1, Len(s))
           T == {d \in 0 .. n - m : Begins(a(m), a(m + d))}
<1>1. /\ \A i \in 1 .. Len(ls) : a(i) = AtStep(ls, S, i, a(i - 1))
      /\ \A i \in 0 .. Len(ls) : a(i) \in Seq(X)
  BY AtGoes, Zenon
<1>2. Len(ls) \in Nat /\ n \in Nat /\ m \in Nat /\ m <= n /\ n <= Len(ls)
  OBVIOUS
<1> HIDE DEF a
<1>3. 0 \in T
  <2>1. m + 0 = m /\ a(m) \in Seq(X)
    BY <1>1, <1>2
  <2>2. Begins(a(m), a(m))
    BY <2>1
  <2> HIDE DEF Begins
  <2> QED
    BY <1>2, <2>1, <2>2
<1>4. \A d \in 0 .. (n - m) - 1 : d \in T => d + 1 \in T
  <2> SUFFICES ASSUME NEW d \in 0 .. (n - m) - 1, d \in T PROVE d + 1 \in T
    OBVIOUS
  <2> DEFINE i == m + d + 1
  <2>1. i \in 1 .. Len(ls) /\ i - 1 = m + d /\ m + (d + 1) = i /\ i - 1 \in 0 .. Len(ls)
    BY <1>1, <1>2
  <2>2. d + 1 \in 0 .. n - m
    BY <1>2
  <2> HIDE DEF i
  <2>3. a(i) = a(i - 1) \/ a(i) = Append(a(i - 1), ls[i])
    BY <1>1, <2>1 DEF AtStep
  <2>4. a(i - 1) \in Seq(X) /\ a(m) \in Seq(X)
    BY <1>1, <1>2, <2>1
  <2>5. Begins(a(m), a(i - 1))
    BY <2>1
  <2>6. ASSUME NEW s \in Seq(X), NEW u \in Seq(X), NEW v, NEW x, v = u \/ v = Append(u, x),
               Begins(s, u), x \in X
        PROVE  Begins(s, v)
    <3>1. CASE v = u
      BY <3>1, <2>6
    <3>2. CASE v = Append(u, x)
      BY <3>2, <2>6
    <3> QED
      BY <3>1, <3>2, <2>6
  <2>7. ls[i] \in X
    BY <2>1
  <2> HIDE DEF Begins
  <2>8. Begins(a(m), a(i))
    BY <2>3, <2>4, <2>5, <2>6, <2>7
  <2> QED
    BY <2>1, <2>2, <2>8
<1>5. n - m \in Nat
  BY <1>2
<1>6. n - m \in T
  <2> HIDE DEF T
  <2>1. \A d \in 0 .. n - m : d \in T
    BY <1>3, <1>4, <1>5, StepByStep
  <2> QED
    BY <1>5, <2>1
<1>7. m + (n - m) = n
  BY <1>2
<1> QED
  BY <1>6, <1>7 DEF a

(* Each of them has its place, and those before it are those of the places *)
(* before.                                                                 *)
HasPlace(ls, S, n, p) ==
  \E j \in 1 .. n : /\ j \in S
                    /\ At(ls, n, S)[p] = ls[j]
                    /\ Len(At(ls, j - 1, S)) = p - 1

LEMMA AtPlace ==
  ASSUME NEW X, NEW ls \in Seq(X), NEW S, NEW n \in 0 .. Len(ls), NEW p \in 1 .. Len(At(ls, n, S))
  PROVE  HasPlace(ls, S, n, p)
<1> DEFINE a(i) == At(ls, i, S)
           Place(i, q, j) == j \in S /\ a(i)[q] = ls[j] /\ Len(a(j - 1)) = q - 1
           Found(i) == \A q \in 1 .. Len(a(i)) : \E j \in 1 .. i : Place(i, q, j)
           T == {i \in 0 .. n : Found(i)}
<1>1. /\ a(0) = <<>>
      /\ \A i \in 1 .. Len(ls) : a(i) = AtStep(ls, S, i, a(i - 1))
      /\ \A i \in 0 .. Len(ls) : a(i) \in Seq(X)
  BY AtGoes, Zenon
<1>2. Len(ls) \in Nat /\ n \in Nat /\ n <= Len(ls)
  OBVIOUS
<1> HIDE DEF a
<1>3. 0 \in T
  <2>1. 1 .. Len(a(0)) = {}
    BY <1>1
  <2> QED
    BY <1>2, <2>1
<1>4. ASSUME NEW i \in 0 .. n - 1, Found(i), NEW q \in 1 .. Len(a(i + 1))
      PROVE  \E j \in 1 .. i + 1 : Place(i + 1, q, j)
  <2>1. i + 1 \in 1 .. Len(ls) /\ (i + 1) - 1 = i /\ i \in 0 .. Len(ls) /\ i + 1 \in 1 .. i + 1
    BY <1>1, <1>2
  <2>2. a(i + 1) = IF i + 1 \in S THEN Append(a(i), ls[i + 1]) ELSE a(i)
    BY <1>1, <2>1 DEF AtStep
  <2>3. a(i) \in Seq(X) /\ ls[i + 1] \in X
    BY <1>1, <2>1
  <2>4. CASE q \in 1 .. Len(a(i))
    <3>1. PICK j \in 1 .. i : Place(i, q, j)
      BY <1>4, <2>4
    <3>2. a(i + 1)[q] = a(i)[q]
      <4>1. CASE i + 1 \in S
        <5>1. a(i + 1) = Append(a(i), ls[i + 1])
          BY <2>2, <4>1
        <5> QED
          BY <5>1, <2>3, <2>4
      <4>2. CASE i + 1 \notin S
        BY <4>2, <2>2
      <4> QED
        BY <4>1, <4>2
    <3>3. Place(i + 1, q, j) /\ j \in 1 .. i + 1
      BY <3>1, <3>2
    <3> HIDE DEF Place
    <3> QED
      BY <3>3
  <2>5. CASE q \notin 1 .. Len(a(i))
    <3>1. i + 1 \in S /\ q = Len(a(i)) + 1 /\ a(i + 1)[q] = ls[i + 1]
      <4>1. CASE i + 1 \in S
        <5>1. a(i + 1) = Append(a(i), ls[i + 1])
          BY <2>2, <4>1
        <5> QED
          BY <5>1, <2>3, <2>5, <4>1
      <4>2. CASE i + 1 \notin S
        BY <4>2, <2>2, <2>5
      <4> QED
        BY <4>1, <4>2
    <3>2. Len(a(i)) = q - 1
      BY <3>1, <2>3
    <3>3. Place(i + 1, q, i + 1)
      BY <3>1, <3>2, <2>1
    <3> HIDE DEF Place
    <3> QED
      BY <3>3, <2>1
  <2> QED
    BY <2>4, <2>5
<1>5. \A i \in 0 .. n - 1 : i \in T => i + 1 \in T
  <2>1. \A i \in 0 .. n - 1 : Found(i) => Found(i + 1)
    <3> HIDE DEF Place
    <3> QED
      BY <1>4
  <2>2. \A i \in 0 .. n - 1 : i + 1 \in 0 .. n
    BY <1>2
  <2> HIDE DEF Found
  <2> QED
    BY <2>1, <2>2
<1>6. n \in T
  <2> HIDE DEF T
  <2>1. \A i \in 0 .. n : i \in T
    BY <1>2, <1>3, <1>5, StepByStep
  <2> QED
    BY <1>2, <2>1
<1> QED
  BY <1>6 DEF HasPlace, a

(* They come in the order of their places. *)
LEMMA AtOrder ==
  ASSUME NEW X, NEW ls \in Seq(X), NEW S, NEW i \in 0 .. Len(ls), NEW j \in 0 .. Len(ls),
         Len(At(ls, i, S)) < Len(At(ls, j, S))
  PROVE  i < j
<1>0. Len(ls) \in Nat
  OBVIOUS
<1>1. At(ls, i, S) \in Seq(X) /\ At(ls, j, S) \in Seq(X)
  BY AtGoes
<1>2. CASE j <= i
  <2>1. j \in 0 .. i
    BY <1>0, <1>2
  <2>2. Len(At(ls, j, S)) <= Len(At(ls, i, S))
    BY <2>1, AtPrefix
  <2> QED
    BY <1>1, <2>2
<1> QED
  BY <1>0, <1>2

LEMMA JoinAppend ==
  ASSUME NEW X, NEW s \in Seq(X), NEW t \in Seq(X), NEW x \in X
  PROVE  s \o Append(t, x) = Append(s \o t, x)
<1> DEFINE l == Append(s \o t, x)
           r == s \o Append(t, x)
<1>1. l \in Seq(X) /\ r \in Seq(X) /\ Len(l) = Len(r)
  OBVIOUS
<1>2. ASSUME NEW i \in 1 .. Len(l) PROVE l[i] = r[i]
  OBVIOUS
<1>3. l = r
  <2> HIDE DEF l, r
  <2> QED
    BY <1>1, <1>2, SeqEqual
<1> QED
  BY <1>3

GoesOn(X, ls, S, m, more, S2, n) ==
  /\ ls \in Seq(X) /\ more \in Seq(X)
  /\ m \in 0 .. Len(ls) /\ n \in 0 .. Len(more) /\ m + n <= Len(ls)
  /\ \A j \in 1 .. n : more[j] = ls[m + j] /\ (j \in S2 <=> m + j \in S)

(* Those of a sequence that goes on after m are those up to m and then     *)
(* those of what follows.                                                  *)
LEMMA AtThen ==
  ASSUME NEW X, NEW ls, NEW S, NEW m, NEW more, NEW S2, NEW n,
         GoesOn(X, ls, S, m, more, S2, n)
  PROVE  At(ls, m, S) \o At(more, n, S2) = At(ls, m + n, S)
<1> DEFINE a(i) == At(ls, i, S)
           b(i) == At(more, i, S2)
           T == {i \in 0 .. n : a(m + i) = a(m) \o b(i)}
<1>0. /\ ls \in Seq(X) /\ more \in Seq(X)
      /\ m \in 0 .. Len(ls) /\ n \in 0 .. Len(more) /\ m + n <= Len(ls)
  BY DEF GoesOn
<1>1. /\ \A i \in 1 .. Len(ls) : a(i) = AtStep(ls, S, i, a(i - 1))
      /\ \A i \in 0 .. Len(ls) : a(i) \in Seq(X)
      /\ b(0) = <<>>
      /\ \A i \in 1 .. Len(more) : b(i) = AtStep(more, S2, i, b(i - 1))
      /\ \A i \in 0 .. Len(more) : b(i) \in Seq(X)
  BY <1>0, AtGoes, Zenon
<1>2. /\ Len(ls) \in Nat /\ Len(more) \in Nat
      /\ n \in Nat /\ m \in Nat /\ n <= Len(more) /\ m + n <= Len(ls) /\ m <= Len(ls)
  BY <1>0
<1> HIDE DEF a, b
<1>3. 0 \in T
  <2>1. m + 0 = m /\ a(m) \in Seq(X) /\ b(0) = <<>>
    BY <1>1, <1>2
  <2>2. a(m) = a(m) \o <<>>
    BY <2>1
  <2> QED
    BY <1>2, <2>1, <2>2
<1>4. ASSUME NEW i \in 0 .. n - 1, a(m + i) = a(m) \o b(i)
      PROVE  a(m + (i + 1)) = a(m) \o b(i + 1)
  <2> DEFINE k == m + i + 1
  <2>1. /\ k \in 1 .. Len(ls) /\ k - 1 = m + i /\ m + (i + 1) = k
        /\ i + 1 \in 1 .. Len(more) /\ (i + 1) - 1 = i /\ i + 1 \in 1 .. n
        /\ i \in 0 .. Len(more)
    BY <1>1, <1>2
  <2>2. more[i + 1] = ls[k] /\ (i + 1 \in S2 <=> k \in S)
    BY <2>1 DEF GoesOn
  <2> HIDE DEF k
  <2>3. a(k) = AtStep(ls, S, k, a(m + i)) /\ b(i + 1) = AtStep(more, S2, i + 1, b(i))
    BY <1>1, <2>1
  <2>4. a(m) \in Seq(X) /\ b(i) \in Seq(X) /\ ls[k] \in X
    BY <1>0, <1>1, <1>2, <2>1
  <2>6. Append(a(m) \o b(i), ls[k]) = a(m) \o Append(b(i), ls[k])
    <3> DEFINE s == a(m)
               t == b(i)
               x == ls[k]
    <3>1. s \in Seq(X) /\ t \in Seq(X) /\ x \in X
      BY <2>4
    <3>2. s \o Append(t, x) = Append(s \o t, x)
      <4> HIDE DEF s, t, x
      <4> QED
        BY <3>1, JoinAppend
    <3> QED
      BY <3>2
  <2>7. CASE k \in S
    BY <1>4, <2>1, <2>2, <2>3, <2>6, <2>7 DEF AtStep
  <2>8. CASE k \notin S
    BY <1>4, <2>1, <2>2, <2>3, <2>8 DEF AtStep
  <2> QED
    BY <2>7, <2>8
<1>5. \A i \in 0 .. n - 1 : i \in T => i + 1 \in T
  <2>1. \A i \in 0 .. n - 1 : i + 1 \in 0 .. n
    BY <1>2
  <2> QED
    BY <1>4, <2>1
<1>6. n \in T
  <2> HIDE DEF T
  <2>1. \A i \in 0 .. n : i \in T
    BY <1>2, <1>3, <1>5, StepByStep
  <2> QED
    BY <1>2, <2>1
<1> QED
  BY <1>6 DEF a, b
----------------------------------------------------------------------------
(* Chunks *)

LEMMA LastOfIs ==
  ASSUME NEW X, NEW s \in Seq(X), NEW n \in Nat
  PROVE  /\ LastOf(s, n) \in Seq(X)
         /\ Len(LastOf(s, n)) = Smaller(n, Len(s))
         /\ \A i \in 1 .. Len(LastOf(s, n)) :
              LastOf(s, n)[i] = s[Len(s) - Len(LastOf(s, n)) + i]
         /\ n >= Len(s) => LastOf(s, n) = s
<1> DEFINE k == Len(s) - Smaller(n, Len(s))
           l == SubSeq(s, k + 1, Len(s))
<1>0. Len(s) \in Nat
  OBVIOUS
<1>1. Len(s) \in Nat /\ k \in 0 .. Len(s) /\ k + 1 = Larger(1, Len(s) - n + 1)
  <2>1. CASE n <= Len(s)
    BY <1>0, <2>1 DEF Smaller, Larger
  <2>2. CASE ~(n <= Len(s))
    BY <1>0, <2>2 DEF Smaller, Larger
  <2> QED
    BY <2>1, <2>2
<1>2. LastOf(s, n) = l
  BY <1>1 DEF LastOf
<1>3. Len(s) - k = Smaller(n, Len(s)) /\ (n >= Len(s) => k = 0)
  BY <1>1 DEF Smaller
<1> HIDE DEF k
<1>4. l \in Seq(X) /\ Len(l) = Len(s) - k /\ \A i \in 1 .. Len(l) : l[i] = s[k + i]
  BY <1>1
<1> HIDE DEF l
<1>5. Len(s) - Len(l) = k
  BY <1>1, <1>4
<1>6. \A i \in 1 .. Len(l) : l[i] = s[Len(s) - Len(l) + i]
  BY <1>4, <1>5
<1>7. ASSUME n >= Len(s) PROVE l = s
  <2>1. Len(l) = Len(s) /\ \A i \in 1 .. Len(l) : l[i] = s[i]
    BY <1>1, <1>3, <1>4, <1>7
  <2> QED
    BY <1>4, <2>1, SeqEqual
<1> QED
  BY <1>2, <1>3, <1>4, <1>6, <1>7

LEMMA Shares ==
  ASSUME NEW n \in Nat, NEW c \in Nat, NEW m \in Nat
  PROVE  Smaller(c, m - Smaller(n, m)) + Smaller(n, m) = Smaller(n + c, m)
BY DEF Smaller

(* The chunk before a chunk, and that one, are a larger chunk.             *)
LEMMA ChunkBefore ==
  ASSUME NEW X, NEW s \in Seq(X), NEW n \in Nat, NEW c \in Nat, NEW p \in 1 .. Len(s),
         p = Len(s) - Len(LastOf(s, n)) + 1
  PROVE  LastOf(SubSeq(s, 1, p - 1), c) \o LastOf(s, n) = LastOf(s, n + c)
<1> DEFINE L == Len(s)
           l == LastOf(s, n)
           u == SubSeq(s, 1, p - 1)
           v == LastOf(u, c)
           w == LastOf(s, n + c)
<1>1. L \in Nat /\ p \in Nat /\ n + c \in Nat
  OBVIOUS
<1>2. u \in Seq(X) /\ Len(u) = p - 1 /\ \A i \in 1 .. p - 1 : u[i] = s[i]
  BY <1>1
<1>3. l \in Seq(X) /\ Len(l) = Smaller(n, L) /\ \A i \in 1 .. Len(l) : l[i] = s[L - Len(l) + i]
  BY LastOfIs
<1>4. w \in Seq(X) /\ Len(w) = Smaller(n + c, L) /\ \A i \in 1 .. Len(w) : w[i] = s[L - Len(w) + i]
  BY <1>1, LastOfIs
<1> HIDE DEF u, l, w
<1>5. v \in Seq(X) /\ Len(v) = Smaller(c, Len(u)) /\ \A i \in 1 .. Len(v) : v[i] = u[Len(u) - Len(v) + i]
  <2>1. u \in Seq(X)
    BY <1>2
  <2> QED
    BY <2>1, LastOfIs
<1> HIDE DEF v
<1> DEFINE nu == Len(u)
           nv == Len(v)
           nl == Len(l)
           nw == Len(w)
<1>6. /\ L \in Nat /\ p \in Nat /\ nu \in Nat /\ nv \in Nat /\ nl \in Nat /\ nw \in Nat
      /\ nu = p - 1 /\ nl = L - p + 1 /\ nv <= nu
  <2>1. nu = p - 1 /\ nu \in Nat /\ nv \in Nat /\ nl \in Nat /\ nw \in Nat
    BY <1>2, <1>3, <1>4, <1>5
  <2>2. p = L - nl + 1
    BY DEF l
  <2>3. nv = Smaller(c, nu)
    BY <1>5
  <2> HIDE DEF L, nu, nv, nl, nw
  <2>4. nv <= nu
    BY <2>1, <2>3 DEF Smaller
  <2> QED
    BY <1>1, <2>1, <2>2, <2>4
<1>7. nv + nl = nw
  <2>1. nl = Smaller(n, L) /\ nv = Smaller(c, nu) /\ nw = Smaller(n + c, L)
    BY <1>3, <1>4, <1>5
  <2> HIDE DEF L, nu, nv, nl, nw
  <2>2. Smaller(c, L - Smaller(n, L)) + Smaller(n, L) = Smaller(n + c, L)
    BY <1>1, Shares, Zenon
  <2>3. nu = L - nl
    BY <1>6
  <2>4. nv = Smaller(c, L - Smaller(n, L))
    BY <2>1, <2>3, Zenon
  <2> QED
    BY <2>1, <2>2, <2>4, Zenon
<1>8. v \o l \in Seq(X) /\ Len(v \o l) = nw
  <2>1. v \o l \in Seq(X) /\ Len(v \o l) = nv + nl
    BY <1>3, <1>5, ConcatProperties
  <2> QED
    BY <1>7, <2>1
<1>9. ASSUME NEW i \in 1 .. nw PROVE (v \o l)[i] = w[i]
  <2>1. (v \o l)[i] = IF i <= nv THEN v[i] ELSE l[i - nv]
    <3>1. i \in 1 .. nv + nl
      BY <1>7
    <3> QED
      BY <1>3, <1>5, <3>1, ConcatProperties
  <2>2. w[i] = s[L - nw + i]
    BY <1>4
  <2>3. CASE i <= nv
    <3>1. v[i] = u[nu - nv + i] /\ \A j \in 1 .. p - 1 : u[j] = s[j]
      BY <1>2, <1>5, <2>3
    <3> HIDE DEF L, nu, nv, nl, nw
    <3>2. nu - nv + i \in 1 .. p - 1 /\ nu - nv + i = L - nw + i
      BY <1>6, <1>7, <2>3
    <3> QED
      BY <2>1, <2>2, <2>3, <3>1, <3>2
  <2>4. CASE ~(i <= nv)
    <3>1. \A j \in 1 .. nl : l[j] = s[L - nl + j]
      BY <1>3
    <3> HIDE DEF L, nu, nv, nl, nw
    <3>2. i - nv \in 1 .. nl /\ L - nl + (i - nv) = L - nw + i
      BY <1>6, <1>7, <2>4
    <3> QED
      BY <2>1, <2>2, <2>4, <3>1, <3>2
  <2> QED
    BY <2>3, <2>4
<1>10. v \o l = w
  BY <1>4, <1>8, <1>9, SeqEqual
<1> QED
  BY <1>10 DEF v, u, l, w

MoreBefore(pages, got) == IF got = <<>> THEN <<>> ELSE pages[Head(got).id] \o got
IsGot(got, pages) ==
  got = [n \in 0 .. MaxTrades |-> IF n = 0 THEN pages[None] ELSE MoreBefore(pages, got[n - 1])]
Gets(pages) == CHOOSE got : IsGot(got, pages)

LEMMA AllChunksGets ==
  ASSUME NEW pages
  PROVE  AllChunks(pages) = Gets(pages)[MaxTrades]
BY DEF AllChunks, Gets, IsGot, MoreBefore

ChunksOf(pages, s) ==
  /\ pages[None] = LastOf(s, ChunkSize)
  /\ \A p \in 1 .. Len(s) : pages[s[p].id] = LastOf(SubSeq(s, 1, p - 1), ChunkSize)

(* Pages that are, for each of some logs, the chunk before it give all of  *)
(* these logs in the end, as many as there may be.                         *)
LEMMA PagesGiveAll ==
  ASSUME NEW X, NEW s \in Seq(X), Len(s) <= MaxTrades, NEW pages,
         ChunksOf(pages, s)
  PROVE  AllChunks(pages) = s
<1> DEFINE C == ChunkSize
           M == MaxTrades
           w == [n \in 0 .. M |-> LastOf(s, (n + 1) * C)]
           g == Gets(pages)
<1>1. C \in Nat /\ C >= 1 /\ M \in Nat /\ Len(s) \in Nat
  BY TradeViewsAssumption
<1>2. \A n \in Nat : n * C \in Nat /\ (n + 1) * C = n * C + C /\ n * C >= n
  BY <1>1
<1>3. w[0] = pages[None]
  <2>1. (0 + 1) * C = C
    BY <1>1
  <2> QED
    BY <1>1, <2>1 DEF ChunksOf
<1>4. ASSUME NEW n \in 1 .. M
      PROVE  w[n] = MoreBefore(pages, w[n - 1])
  <2> DEFINE x == n * C
             l == LastOf(s, x)
  <2>1. n \in Nat /\ n - 1 \in 0 .. M /\ n \in 0 .. M /\ (n - 1) + 1 = n
    BY <1>1
  <2>2. x \in Nat /\ x >= 1 /\ (n + 1) * C = x + C
    BY <1>2, <2>1
  <2>3. w[n - 1] = l /\ w[n] = LastOf(s, x + C)
    BY <2>1, <2>2
  <2> HIDE DEF w, x
  <2>4. /\ l \in Seq(X) /\ Len(l) = Smaller(x, Len(s))
        /\ \A i \in 1 .. Len(l) : l[i] = s[Len(s) - Len(l) + i]
    BY <2>2, LastOfIs
  <2>5. CASE Len(s) = 0
    <3>1. l = <<>>
      BY <2>4, <2>2, <2>5 DEF Smaller
    <3>2. x + C \in Nat
      BY <1>1, <2>2
    <3>3. LastOf(s, x + C) = <<>>
      <4>1. LastOf(s, x + C) = s
        <5> DEFINE y == x + C
        <5>1. y \in Nat /\ y >= Len(s)
          BY <1>1, <2>5, <3>2
        <5> HIDE DEF y
        <5>2. LastOf(s, y) = s
          BY <5>1, LastOfIs
        <5> QED
          BY <5>2 DEF y
      <4> QED
        BY <4>1, <2>5
    <3> QED
      BY <2>3, <3>1, <3>3 DEF MoreBefore
  <2>6. CASE Len(s) # 0
    <3> DEFINE p == Len(s) - Len(l) + 1
    <3>1. Len(l) >= 1 /\ p \in 1 .. Len(s)
      BY <1>1, <2>2, <2>4, <2>6 DEF Smaller
    <3>2. l # <<>> /\ Head(l) = s[p]
      BY <2>4, <3>1
    <3>3. pages[s[p].id] = LastOf(SubSeq(s, 1, p - 1), C)
      BY <3>1 DEF ChunksOf
    <3>4. LastOf(SubSeq(s, 1, p - 1), C) \o l = LastOf(s, x + C)
      <4> HIDE DEF C
      <4> QED
        BY <1>1, <2>2, <3>1, ChunkBefore
    <3> HIDE DEF l, p, C
    <3> QED
      BY <2>3, <3>2, <3>3, <3>4 DEF MoreBefore
  <2> QED
    BY <2>5, <2>6
<1>5. IsGot(w, pages)
  <2>1. w = [n \in 0 .. M |-> w[n]]
    OBVIOUS
  <2> HIDE DEF w
  <2>2. \A n \in 0 .. M : w[n] = IF n = 0 THEN pages[None] ELSE MoreBefore(pages, w[n - 1])
    BY <1>1, <1>3, <1>4
  <2> QED
    BY <2>1, <2>2, Zenon DEF IsGot
<1>6. IsGot(g, pages)
  <2> HIDE DEF w
  <2> QED
    BY <1>5 DEF Gets
<1>7. g[0] = pages[None] /\ \A n \in 1 .. M : g[n] = MoreBefore(pages, g[n - 1])
  <2> HIDE DEF g
  <2>1. \A n \in 0 .. M : g[n] = IF n = 0 THEN pages[None] ELSE MoreBefore(pages, g[n - 1])
    BY <1>6, Zenon DEF IsGot
  <2> QED
    BY <1>1, <2>1
<1>8. \A n \in 0 .. M : g[n] = w[n]
  <2> HIDE DEF g, w
  <2>1. \A n \in 1 .. M : g[n - 1] = w[n - 1] => g[n] = w[n]
    BY <1>4, <1>7
  <2>2. g[0] = w[0] /\ M \in Nat
    BY <1>1, <1>3, <1>7
  <2> HIDE DEF M
  <2>3. GoAlike(g, w, M)
    BY <2>1, <2>2 DEF GoAlike
  <2> QED
    BY <2>2, <2>3, SameLoop
<1>9. w[M] = s
  <2> DEFINE x == (M + 1) * C
  <2>1. x \in Nat /\ x >= Len(s)
    BY <1>1, <1>2
  <2>2. w[M] = LastOf(s, x)
    BY <1>1
  <2> HIDE DEF x
  <2> QED
    BY <2>1, <2>2, LastOfIs
<1> HIDE DEF g, w
<1> QED
  BY <1>1, <1>8, <1>9, AllChunksGets DEF g

LEMMA AtSame ==
  ASSUME NEW X, NEW ls, NEW S, NEW more, NEW S2, NEW n, GoesOn(X, ls, S, 0, more, S2, n)
  PROVE  At(ls, n, S) = At(more, n, S2)
<1>1. /\ ls \in Seq(X) /\ more \in Seq(X) /\ Len(ls) \in Nat /\ Len(more) \in Nat
      /\ n \in 0 .. Len(more) /\ 0 + n = n
  BY DEF GoesOn
<1>2. At(ls, 0, S) \o At(more, n, S2) = At(ls, 0 + n, S)
  BY AtThen
<1>3. At(ls, 0, S) = <<>> /\ At(more, n, S2) \in Seq(X)
  BY <1>1, AtGoes
<1>4. \A s \in Seq(X) : <<>> \o s = s
  BY ConcatEmptySeq
<1> QED
  BY <1>1, <1>2, <1>3, <1>4

----------------------------------------------------------------------------
(* Where the trades are *)

NotPaid == {[Cycles |-> None, Token |-> None]}
PaidOut == [Cycles : Payout, Token : Payout]
LogWith(P) ==
  [id : Nat, matchee : Position, matcher : Position, rate : Rate,
   kind : {"Cycles", "Token"}, tokens : Tokens, cycles : Nat, time : Nat,
   tokens_payout_fee : Nat, cycles_payout_fee : Nat, payouts : P]
TradeLog == LogWith(NotPaid \cup PaidOut)

(* The trades that were made are numbered, and come in the order of time.  *)
MadeOK ==
  /\ trades \in Seq(LogWith(NotPaid)) /\ Len(trades) <= MaxTrades /\ now \in Nat
  /\ \A i \in 1 .. Len(trades) : trades[i].id = i - 1 /\ trades[i].time <= now
  /\ \A i, j \in 1 .. Len(trades) : i < j => trades[i].time <= trades[j].time

(* How many trades have left the queue, and how many of them the buffer.   *)
Moved == Len(trades) - Len(trade_logs)
Taken == Len(trades) - Len(trade_logs) - Len(storage_buffer)

(* The latest trades are in the queue, those before them in the buffer.    *)
PlacesOK ==
  /\ trade_logs \in Seq(TradeLog) /\ storage_buffer \in Seq(TradeLog)
  /\ Taken \in Nat
  /\ in_flush \in 0 .. Len(storage_buffer)
  /\ \A i \in 1 .. Len(trade_logs) : trade_logs[i] = trades[Moved + i]
  /\ \A i \in 1 .. Len(storage_buffer) : storage_buffer[i] = Paid(trades[Taken + i])

Canister == [first_log_id : Nat, logs : Seq(TradeLog), index : [Position -> Seq(Nat)]]
(* What a canister has in a row from its first trade on, with its index.   *)
CanisterOK(sc) ==
  /\ sc.logs # <<>> /\ sc.first_log_id + Len(sc.logs) <= Len(trades)
  /\ \A j \in 1 .. Len(sc.logs) : sc.logs[j] = Paid(trades[sc.first_log_id + j])
  /\ sc.index = [k \in Position |-> IdsOf(sc.logs, k)]
(* Each canister begins where the one before it ends.                      *)
EndOf(scs, c) == IF c = 0 THEN 0 ELSE scs[c].first_log_id + Len(scs[c].logs)
InRow(scs, end) ==
  /\ scs \in Seq(Canister)
  /\ \A c \in 1 .. Len(scs) : CanisterOK(scs[c]) /\ scs[c].first_log_id = EndOf(scs, c - 1)
  /\ EndOf(scs, Len(scs)) = end
StoredOK == InRow(storage_canisters, Taken + in_flush)

(* The inductive invariant of the places of the trades.                    *)
LogsInv == MadeOK /\ PlacesOK /\ StoredOK

LEMMA PaidLog ==
  ASSUME NEW tl \in LogWith(NotPaid), tl.id < MaxTrades
  PROVE  /\ Paid(tl) \in LogWith(PaidOut) /\ Paid(tl) \in TradeLog
         /\ Paid(tl).id = tl.id /\ Paid(tl).matchee = tl.matchee /\ Paid(tl).matcher = tl.matcher
<1>1. tl.id \in 0 .. MaxTrades - 1
  BY TradeViewsAssumption DEF LogWith
<1>2. Payouts[tl.id] \in PaidOut
  BY <1>1, TradeViewsAssumption DEF PaidOut
<1> DEFINE p == Payouts[tl.id]
<1>3. Paid(tl) = [tl EXCEPT !.payouts = p]
  BY DEF Paid
<1> HIDE DEF p
<1> QED
  BY <1>2, <1>3 DEF LogWith, TradeLog, p

LEMMA InitLogs == ViewsInit => LogsInv
<1> SUFFICES ASSUME ViewsInit PROVE LogsInv
  OBVIOUS
<1>1. MadeOK
  BY TradeViewsAssumption DEF ViewsInit, MadeOK
<1>2. Taken = 0 /\ PlacesOK
  <2>1. trades = <<>> /\ trade_logs = <<>> /\ storage_buffer = <<>> /\ in_flush = 0
    BY DEF ViewsInit
  <2>2. Len(trades) = 0 /\ Len(trade_logs) = 0 /\ Len(storage_buffer) = 0
    BY <2>1
  <2>3. Taken = 0
    BY <2>2 DEF Taken
  <2> QED
    BY <2>1, <2>2, <2>3 DEF PlacesOK
<1>3. StoredOK
  <2>1. storage_canisters = <<>> /\ in_flush = 0
    BY DEF ViewsInit
  <2>2. Len(storage_canisters) = 0 /\ storage_canisters \in Seq(Canister) /\ Taken + in_flush = 0
    BY <1>2, <2>1
  <2> QED
    BY <2>2 DEF StoredOK, InRow, EndOf
<1> QED
  BY <1>1, <1>2, <1>3 DEF LogsInv

(* A step after which the trades so far are the same, and the canisters.   *)
LEMMA StaysStored ==
  ASSUME MadeOK, StoredOK, UNCHANGED storage_canisters, (Taken + in_flush)' = Taken + in_flush,
         Len(trades) <= Len(trades'), Len(trades') \in Nat,
         \A i \in 1 .. Len(trades) : trades'[i] = trades[i]
  PROVE  StoredOK'
<1> DEFINE scs == storage_canisters
<1>1. scs \in Seq(Canister) /\ EndOf(scs, Len(scs)) = Taken + in_flush
  BY DEF StoredOK, InRow
<1>2. \A c \in 1 .. Len(scs) : CanisterOK(scs[c]) /\ scs[c].first_log_id = EndOf(scs, c - 1)
  BY DEF StoredOK, InRow
<1> HIDE DEF scs
<1>3. ASSUME NEW c \in 1 .. Len(scs)
      PROVE  CanisterOK(scs[c])'
  <2> DEFINE sc == scs[c]
             f == sc.first_log_id
             ls == sc.logs
  <2>1. sc \in Canister
    BY <1>1
  <2>2. f \in Nat /\ ls \in Seq(TradeLog)
    BY <2>1 DEF Canister
  <2>3. /\ ls # <<>> /\ f + Len(ls) <= Len(trades)
        /\ \A j \in 1 .. Len(ls) : ls[j] = Paid(trades[f + j])
        /\ sc.index = [k \in Position |-> IdsOf(ls, k)]
    BY <1>2 DEF CanisterOK
  <2>4. scs' = scs
    BY DEF scs
  <2>5. f + Len(ls) <= Len(trades')
    BY <2>2, <2>3 DEF MadeOK
  <2>6. ASSUME NEW j \in 1 .. Len(ls) PROVE ls[j] = Paid(trades'[f + j])
    <3>1. f + j \in 1 .. Len(trades)
      BY <2>2, <2>3 DEF MadeOK
    <3> QED
      BY <2>3, <3>1
  <2> QED
    BY <2>3, <2>4, <2>5, <2>6 DEF CanisterOK, Paid, IdsOf
<1>4. scs' = scs
  BY DEF scs
<1> QED
  BY <1>1, <1>2, <1>3, <1>4 DEF StoredOK, InRow, EndOf, scs

LEMMA TradeLogs ==
  ASSUME LogsInv, NEW a \in Position, NEW b \in Position, NEW r \in Rate, NEW t \in Tokens,
         Trade(a, b, r, t)
  PROVE  LogsInv'
<1> DEFINE tl == [id |-> Len(trades), matchee |-> a, matcher |-> b, rate |-> r,
             kind |-> PositionKind[a], tokens |-> t, cycles |-> t * r, time |-> now,
             tokens_payout_fee |-> Fees[Len(trades)].tokens,
             cycles_payout_fee |-> Fees[Len(trades)].cycles,
             payouts |-> [Cycles |-> None, Token |-> None]]
<1>1. /\ Len(trades) < MaxTrades
      /\ trades' = Append(trades, tl) /\ trade_logs' = Append(trade_logs, tl)
      /\ UNCHANGED <<storage_buffer, storage_canisters, in_flush, now>>
  BY DEF Trade, storageVars
<1>2. /\ trades \in Seq(LogWith(NotPaid)) /\ Len(trades) \in Nat /\ now \in Nat
      /\ trade_logs \in Seq(TradeLog) /\ storage_buffer \in Seq(TradeLog)
  BY DEF LogsInv, MadeOK, PlacesOK
<1>3. tl \in LogWith(NotPaid) /\ tl \in TradeLog
  <2>1. t * r \in Nat
    BY TradeViewsAssumption
  <2>2. Fees[Len(trades)] \in [tokens : Nat, cycles : Nat]
    BY <1>1, <1>2, TradeViewsAssumption
  <2>3. PositionKind[a] \in {"Cycles", "Token"}
    BY TradeViewsAssumption
  <2> QED
    BY <1>2, <2>1, <2>2, <2>3 DEF LogWith, NotPaid, TradeLog
<1>4. tl.id = Len(trades) /\ tl.time = now
  OBVIOUS
<1> HIDE DEF tl
<1>5. /\ Len(trades') = Len(trades) + 1 /\ trades'[Len(trades) + 1] = tl
      /\ \A i \in 1 .. Len(trades) : trades'[i] = trades[i]
      /\ trades' \in Seq(LogWith(NotPaid))
  BY <1>1, <1>2, <1>3
<1>6. /\ Len(trade_logs') = Len(trade_logs) + 1 /\ trade_logs'[Len(trade_logs) + 1] = tl
      /\ \A i \in 1 .. Len(trade_logs) : trade_logs'[i] = trade_logs[i]
      /\ trade_logs' \in Seq(TradeLog)
  BY <1>1, <1>2, <1>3
<1>7. MadeOK'
  <2> DEFINE n == Len(trades)
  <2>1. /\ \A i \in 1 .. n : trades[i].id = i - 1 /\ trades[i].time <= now
        /\ \A i, j \in 1 .. n : i < j => trades[i].time <= trades[j].time
    BY Zenon DEF LogsInv, MadeOK
  <2>2. now \in Nat /\ now' = now /\ n \in Nat /\ Len(trades') = n + 1
    BY <1>1, <1>2, <1>5
  <2>3. tl.id = n /\ tl.time = now /\ trades'[n + 1] = tl /\ \A i \in 1 .. n : trades'[i] = trades[i]
    BY <1>4, <1>5
  <2> HIDE DEF n
  <2>4. \A i \in 1 .. n + 1 : i \in 1 .. n \/ i = n + 1
    BY <2>2
  <2>5. \A i \in 1 .. n + 1 : trades'[i].id = i - 1 /\ trades'[i].time <= now
    <3> SUFFICES ASSUME NEW i \in 1 .. n + 1
                 PROVE  trades'[i].id = i - 1 /\ trades'[i].time <= now
      OBVIOUS
    <3>1. CASE i \in 1 .. n
      BY <2>1, <2>3, <3>1
    <3>2. CASE i = n + 1
      BY <2>2, <2>3, <3>2
    <3> QED
      BY <2>4, <3>1, <3>2
  <2>6. \A i, j \in 1 .. n + 1 : i < j => trades'[i].time <= trades'[j].time
    <3> SUFFICES ASSUME NEW i \in 1 .. n + 1, NEW j \in 1 .. n + 1, i < j
                 PROVE  trades'[i].time <= trades'[j].time
      OBVIOUS
    <3>1. i \in 1 .. n
      BY <2>2
    <3>2. trades'[i] = trades[i] /\ trades[i].time <= now
      BY <2>1, <2>3, <3>1
    <3>3. CASE j \in 1 .. n
      <4>1. trades'[j] = trades[j] /\ trades[i].time <= trades[j].time
        BY <2>1, <2>3, <3>1, <3>3
      <4> QED
        BY <3>2, <4>1
    <3>4. CASE j = n + 1
      <4>1. trades'[j].time = now
        BY <2>3, <3>4
      <4> QED
        BY <3>2, <4>1
    <3> QED
      BY <2>4, <3>3, <3>4
  <2>7. Len(trades') <= MaxTrades
    BY <1>1, <1>2, <2>2, TradeViewsAssumption DEF n
  <2> QED
    BY <1>5, <2>2, <2>5, <2>6, <2>7 DEF MadeOK
<1>8. Moved' = Moved /\ Taken' = Taken /\ Moved \in Nat /\ Taken \in Nat
  BY <1>1, <1>2, <1>5, <1>6 DEF Moved, Taken, LogsInv, PlacesOK
<1>9. PlacesOK'
  <2>1. ASSUME NEW i \in 1 .. Len(trade_logs') PROVE trade_logs'[i] = trades'[Moved + i]
    <3>1. CASE i \in 1 .. Len(trade_logs)
      <4>1. Moved + i \in 1 .. Len(trades)
        BY <1>2, <1>8, <3>1 DEF Moved
      <4> QED
        BY <1>5, <1>6, <3>1, <4>1 DEF LogsInv, PlacesOK
    <3>2. CASE i = Len(trade_logs) + 1
      <4>1. Moved + i = Len(trades) + 1
        BY <1>2, <3>2 DEF Moved
      <4> QED
        BY <1>5, <1>6, <3>2, <4>1
    <3> QED
      BY <1>2, <1>6, <3>1, <3>2
  <2>2. ASSUME NEW i \in 1 .. Len(storage_buffer) PROVE storage_buffer[i] = Paid(trades'[Taken + i])
    <3>1. Taken + i \in 1 .. Len(trades)
      BY <1>2, <1>8 DEF Taken
    <3> QED
      BY <1>5, <3>1 DEF LogsInv, PlacesOK
  <2>3. in_flush' \in 0 .. Len(storage_buffer')
    BY <1>1 DEF LogsInv, PlacesOK
  <2> QED
    BY <1>1, <1>2, <1>6, <1>8, <2>1, <2>2, <2>3 DEF PlacesOK, Paid
<1>10. StoredOK'
  <2>1. (Taken + in_flush)' = Taken + in_flush /\ Len(trades) <= Len(trades') /\ Len(trades') \in Nat
    BY <1>1, <1>2, <1>5, <1>8
  <2> QED
    BY <1>1, <1>5, <2>1, StaysStored DEF LogsInv
<1> QED
  BY <1>7, <1>9, <1>10 DEF LogsInv

LEMMA MoveLogs ==
  ASSUME LogsInv, MoveToBuffer
  PROVE  LogsInv'
<1> DEFINE tl == Paid(Head(trade_logs))
<1>1. /\ trade_logs # <<>> /\ trade_logs' = Tail(trade_logs)
      /\ storage_buffer' = Append(storage_buffer, tl)
      /\ UNCHANGED <<trades, storage_canisters, in_flush, now>>
  BY DEF MoveToBuffer, storageVars
<1>2. /\ trades \in Seq(LogWith(NotPaid)) /\ Len(trades) \in Nat /\ now \in Nat
      /\ trade_logs \in Seq(TradeLog) /\ storage_buffer \in Seq(TradeLog)
      /\ Moved \in Nat /\ Taken \in Nat /\ Len(trades) <= MaxTrades
      /\ in_flush \in 0 .. Len(storage_buffer)
  BY DEF LogsInv, MadeOK, PlacesOK, Moved, Taken
<1>3. Len(trade_logs) >= 1 /\ Moved + 1 \in 1 .. Len(trades)
  BY <1>1, <1>2 DEF Moved
<1>4. Head(trade_logs) = trades[Moved + 1]
  BY <1>1, <1>2, <1>3 DEF LogsInv, PlacesOK
<1>5. tl = Paid(trades[Moved + 1]) /\ tl \in TradeLog
  <2>1. trades[Moved + 1] \in LogWith(NotPaid) /\ trades[Moved + 1].id = Moved
    BY <1>2, <1>3 DEF LogsInv, MadeOK
  <2>2. Moved < MaxTrades
    BY <1>2, <1>3, TradeViewsAssumption
  <2> QED
    BY <1>4, <2>1, <2>2, PaidLog
<1> HIDE DEF tl
<1>6. /\ Len(storage_buffer') = Len(storage_buffer) + 1
      /\ storage_buffer'[Len(storage_buffer) + 1] = tl
      /\ \A i \in 1 .. Len(storage_buffer) : storage_buffer'[i] = storage_buffer[i]
      /\ storage_buffer' \in Seq(TradeLog)
  BY <1>1, <1>2, <1>5
<1>7. /\ Len(trade_logs') = Len(trade_logs) - 1 /\ trade_logs' \in Seq(TradeLog)
      /\ \A i \in 1 .. Len(trade_logs') : trade_logs'[i] = trade_logs[i + 1]
  BY <1>1, <1>2
<1>8. MadeOK'
  BY <1>1 DEF LogsInv, MadeOK
<1>9. Moved' = Moved + 1 /\ Taken' = Taken
  BY <1>1, <1>2, <1>6, <1>7 DEF Moved, Taken
<1>10. PlacesOK'
  <2>1. ASSUME NEW i \in 1 .. Len(trade_logs') PROVE trade_logs'[i] = trades[Moved' + i]
    <3>1. i + 1 \in 1 .. Len(trade_logs) /\ Moved' + i = Moved + (i + 1)
      BY <1>2, <1>7, <1>9
    <3> QED
      BY <1>7, <3>1 DEF LogsInv, PlacesOK
  <2>2. ASSUME NEW i \in 1 .. Len(storage_buffer') PROVE storage_buffer'[i] = Paid(trades[Taken + i])
    <3>1. CASE i \in 1 .. Len(storage_buffer)
      BY <1>6, <3>1 DEF LogsInv, PlacesOK
    <3>2. CASE i = Len(storage_buffer) + 1
      <4>1. Taken + i = Moved + 1
        BY <1>2, <3>2 DEF Moved, Taken
      <4> QED
        BY <1>5, <1>6, <3>2, <4>1
    <3> QED
      BY <1>2, <1>6, <3>1, <3>2
  <2>3. in_flush' \in 0 .. Len(storage_buffer')
    BY <1>1, <1>2, <1>6
  <2> QED
    BY <1>1, <1>2, <1>6, <1>7, <1>9, <2>1, <2>2, <2>3 DEF PlacesOK, Paid
<1>11. StoredOK'
  <2>1. (Taken + in_flush)' = Taken + in_flush /\ Len(trades) <= Len(trades') /\ Len(trades') \in Nat
    BY <1>1, <1>2, <1>9
  <2> QED
    BY <1>1, <2>1, StaysStored DEF LogsInv
<1> QED
  BY <1>8, <1>10, <1>11 DEF LogsInv

LEMMA FlushReturnsLogs ==
  ASSUME LogsInv, FlushReturns
  PROVE  LogsInv'
<1> DEFINE f == in_flush
<1>1. /\ storage_buffer' = SubSeq(storage_buffer, f + 1, Len(storage_buffer)) /\ in_flush' = 0
      /\ UNCHANGED <<trades, trade_logs, storage_canisters, now>>
  BY DEF FlushReturns
<1>2. /\ Len(trades) \in Nat /\ trade_logs \in Seq(TradeLog) /\ storage_buffer \in Seq(TradeLog)
      /\ Moved \in Nat /\ Taken \in Nat /\ f \in 0 .. Len(storage_buffer)
  BY DEF LogsInv, MadeOK, PlacesOK, Moved, Taken
<1> HIDE DEF f
<1>3. /\ storage_buffer' \in Seq(TradeLog) /\ Len(storage_buffer') = Len(storage_buffer) - f
      /\ \A i \in 1 .. Len(storage_buffer') : storage_buffer'[i] = storage_buffer[f + i]
  BY <1>1, <1>2
<1>4. Moved' = Moved /\ Taken' = Taken + f /\ Taken' \in Nat
  <2>1. /\ Len(trades) \in Nat /\ Len(trade_logs) \in Nat /\ Len(storage_buffer) \in Nat
        /\ Len(trades') = Len(trades) /\ Len(trade_logs') = Len(trade_logs)
    BY <1>1, <1>2
  <2>2. Moved' = Moved
    BY <2>1 DEF Moved
  <2>3. Taken' = Taken + f
    BY <1>2, <1>3, <2>1 DEF Taken
  <2> QED
    BY <1>2, <2>2, <2>3
<1>5. MadeOK'
  BY <1>1 DEF LogsInv, MadeOK
<1>6. PlacesOK'
  <2>1. ASSUME NEW i \in 1 .. Len(storage_buffer') PROVE storage_buffer'[i] = Paid(trades[Taken' + i])
    <3>1. f + i \in 1 .. Len(storage_buffer) /\ Taken' + i = Taken + (f + i)
      BY <1>2, <1>3, <1>4
    <3> QED
      BY <1>3, <3>1 DEF LogsInv, PlacesOK
  <2>2. \A i \in 1 .. Len(trade_logs) : trade_logs[i] = trades[Moved + i]
    BY DEF LogsInv, PlacesOK
  <2>3. in_flush' \in 0 .. Len(storage_buffer')
    BY <1>1, <1>2, <1>3
  <2> QED
    BY <1>1, <1>2, <1>3, <1>4, <2>1, <2>2, <2>3 DEF PlacesOK, Paid
<1>7. StoredOK'
  <2>1. (Taken + in_flush)' = Taken + in_flush /\ Len(trades) <= Len(trades') /\ Len(trades') \in Nat
    BY <1>1, <1>2, <1>4 DEF f
  <2> QED
    BY <1>1, <2>1, StaysStored DEF LogsInv
<1> QED
  BY <1>5, <1>6, <1>7 DEF LogsInv

LEMMA QuietLogs ==
  ASSUME LogsInv, UNCHANGED <<trades, trade_logs, storage_buffer, storageVars>>,
         now' \in Nat, now <= now'
  PROVE  LogsInv'
<1>1. UNCHANGED <<storage_canisters, in_flush>>
  BY DEF storageVars
<1>2. MadeOK'
  <2>1. \A i \in 1 .. Len(trades) : trades[i].time \in Nat
    <3>1. \A tl \in LogWith(NotPaid) : tl.time \in Nat
      BY DEF LogWith
    <3>2. trades \in Seq(LogWith(NotPaid))
      BY DEF LogsInv, MadeOK
    <3> QED
      BY <3>1, <3>2
  <2>2. \A i \in 1 .. Len(trades) : trades[i].time <= now'
    BY <2>1 DEF LogsInv, MadeOK
  <2> QED
    BY <2>2 DEF LogsInv, MadeOK
<1>3. PlacesOK'
  BY <1>1 DEF LogsInv, PlacesOK, Taken, Moved, Paid
<1>4. StoredOK'
  <2>1. (Taken + in_flush)' = Taken + in_flush /\ Len(trades) <= Len(trades') /\ Len(trades') \in Nat
    BY <1>1 DEF Taken, LogsInv, MadeOK
  <2> QED
    BY <1>1, <2>1, StaysStored DEF LogsInv
<1> QED
  BY <1>2, <1>3, <1>4 DEF LogsInv

IdsIn(ids, ls) ==
  /\ ids \in Seq(Nat) /\ ls \in Seq(TradeLog) /\ Len(ids) = Len(ls)
  /\ \A i \in 1 .. Len(ls) : ids[i] = ls[i].id

LEMMA IdsOfIs ==
  ASSUME NEW ls \in Seq(TradeLog), NEW k
  PROVE  IdsIn(IdsOf(ls, k), WithKey(ls, Len(ls), k))
<1> DEFINE S == {i \in DOMAIN ls : k = None \/ k \in Keys(ls[i])}
           w == WithKey(ls, Len(ls), k)
           ids == [i \in DOMAIN w |-> w[i].id]
<1>1. w \in Seq(TradeLog)
  <2>1. Len(ls) \in 0 .. Len(ls)
    OBVIOUS
  <2>2. w = At(ls, Len(ls), S)
    BY DEF WithKey
  <2> HIDE DEF S
  <2> QED
    BY <2>1, <2>2, AtGoes
<1>2. \A tl \in TradeLog : tl.id \in Nat
  BY DEF TradeLog, LogWith
<1>3. IdsOf(ls, k) = ids
  BY DEF IdsOf
<1> HIDE DEF w
<1>4. ids \in Seq(Nat) /\ Len(ids) = Len(w) /\ \A i \in 1 .. Len(w) : ids[i] = w[i].id
  BY <1>1, <1>2
<1> HIDE DEF ids
<1>5. IdsIn(ids, w)
  BY <1>1, <1>4 DEF IdsIn
<1> QED
  BY <1>3, <1>5 DEF w

LEMMA IdsInJoin ==
  ASSUME NEW a, NEW u, NEW b, NEW v, NEW c, IdsIn(a, u), IdsIn(b, v), IdsIn(c, u \o v)
  PROVE  a \o b = c
<1> DEFINE w == u \o v
<1>1. /\ u \in Seq(TradeLog) /\ v \in Seq(TradeLog) /\ w \in Seq(TradeLog)
      /\ a \in Seq(Nat) /\ b \in Seq(Nat) /\ c \in Seq(Nat)
      /\ Len(a) = Len(u) /\ Len(b) = Len(v) /\ Len(c) = Len(w)
      /\ \A i \in 1 .. Len(u) : a[i] = u[i].id
      /\ \A i \in 1 .. Len(v) : b[i] = v[i].id
      /\ \A i \in 1 .. Len(w) : c[i] = w[i].id
  BY DEF IdsIn
<1>2. /\ Len(w) = Len(u) + Len(v)
      /\ \A i \in 1 .. Len(u) + Len(v) : w[i] = IF i <= Len(u) THEN u[i] ELSE v[i - Len(u)]
  BY <1>1, ConcatProperties
<1>3. /\ a \o b \in Seq(Nat) /\ Len(a \o b) = Len(a) + Len(b)
      /\ \A i \in 1 .. Len(a) + Len(b) : (a \o b)[i] = IF i <= Len(a) THEN a[i] ELSE b[i - Len(a)]
  <2> DEFINE N == Nat
  <2>1. a \in Seq(N) /\ b \in Seq(N)
    BY <1>1
  <2>2. a \o b \in Seq(Nat)
    BY <1>1
  <2> HIDE DEF N
  <2> QED
    BY <2>1, <2>2, ConcatProperties
<1> HIDE DEF w
<1>4. ASSUME NEW i \in 1 .. Len(c) PROVE c[i] = (a \o b)[i]
  <2>1. /\ Len(u) \in Nat /\ Len(v) \in Nat /\ i \in 1 .. Len(u) + Len(v)
        /\ i \in 1 .. Len(a) + Len(b) /\ i \in 1 .. Len(w)
    BY <1>1, <1>2
  <2>2. CASE i <= Len(u)
    <3>1. i \in 1 .. Len(u) /\ w[i] = u[i] /\ (a \o b)[i] = a[i]
      BY <1>1, <1>2, <1>3, <2>1, <2>2
    <3> QED
      BY <1>1, <2>1, <3>1
  <2>3. CASE ~(i <= Len(u))
    <3>1. i - Len(u) \in 1 .. Len(v)
      BY <2>1, <2>3
    <3> QED
      BY <1>1, <1>2, <1>3, <2>1, <2>3, <3>1
  <2> QED
    BY <2>2, <2>3
<1> QED
  BY <1>1, <1>2, <1>3, <1>4, SeqEqual

(* The index of logs goes on with that of the logs that are added.         *)
LEMMA IdsOfJoin ==
  ASSUME NEW ls \in Seq(TradeLog), NEW more \in Seq(TradeLog), NEW k
  PROVE  IdsOf(ls, k) \o IdsOf(more, k) = IdsOf(ls \o more, k)
<1> DEFINE all == ls \o more
           S == {i \in DOMAIN all : k = None \/ k \in Keys(all[i])}
           S1 == {i \in DOMAIN ls : k = None \/ k \in Keys(ls[i])}
           S2 == {i \in DOMAIN more : k = None \/ k \in Keys(more[i])}
           m == Len(ls)
           n == Len(more)
<1>1. /\ all \in Seq(TradeLog) /\ Len(all) = m + n /\ m \in Nat /\ n \in Nat
      /\ DOMAIN all = 1 .. Len(all) /\ DOMAIN ls = 1 .. m /\ DOMAIN more = 1 .. n
      /\ \A i \in 1 .. m : all[i] = ls[i]
      /\ \A i \in 1 .. n : all[m + i] = more[i]
  OBVIOUS
<1> HIDE DEF all
<1>2. GoesOn(TradeLog, all, S, m, more, S2, n)
  BY <1>1 DEF GoesOn
<1>3. GoesOn(TradeLog, all, S, 0, ls, S1, m)
  BY <1>1 DEF GoesOn
<1> DEFINE u == WithKey(ls, m, k)
           v == WithKey(more, n, k)
           w == WithKey(all, m + n, k)
<1>5. u = At(ls, m, S1) /\ v = At(more, n, S2) /\ w = At(all, m + n, S)
  BY DEF WithKey
<1>6. /\ IdsIn(IdsOf(ls, k), u) /\ IdsIn(IdsOf(more, k), v) /\ IdsIn(IdsOf(all, k), w)
  BY <1>1, IdsOfIs
<1> HIDE DEF S, S1, S2, u, v, w, m, n
<1>7. At(all, m, S) \o At(more, n, S2) = At(all, m + n, S)
  BY <1>2, AtThen
<1>8. At(all, m, S) = At(ls, m, S1)
  BY <1>3, AtSame
<1>9. w = u \o v
  BY <1>5, <1>7, <1>8, Zenon
<1> QED
  BY <1>6, <1>9, IdsInJoin DEF all

(* A canister takes the logs after its last. *)
MayGrow(sc, chunk) ==
  /\ sc \in Canister /\ chunk \in Seq(TradeLog) /\ chunk # <<>>
  /\ sc.first_log_id + Len(sc.logs) + Len(chunk) <= Len(trades)
  /\ \A j \in 1 .. Len(sc.logs) : sc.logs[j] = Paid(trades[sc.first_log_id + j])
  /\ \A j \in 1 .. Len(chunk) : chunk[j] = Paid(trades[sc.first_log_id + Len(sc.logs) + j])
  /\ sc.index = [k \in Position |-> IdsOf(sc.logs, k)]

LEMMA CanisterGrows ==
  ASSUME NEW sc, NEW chunk, MayGrow(sc, chunk)
  PROVE  LET new == Grown(sc, chunk)
         IN /\ new \in Canister /\ CanisterOK(new) /\ new.first_log_id = sc.first_log_id
            /\ Len(new.logs) = Len(sc.logs) + Len(chunk)
<1> DEFINE f == sc.first_log_id
           ls == sc.logs
           all == ls \o chunk
           index == [k \in Position |-> sc.index[k] \o IdsOf(chunk, k)]
           new == [first_log_id |-> f, logs |-> all, index |-> index]
<1>1. /\ sc = [first_log_id |-> f, logs |-> ls, index |-> sc.index]
      /\ f \in Nat /\ ls \in Seq(TradeLog) /\ chunk \in Seq(TradeLog)
  BY DEF MayGrow, Canister
<1>2. Grown(sc, chunk) = new
  BY DEF Grown
<1>3. /\ all \in Seq(TradeLog) /\ Len(all) = Len(ls) + Len(chunk)
      /\ \A j \in 1 .. Len(ls) + Len(chunk) : all[j] = IF j <= Len(ls) THEN ls[j] ELSE chunk[j - Len(ls)]
  BY <1>1, ConcatProperties
<1>4. /\ Len(ls) \in Nat /\ Len(chunk) \in Nat /\ chunk # <<>> /\ Len(chunk) > 0
      /\ f + Len(ls) + Len(chunk) <= Len(trades)
  BY <1>1 DEF MayGrow
<1>5. index = [k \in Position |-> IdsOf(all, k)]
  <2>1. ASSUME NEW k \in Position PROVE sc.index[k] \o IdsOf(chunk, k) = IdsOf(all, k)
    <3>1. sc.index[k] = IdsOf(ls, k)
      BY DEF MayGrow
    <3>2. IdsOf(ls, k) \o IdsOf(chunk, k) = IdsOf(ls \o chunk, k)
      <4> HIDE DEF ls
      <4> QED
        BY <1>1, IdsOfJoin
    <3> QED
      BY <3>1, <3>2
  <2> QED
    BY <2>1, Zenon
<1>6. index \in [Position -> Seq(Nat)]
  <2>1. \A k \in Position : IdsOf(all, k) \in Seq(Nat)
    <3> HIDE DEF all
    <3> QED
      BY <1>3, IdsOfIs DEF IdsIn
  <2> QED
    BY <1>5, <2>1
<1> HIDE DEF all, index
<1>7. ASSUME NEW j \in 1 .. Len(all) PROVE all[j] = Paid(trades[f + j])
  <2>1. CASE j <= Len(ls)
    <3>1. j \in 1 .. Len(ls) /\ all[j] = ls[j]
      BY <1>3, <1>4, <2>1
    <3> QED
      BY <3>1 DEF MayGrow
  <2>2. CASE ~(j <= Len(ls))
    <3> DEFINE i == j - Len(ls)
    <3>1. i \in 1 .. Len(chunk) /\ all[j] = chunk[i] /\ f + Len(ls) + i = f + j
      BY <1>1, <1>3, <1>4, <2>2
    <3>2. chunk[i] = Paid(trades[f + Len(ls) + i])
      <4> HIDE DEF i
      <4> QED
        BY <3>1 DEF MayGrow
    <3> QED
      BY <3>1, <3>2
  <2> QED
    BY <2>1, <2>2
<1>8. all # <<>> /\ f + Len(all) <= Len(trades)
  <2>1. Len(all) > 0 /\ f + Len(all) = f + Len(ls) + Len(chunk)
    BY <1>1, <1>3, <1>4
  <2> QED
    BY <1>3, <1>4, <2>1
<1>9. new \in Canister
  BY <1>1, <1>3, <1>6 DEF Canister
<1>10. CanisterOK(new)
  BY <1>5, <1>7, <1>8 DEF CanisterOK
<1> QED
  BY <1>2, <1>3, <1>9, <1>10

LEMMA FlushLogs ==
  ASSUME LogsInv, NEW n \in 1 .. Smaller(Capacity, Len(storage_buffer)), FlushChunk(n)
  PROVE  LogsInv'
<1> DEFINE old == storage_canisters
           full == old = <<>> \/ Len(Last(old).logs) + n > Capacity
           scs == IF full THEN Append(old, NewCanister) ELSE old
           chunk == SubSeq(storage_buffer, 1, n)
           L == Len(scs)
           sc == scs[L]
           new == Grown(sc, chunk)
<1>1. /\ in_flush = 0 /\ in_flush' = n
      /\ storage_canisters' = [scs EXCEPT ![L] = new]
      /\ UNCHANGED <<trades, trade_logs, storage_buffer, now>>
  BY DEF FlushChunk, Grown
<1>2. /\ Len(trades) \in Nat /\ trade_logs \in Seq(TradeLog) /\ storage_buffer \in Seq(TradeLog)
      /\ Moved \in Nat /\ Taken \in Nat /\ trades \in Seq(LogWith(NotPaid))
      /\ Len(trades) <= MaxTrades
  BY DEF LogsInv, MadeOK, PlacesOK, Moved, Taken
<1>3. n \in Nat /\ n >= 1 /\ n <= Len(storage_buffer)
  <2>1. Capacity \in Nat /\ Len(storage_buffer) \in Nat
    BY <1>2, TradeViewsAssumption
  <2> QED
    BY <2>1 DEF Smaller
<1>4. /\ chunk \in Seq(TradeLog) /\ Len(chunk) = n /\ chunk # <<>>
      /\ \A j \in 1 .. n : chunk[j] = storage_buffer[j]
  BY <1>2, <1>3
<1>5. \A j \in 1 .. n : chunk[j] = Paid(trades[Taken + j])
  BY <1>2, <1>3, <1>4 DEF LogsInv, PlacesOK
<1>6. Taken + n <= Len(trades)
  BY <1>2, <1>3 DEF Taken
<1>7. /\ old \in Seq(Canister) /\ EndOf(old, Len(old)) = Taken
      /\ \A c \in 1 .. Len(old) : CanisterOK(old[c]) /\ old[c].first_log_id = EndOf(old, c - 1)
  BY <1>1, <1>2 DEF LogsInv, StoredOK, InRow
<1> HIDE DEF chunk, old
<1>8. ASSUME full
      PROVE  /\ NewCanister \in Canister /\ NewCanister.first_log_id = Taken /\ NewCanister.logs = <<>>
             /\ NewCanister.index = [k \in Position |-> IdsOf(<<>>, k)]
  <2> DEFINE f == Head(storage_buffer).id
             index == [k \in Position |-> <<>>]
  <2>1. NewCanister = [first_log_id |-> f, logs |-> <<>>, index |-> index]
    BY DEF NewCanister
  <2>2. f = Taken
    <3>1. 1 \in 1 .. Len(storage_buffer) /\ Taken + 1 \in 1 .. Len(trades)
      BY <1>2, <1>3, <1>6
    <3>2. Head(storage_buffer) = Paid(trades[Taken + 1])
      BY <1>2, <3>1 DEF LogsInv, PlacesOK
    <3>3. trades[Taken + 1] \in LogWith(NotPaid) /\ trades[Taken + 1].id = (Taken + 1) - 1
      BY <1>2, <3>1 DEF LogsInv, MadeOK
    <3>4. (Taken + 1) - 1 = Taken /\ Taken < MaxTrades
      BY <1>2, <1>3, <1>6, TradeViewsAssumption
    <3> QED
      BY <3>2, <3>3, <3>4, PaidLog
  <2>3. ASSUME NEW k PROVE IdsOf(<<>>, k) = <<>>
    <3> DEFINE e == <<>>
    <3>1. e \in Seq(TradeLog) /\ Len(e) = 0
      OBVIOUS
    <3>2. At(e, 0, {i \in DOMAIN e : k = None \/ k \in Keys(e[i])}) = <<>>
      <4> HIDE DEF e
      <4> QED
        BY <3>1, AtNone, Zenon
    <3>3. WithKey(e, Len(e), k) = <<>>
      BY <3>1, <3>2 DEF WithKey
    <3> HIDE DEF e
    <3>4. IdsIn(IdsOf(e, k), WithKey(e, Len(e), k))
      BY <3>1, IdsOfIs
    <3>5. IdsOf(e, k) = <<>>
      BY <3>3, <3>4 DEF IdsIn
    <3> QED
      BY <3>5 DEF e
  <2>4. index = [k \in Position |-> IdsOf(<<>>, k)]
    BY <2>3
  <2>5. index \in [Position -> Seq(Nat)] /\ <<>> \in Seq(TradeLog)
    OBVIOUS
  <2> HIDE DEF f, index
  <2> QED
    BY <1>2, <2>1, <2>2, <2>4, <2>5 DEF Canister
<1>9. /\ scs \in Seq(Canister) /\ L \in Nat /\ L >= 1 /\ sc \in Canister
      /\ sc.first_log_id = EndOf(scs, L - 1) /\ sc.first_log_id + Len(sc.logs) = Taken
      /\ \A c \in 1 .. L - 1 : CanisterOK(scs[c]) /\ scs[c].first_log_id = EndOf(scs, c - 1)
      /\ \A j \in 1 .. Len(sc.logs) : sc.logs[j] = Paid(trades[sc.first_log_id + j])
      /\ sc.index = [k \in Position |-> IdsOf(sc.logs, k)]
  <2>1. CASE full
    <3> DEFINE nc == NewCanister
    <3>1. /\ scs = Append(old, nc) /\ nc \in Canister /\ nc.first_log_id = Taken /\ nc.logs = <<>>
          /\ nc.index = [k \in Position |-> IdsOf(<<>>, k)]
      BY <1>8, <2>1
    <3> HIDE DEF scs, full, nc
    <3>2. /\ scs \in Seq(Canister) /\ Len(scs) = Len(old) + 1 /\ Len(old) \in Nat
          /\ scs[Len(old) + 1] = nc
          /\ \A c \in 1 .. Len(old) : scs[c] = old[c]
      BY <1>7, <3>1
    <3>3. ASSUME NEW c \in 0 .. Len(old) PROVE EndOf(scs, c) = EndOf(old, c)
      BY <3>2 DEF EndOf
    <3>4. L - 1 = Len(old) /\ sc = nc /\ L \in Nat /\ L >= 1
      BY <3>2
    <3>5. \A c \in 1 .. L - 1 : CanisterOK(scs[c]) /\ scs[c].first_log_id = EndOf(scs, c - 1)
      <4> SUFFICES ASSUME NEW c \in 1 .. Len(old)
                   PROVE  CanisterOK(scs[c]) /\ scs[c].first_log_id = EndOf(scs, c - 1)
        BY <3>4
      <4>1. c - 1 \in 0 .. Len(old)
        BY <3>2
      <4> QED
        BY <1>7, <3>2, <3>3, <4>1
    <3>6. EndOf(scs, L - 1) = Taken
      BY <1>7, <3>2, <3>3, <3>4
    <3>7. Len(sc.logs) = 0 /\ sc.first_log_id + Len(sc.logs) = Taken
      BY <1>2, <3>1, <3>4
    <3> HIDE DEF L, sc
    <3> QED
      BY <3>1, <3>2, <3>4, <3>5, <3>6, <3>7
  <2>2. CASE ~full
    <3>1. scs = old /\ Len(old) \in Nat /\ Len(old) >= 1
      BY <1>7, <2>2
    <3> HIDE DEF scs, full
    <3>2. sc \in Canister /\ CanisterOK(sc) /\ sc.first_log_id = EndOf(scs, L - 1)
      BY <1>7, <3>1
    <3>3. sc.first_log_id + Len(sc.logs) = Taken
      BY <1>7, <3>1 DEF EndOf
    <3>4. /\ \A j \in 1 .. Len(sc.logs) : sc.logs[j] = Paid(trades[sc.first_log_id + j])
          /\ sc.index = [k \in Position |-> IdsOf(sc.logs, k)]
      BY <3>2 DEF CanisterOK
    <3>5. \A c \in 1 .. L - 1 : CanisterOK(scs[c]) /\ scs[c].first_log_id = EndOf(scs, c - 1)
      BY <1>7, <3>1
    <3> QED
      BY <1>7, <3>1, <3>2, <3>3, <3>4, <3>5
  <2> QED
    BY <2>1, <2>2
<1> HIDE DEF scs, full, L, sc
<1>10. MayGrow(sc, chunk)
  BY <1>4, <1>5, <1>6, <1>9 DEF MayGrow
<1>11. /\ new \in Canister /\ CanisterOK(new) /\ new.first_log_id = sc.first_log_id
       /\ Len(new.logs) = Len(sc.logs) + n
  BY <1>4, <1>10, CanisterGrows
<1> HIDE DEF new
<1>12. /\ storage_canisters' \in Seq(Canister) /\ Len(storage_canisters') = L
       /\ storage_canisters'[L] = new
       /\ \A c \in 1 .. L - 1 : storage_canisters'[c] = scs[c]
  BY <1>1, <1>9, <1>11 DEF L
<1> DEFINE got == storage_canisters'
<1> HIDE DEF got
<1>13. \A c \in 0 .. L - 1 : EndOf(got, c) = EndOf(scs, c)
  BY <1>9, <1>12 DEF EndOf, got
<1>14. EndOf(got, L) = Taken + n
  <2>1. got[L] = new /\ L # 0
    BY <1>9, <1>12 DEF got
  <2>2. sc.first_log_id \in Nat /\ Len(sc.logs) \in Nat
    BY <1>9 DEF Canister
  <2> QED
    BY <1>3, <1>9, <1>11, <2>1, <2>2 DEF EndOf
<1>15. \A c \in 1 .. L : CanisterOK(got[c]) /\ got[c].first_log_id = EndOf(got, c - 1)
  <2> SUFFICES ASSUME NEW c \in 1 .. L
               PROVE  CanisterOK(got[c]) /\ got[c].first_log_id = EndOf(got, c - 1)
    OBVIOUS
  <2>1. c - 1 \in 0 .. L - 1 /\ (c = L \/ c \in 1 .. L - 1)
    BY <1>9
  <2> QED
    BY <1>9, <1>11, <1>12, <1>13, <2>1 DEF got
<1>16. Moved' = Moved /\ Taken' = Taken
  BY <1>1 DEF Moved, Taken
<1>17. \A x : CanisterOK(x)' <=> CanisterOK(x)
  BY <1>1 DEF CanisterOK, Paid, IdsOf
<1>18. InRow(got, Taken + n)
  BY <1>12, <1>14, <1>15 DEF InRow, got
<1>19. StoredOK'
  <2>1. /\ got = storage_canisters' /\ (Taken + in_flush)' = Taken + n
    BY <1>1, <1>16 DEF got
  <2> QED
    BY <1>1, <1>18, <2>1 DEF StoredOK, InRow, CanisterOK, EndOf, Paid, IdsOf
<1>20. MadeOK'
  BY <1>1 DEF LogsInv, MadeOK
<1>21. PlacesOK'
  BY <1>1, <1>2, <1>3, <1>16 DEF LogsInv, PlacesOK, Paid
<1> QED
  BY <1>19, <1>20, <1>21 DEF LogsInv

(* Every log is where LogsInv says, in every step.                         *)
LEMMA NextLogs == LogsInv /\ [ViewsNext]_viewsVars => LogsInv'
<1> SUFFICES ASSUME LogsInv, [ViewsNext]_viewsVars PROVE LogsInv'
  OBVIOUS
<1>1. now \in Nat
  BY DEF LogsInv, MadeOK
<1>2. ASSUME NEW a \in Position, NEW b \in Position, NEW r \in Rate, NEW t \in Tokens,
             Trade(a, b, r, t)
      PROVE  LogsInv'
  BY <1>2, TradeLogs
<1>3. CASE Tick
  BY <1>1, <1>3, QuietLogs DEF Tick
<1>4. CASE MoveToBuffer
  BY <1>4, MoveLogs
<1>5. ASSUME NEW n \in 1 .. Smaller(Capacity, Len(storage_buffer)), FlushChunk(n)
      PROVE  LogsInv'
  BY <1>5, FlushLogs
<1>6. CASE FlushReturns
  BY <1>6, FlushReturnsLogs
<1>7. CASE UNCHANGED viewsVars
  BY <1>1, <1>7, QuietLogs DEF viewsVars
<1> QED
  BY <1>2, <1>3, <1>4, <1>5, <1>6, <1>7 DEF ViewsNext

(* Wherever a trade is, it is there as it was made and paid out, in its    *)
(* order; what the canisters have and what is in flight is all that was    *)
(* moved out of the buffer.                                                *)
THEOREM LogsInvariant == ViewsSpec => []LogsInv
  BY InitLogs, NextLogs, PTL DEF ViewsSpec

----------------------------------------------------------------------------
(* The latest trades *)

(* The first places of a sequence, which their number tells.               *)
FirstOnes(S, n) == S \subseteq 1 .. n /\ \A i \in S, j \in 1 .. n : j <= i => j \in S

LEMMA PrefixCount ==
  ASSUME NEW n \in Nat, NEW S, FirstOnes(S, n)
  PROVE  Cardinality(S) \in 0 .. n /\ \A i \in 1 .. n : i \in S <=> i <= Cardinality(S)
<1> DEFINE T == {m \in Nat : m + 1 \notin S}
<1>1. T \subseteq Nat /\ T # {}
  <2>1. n \in T
    BY DEF FirstOnes
  <2> QED
    BY <2>1
<1>2. PICK m \in T : \A k \in T : m <= k
  <2> HIDE DEF T
  <2> QED
    BY <1>1, LeastNat
<1>3. m \in Nat /\ m + 1 \notin S /\ \A k \in Nat : k < m => k + 1 \in S
  BY <1>2
<1> HIDE DEF T
<1>4. S = 1 .. m
  <2>1. ASSUME NEW i \in S PROVE i \in 1 .. m
    <3>1. i \in 1 .. n
      BY DEF FirstOnes
    <3>2. CASE m + 1 <= i
      <4>1. m + 1 \in 1 .. n
        BY <1>3, <3>1, <3>2
      <4> QED
        BY <1>3, <3>2, <4>1 DEF FirstOnes
    <3> QED
      BY <1>3, <3>1, <3>2
  <2>2. ASSUME NEW i \in 1 .. m PROVE i \in S
    <3>1. i - 1 \in Nat /\ i - 1 < m /\ (i - 1) + 1 = i
      BY <1>3
    <3> QED
      BY <1>3, <3>1
  <2> QED
    BY <2>1, <2>2
<1>5. Cardinality(S) = m
  BY <1>3, <1>4, FS_Interval
<1>6. m <= n
  <2>1. CASE m = 0
    BY <2>1
  <2>2. CASE m # 0
    <3>1. m \in S
      BY <1>3, <1>4, <2>2
    <3> QED
      BY <3>1 DEF FirstOnes
  <2> QED
    BY <2>1, <2>2
<1> QED
  BY <1>3, <1>4, <1>5, <1>6

(* Logs numbered from an id on, and how many of them are before an id.     *)
Numbered(ls, f) == ls \in Seq(TradeLog) /\ f \in Nat /\ \A i \in 1 .. Len(ls) : ls[i].id = f + i - 1
Till(b, f, n) == Smaller(Larger(0, b - f), n)

LEMMA TillIs ==
  ASSUME NEW b \in Nat, NEW f \in Nat, NEW n \in Nat
  PROVE  /\ Till(b, f, n) \in 0 .. n
         /\ \A i \in 1 .. n : i <= Till(b, f, n) <=> f + i - 1 < b
         /\ \A m \in Nat : /\ Till(b, f, n + m) = Till(b, f, n) + Till(b, f + n, m)
                           /\ Till(b, f + n, m) = 0 \/ Till(b, f, n) = n
<1>1. CASE b <= f
  BY <1>1 DEF Till, Smaller, Larger
<1>2. CASE b > f /\ b <= f + n
  BY <1>2 DEF Till, Smaller, Larger
<1>3. CASE b > f + n
  <2>1. Till(b, f, n) = n
    BY <1>3 DEF Till, Smaller, Larger
  <2>2. ASSUME NEW m \in Nat PROVE Till(b, f, n + m) = n + Till(b, f + n, m)
    BY <1>3 DEF Till, Smaller, Larger
  <2> QED
    BY <1>3, <2>1, <2>2
<1> QED
  BY <1>1, <1>2, <1>3

LEMMA CountTill ==
  ASSUME NEW ls, NEW f, Numbered(ls, f), NEW b \in Nat
  PROVE  CountBefore(ls, b) = Till(b, f, Len(ls))
<1> DEFINE n == Len(ls)
           t == Till(b, f, n)
           S == {i \in DOMAIN ls : ls[i].id < b}
<1>1. n \in Nat /\ f \in Nat /\ DOMAIN ls = 1 .. n /\ \A i \in 1 .. n : ls[i].id = f + i - 1
  BY DEF Numbered
<1>2. b # None
  BY TradeViewsAssumption
<1>3. t \in 0 .. n /\ \A i \in 1 .. n : i <= t <=> f + i - 1 < b
  BY <1>1, TillIs
<1> HIDE DEF t
<1>4. S = 1 .. t
  BY <1>1, <1>3
<1>5. Cardinality(1 .. t) = t
  BY <1>3, FS_Interval
<1> QED
  BY <1>2, <1>4, <1>5 DEF CountBefore, t

(* The last n of the first c of a sequence.                                *)
IsLast(X, t, s, c, n) ==
  /\ s \in Seq(X) /\ t \in Seq(X) /\ c \in 0 .. Len(s) /\ n \in Nat
  /\ Len(t) = Smaller(n, c)
  /\ \A i \in 1 .. Len(t) : t[i] = s[c - Len(t) + i]

LEMMA LastOfFirst ==
  ASSUME NEW X, NEW s \in Seq(X), NEW c \in 0 .. Len(s), NEW n \in Nat
  PROVE  IsLast(X, LastOf(SubSeq(s, 1, c), n), s, c, n)
<1> DEFINE u == SubSeq(s, 1, c)
           t == LastOf(u, n)
<1>1. u \in Seq(X) /\ Len(u) = c /\ c \in Nat /\ \A i \in 1 .. c : u[i] = s[i]
  OBVIOUS
<1> HIDE DEF u
<1>2. t \in Seq(X) /\ Len(t) = Smaller(n, c) /\ \A i \in 1 .. Len(t) : t[i] = u[c - Len(t) + i]
  <2>0. u \in Seq(X)
    BY <1>1
  <2>1. /\ t \in Seq(X) /\ Len(t) = Smaller(n, Len(u))
        /\ \A i \in 1 .. Len(t) : t[i] = u[Len(u) - Len(t) + i]
    BY <2>0, LastOfIs
  <2> HIDE DEF t
  <2> QED
    BY <1>1, <2>1
<1> HIDE DEF t
<1>3. ASSUME NEW i \in 1 .. Len(t) PROVE t[i] = s[c - Len(t) + i]
  <2>1. c - Len(t) + i \in 1 .. c
    BY <1>1, <1>2 DEF Smaller
  <2> QED
    BY <1>1, <1>2, <2>1
<1>4. IsLast(X, t, s, c, n)
  BY <1>2, <1>3 DEF IsLast
<1> QED
  BY <1>4 DEF t, u

LEMMA LastIsOne ==
  ASSUME NEW X, NEW t, NEW v, NEW s, NEW c, NEW n, IsLast(X, t, s, c, n), IsLast(X, v, s, c, n)
  PROVE  t = v
<1>1. t \in Seq(X) /\ v \in Seq(X) /\ Len(t) = Len(v) /\ \A i \in 1 .. Len(t) : t[i] = v[i]
  BY DEF IsLast
<1> QED
  BY <1>1, SeqEqual

(* The last of two sequences, of which the second is longer.               *)
LEMMA LastInSecond ==
  ASSUME NEW X, NEW u \in Seq(X), NEW v \in Seq(X), NEW c, NEW n, IsLast(X, v, u, c, n),
         n <= c, NEW s \in Seq(X)
  PROVE  IsLast(X, v, s \o u, Len(s) + c, n)
<1> DEFINE w == s \o u
<1>1. /\ w \in Seq(X) /\ Len(w) = Len(s) + Len(u) /\ Len(s) \in Nat /\ Len(u) \in Nat
      /\ \A i \in 1 .. Len(u) : w[Len(s) + i] = u[i]
  OBVIOUS
<1>2. /\ c \in Nat /\ n \in Nat /\ c <= Len(u) /\ Len(v) = n /\ n = Smaller(n, Len(s) + c)
      /\ \A i \in 1 .. Len(v) : v[i] = u[c - n + i]
  BY <1>1 DEF IsLast, Smaller
<1> HIDE DEF w
<1>3. ASSUME NEW i \in 1 .. Len(v) PROVE v[i] = w[Len(s) + c - Len(v) + i]
  <2>1. c - n + i \in 1 .. Len(u) /\ Len(s) + (c - n + i) = Len(s) + c - Len(v) + i
    BY <1>1, <1>2
  <2> QED
    BY <1>1, <1>2, <2>1
<1>4. IsLast(X, v, w, Len(s) + c, n)
  BY <1>1, <1>2, <1>3 DEF IsLast
<1> QED
  BY <1>4 DEF w

Continued(X, t, s, c, v, u, d, n) ==
  /\ IsLast(X, t, s, c, n) /\ IsLast(X, v, u, d, n + d) /\ 0 < n
  /\ d = 0 \/ c = Len(s)

LEMMA LastInBoth ==
  ASSUME NEW X, NEW s, NEW u, NEW t, NEW v, NEW c, NEW d, NEW n,
         Continued(X, t, s, c, v, u, d, n)
  PROVE  IsLast(X, t \o v, s \o u, c + d, n + d)
<1> DEFINE w == s \o u
           x == t \o v
           m == n + d
<1>0. /\ s \in Seq(X) /\ u \in Seq(X) /\ t \in Seq(X) /\ v \in Seq(X)
      /\ c \in 0 .. Len(s) /\ d \in 0 .. Len(u) /\ n \in Nat /\ n + d \in Nat /\ 0 < n
      /\ Len(t) = Smaller(n, c) /\ Len(v) = Smaller(n + d, d)
      /\ \A i \in 1 .. Len(t) : t[i] = s[c - Len(t) + i]
      /\ \A i \in 1 .. Len(v) : v[i] = u[d - Len(v) + i]
      /\ d = 0 \/ c = Len(s)
  BY DEF Continued, IsLast
<1>1. /\ Len(s) \in Nat /\ Len(u) \in Nat /\ t \in Seq(X) /\ v \in Seq(X)
      /\ c \in Nat /\ d \in Nat /\ n \in Nat /\ m \in Nat /\ c <= Len(s) /\ d <= Len(u)
      /\ Len(v) = d /\ Len(t) = Smaller(n, c) /\ Len(t) <= c /\ Len(t) \in Nat
      /\ \A i \in 1 .. Len(t) : t[i] = s[c - Len(t) + i]
      /\ \A i \in 1 .. Len(v) : v[i] = u[i]
  BY <1>0 DEF Smaller
<1>2. /\ w \in Seq(X) /\ Len(w) = Len(s) + Len(u)
      /\ \A i \in 1 .. Len(s) : w[i] = s[i]
      /\ \A i \in 1 .. Len(u) : w[Len(s) + i] = u[i]
  BY <1>0
<1>3. /\ x \in Seq(X) /\ Len(x) = Len(t) + Len(v)
      /\ \A i \in 1 .. Len(t) : x[i] = t[i]
      /\ \A i \in 1 .. Len(v) : x[Len(t) + i] = v[i]
  <2>1. /\ x \in Seq(X) /\ Len(x) = Len(t) + Len(v)
        /\ \A i \in 1 .. Len(t) + Len(v) : x[i] = IF i <= Len(t) THEN t[i] ELSE v[i - Len(t)]
    <3>1. t \in Seq(X) /\ v \in Seq(X)
      BY <1>1
    <3> HIDE DEF w, x
    <3> QED
      BY <3>1, ConcatProperties DEF x
  <2> HIDE DEF x
  <2>2. ASSUME NEW i \in 1 .. Len(v) PROVE x[Len(t) + i] = v[i]
    <3>1. /\ Len(t) + i \in 1 .. Len(t) + Len(v) /\ ~(Len(t) + i <= Len(t))
          /\ (Len(t) + i) - Len(t) = i
      BY <1>1
    <3> QED
      BY <2>1, <3>1
  <2>3. ASSUME NEW i \in 1 .. Len(t) PROVE x[i] = t[i]
    <3>1. i \in 1 .. Len(t) + Len(v) /\ i <= Len(t)
      BY <1>1
    <3> QED
      BY <2>1, <3>1
  <2> QED
    BY <2>1, <2>2, <2>3
<1> HIDE DEF w, x
<1> DEFINE a == Len(t)
           L == Len(s)
           z == Len(x)
<1>a. /\ a \in Nat /\ a <= c /\ z = a + d /\ (d = 0 \/ c = L) /\ L \in Nat /\ n + d = m
      /\ c \in Nat /\ d \in Nat /\ n \in Nat /\ m \in Nat /\ a = Smaller(n, c)
  BY <1>0, <1>1, <1>3
<1> HIDE DEF a, L, z, m
<1>4. z = Smaller(m, c + d)
  BY <1>a DEF Smaller
<1>5. ASSUME NEW i \in 1 .. Len(x) PROVE x[i] = w[(c + d) - Len(x) + i]
  <2>0. i \in 1 .. z
    BY DEF z
  <2>1. CASE i <= a
    <3>1. /\ i \in 1 .. a /\ (c + d) - z + i = c - a + i
      BY <1>a, <2>0, <2>1
    <3>2. c - a + i \in 1 .. c
      BY <1>a, <2>0, <2>1
    <3>3. c - a + i \in 1 .. Len(s)
      BY <1>1, <3>2
    <3>4. i \in 1 .. Len(t) /\ c - Len(t) + i = c - a + i /\ (c + d) - Len(x) + i = (c + d) - z + i
      BY <3>1 DEF a, z
    <3>5. x[i] = t[i]
      BY <1>3, <3>4, Zenon
    <3>6. t[i] = s[c - a + i]
      BY <1>1, <3>4
    <3>7. w[c - a + i] = s[c - a + i]
      BY <1>2, <3>3, Zenon
    <3> QED
      BY <3>1, <3>4, <3>5, <3>6, <3>7
  <2>2. CASE ~(i <= a)
    <3> DEFINE j == i - a
    <3>1. j \in 1 .. d /\ a + j = i
      BY <1>a, <2>0, <2>2
    <3>2. (c + d) - z + i = L + j
      <4>1. c = L
        BY <1>a, <3>1
      <4>2. i \in Int /\ j = i - a
        BY <1>a, <2>0
      <4>3. (c + d) - z + i = c + j
        BY <1>a, <4>2
      <4> QED
        BY <4>1, <4>3
    <3> HIDE DEF j
    <3>4. j \in 1 .. Len(v) /\ j \in 1 .. Len(u)
      BY <1>1, <3>1
    <3>3. x[i] = v[j] /\ v[j] = u[j] /\ w[Len(s) + j] = u[j]
      BY <1>1, <1>2, <1>3, <3>1, <3>4 DEF a
    <3> QED
      BY <3>2, <3>3 DEF L, z
  <2> QED
    BY <2>1, <2>2
<1>6. IsLast(X, x, w, c + d, m)
  <2>1. c + d \in 0 .. Len(w)
    <3>1. /\ Len(w) = Len(s) + Len(u) /\ Len(s) \in Nat /\ Len(u) \in Nat
          /\ c <= Len(s) /\ d <= Len(u) /\ c \in Nat /\ d \in Nat
      BY <1>1, <1>2
    <3> QED
      BY <3>1
  <2>2. Len(x) = Smaller(m, c + d)
    BY <1>4 DEF z
  <2>3. w \in Seq(X) /\ x \in Seq(X) /\ m \in Nat
    BY <1>a, <1>2, <1>3
  <2>4. \A i \in 1 .. Len(x) : x[i] = w[(c + d) - Len(x) + i]
    BY <1>5
  <2> QED
    BY <2>1, <2>2, <2>3, <2>4 DEF IsLast
<1> QED
  BY <1>6 DEF w, x, m

(* With every place, they are the first.                                   *)
AllPlaces(ls, S) == \A i \in 1 .. Len(ls) : i \in S

LEMMA AtAll ==
  ASSUME NEW X, NEW ls \in Seq(X), NEW S, AllPlaces(ls, S), NEW n \in 0 .. Len(ls)
  PROVE  At(ls, n, S) = SubSeq(ls, 1, n)
<1> DEFINE a(i) == At(ls, i, S)
           T == {i \in 0 .. n : a(i) = SubSeq(ls, 1, i)}
<1>1. /\ a(0) = <<>> /\ Len(ls) \in Nat /\ n \in Nat /\ n <= Len(ls)
      /\ \A i \in 1 .. Len(ls) : a(i) = AtStep(ls, S, i, a(i - 1))
  <2>1. a(0) = <<>> /\ \A i \in 1 .. Len(ls) : a(i) = AtStep(ls, S, i, a(i - 1))
    BY AtGoes, Zenon
  <2> HIDE DEF a
  <2> QED
    BY <2>1
<1> HIDE DEF a
<1>2. 0 \in T
  <2>1. SubSeq(ls, 1, 0) = <<>>
    OBVIOUS
  <2>2. a(0) = SubSeq(ls, 1, 0)
    BY <1>1, <2>1, Zenon
  <2>3. 0 \in 0 .. n
    BY <1>1
  <2> QED
    BY <2>2, <2>3, Zenon
<1>3. ASSUME NEW i \in 0 .. n - 1, a(i) = SubSeq(ls, 1, i) PROVE a(i + 1) = SubSeq(ls, 1, i + 1)
  <2>1. /\ i + 1 \in 1 .. Len(ls) /\ (i + 1) - 1 = i /\ i \in Nat
    BY <1>1
  <2>2. i + 1 \in S
    BY <2>1 DEF AllPlaces
  <2>3. a(i + 1) = Append(a(i), ls[i + 1])
    BY <1>1, <2>1, <2>2 DEF AtStep
  <2> DEFINE u == SubSeq(ls, 1, i)
             v == SubSeq(ls, 1, i + 1)
             w == Append(u, ls[i + 1])
  <2>4. /\ u \in Seq(X) /\ Len(u) = i /\ \A j \in 1 .. i : u[j] = ls[j]
        /\ v \in Seq(X) /\ Len(v) = i + 1 /\ \A j \in 1 .. i + 1 : v[j] = ls[j]
        /\ ls[i + 1] \in X
    BY <1>1, <2>1
  <2> HIDE DEF u, v
  <2>5. w \in Seq(X) /\ Len(w) = i + 1 /\ \A j \in 1 .. i + 1 : w[j] = ls[j]
    BY <2>1, <2>4
  <2> HIDE DEF w
  <2>6. w = v
    BY <2>4, <2>5, SeqEqual
  <2> QED
    BY <1>3, <2>3, <2>6 DEF u, v, w
<1>4. \A i \in 0 .. n - 1 : i \in T => i + 1 \in T
  <2>1. \A i \in 0 .. n - 1 : i + 1 \in 0 .. n
    BY <1>1
  <2> QED
    BY <1>3, <2>1
<1>5. n \in T
  <2> HIDE DEF T
  <2>1. \A i \in 0 .. n : i \in T
    BY <1>1, <1>2, <1>4, StepByStep
  <2> QED
    BY <1>1, <2>1
<1> QED
  BY <1>5 DEF a

LEMMA EveryKey ==
  ASSUME NEW ls \in Seq(TradeLog), NEW n \in 0 .. Len(ls)
  PROVE  WithKey(ls, n, None) = SubSeq(ls, 1, n)
<1> DEFINE S == {i \in DOMAIN ls : None = None \/ None \in Keys(ls[i])}
<1>1. AllPlaces(ls, S)
  BY DEF AllPlaces
<1>2. WithKey(ls, n, None) = At(ls, n, S)
  BY DEF WithKey
<1> HIDE DEF S
<1> QED
  BY <1>1, <1>2, AtAll

(* Where the logs of LogsInv are numbered. *)
LEMMA QueueNumbered ==
  ASSUME LogsInv
  PROVE  Numbered(trade_logs, Moved) /\ Numbered(storage_buffer, Taken)
         /\ Numbered(storage_buffer \o trade_logs, Taken)
         /\ Moved = Taken + Len(storage_buffer)
<1>1. /\ trades \in Seq(LogWith(NotPaid)) /\ Len(trades) \in Nat /\ Len(trades) <= MaxTrades
      /\ trade_logs \in Seq(TradeLog) /\ storage_buffer \in Seq(TradeLog)
      /\ Taken \in Nat /\ MaxTrades \in Nat
  BY TradeViewsAssumption DEF LogsInv, MadeOK, PlacesOK
<1>2. Moved = Taken + Len(storage_buffer) /\ Moved \in Nat /\ Moved + Len(trade_logs) = Len(trades)
  BY <1>1 DEF Moved, Taken
<1>3. Numbered(trade_logs, Moved)
  <2>1. ASSUME NEW i \in 1 .. Len(trade_logs) PROVE trade_logs[i].id = Moved + i - 1
    <3>1. Moved + i \in 1 .. Len(trades)
      BY <1>1, <1>2
    <3>2. trade_logs[i] = trades[Moved + i] /\ trades[Moved + i].id = (Moved + i) - 1
      BY <3>1 DEF LogsInv, MadeOK, PlacesOK
    <3> QED
      BY <1>1, <1>2, <3>2
  <2> QED
    BY <1>1, <1>2, <2>1 DEF Numbered
<1>4. Numbered(storage_buffer, Taken)
  <2>1. ASSUME NEW i \in 1 .. Len(storage_buffer) PROVE storage_buffer[i].id = Taken + i - 1
    <3>1. Taken + i \in 1 .. Len(trades)
      BY <1>1, <1>2
    <3>2. /\ storage_buffer[i] = Paid(trades[Taken + i]) /\ trades[Taken + i].id = (Taken + i) - 1
          /\ trades[Taken + i] \in LogWith(NotPaid)
      BY <1>1, <3>1 DEF LogsInv, MadeOK, PlacesOK
    <3>3. (Taken + i) - 1 < MaxTrades
      BY <1>1, <3>1
    <3>4. Paid(trades[Taken + i]).id = trades[Taken + i].id
      BY <3>2, <3>3, PaidLog
    <3> QED
      BY <1>1, <3>2, <3>4
  <2> QED
    BY <1>1, <2>1 DEF Numbered
<1>5. Numbered(storage_buffer \o trade_logs, Taken)
  <2> DEFINE b == storage_buffer
             q == trade_logs
             w == b \o q
  <2>1. /\ b \in Seq(TradeLog) /\ q \in Seq(TradeLog) /\ Len(b) \in Nat /\ Len(q) \in Nat
        /\ \A i \in 1 .. Len(b) : b[i].id = Taken + i - 1
        /\ \A i \in 1 .. Len(q) : q[i].id = Moved + i - 1
    BY <1>1, <1>3, <1>4 DEF Numbered
  <2> HIDE DEF b, q
  <2>2. /\ w \in Seq(TradeLog) /\ Len(w) = Len(b) + Len(q)
        /\ \A i \in 1 .. Len(b) : w[i] = b[i]
        /\ \A i \in 1 .. Len(q) : w[Len(b) + i] = q[i]
    BY <2>1
  <2> HIDE DEF w
  <2>3. ASSUME NEW i \in 1 .. Len(w) PROVE w[i].id = Taken + i - 1
    <3>1. CASE i <= Len(b)
      BY <2>1, <2>2, <3>1
    <3>2. CASE ~(i <= Len(b))
      <4>1. i - Len(b) \in 1 .. Len(q) /\ Len(b) + (i - Len(b)) = i
        BY <2>1, <2>2, <3>2
      <4>2. w[i].id = Moved + (i - Len(b)) - 1
        BY <2>1, <2>2, <4>1
      <4> QED
        BY <1>1, <1>2, <2>1, <4>1, <4>2 DEF b
    <3> QED
      BY <3>1, <3>2
  <2>4. Numbered(w, Taken)
    BY <1>1, <2>2, <2>3 DEF Numbered
  <2> QED
    BY <2>4 DEF w, b, q
<1> QED
  BY <1>2, <1>3, <1>4, <1>5

ReadsLatest(ls, f, b) == Numbered(ls, f) /\ b \in {None} \cup Nat
(* How many of the logs are before. *)
Before(ls, f, b) == IF b = None THEN Len(ls) ELSE Till(b, f, Len(ls))

LEMMA BeforeIs ==
  ASSUME NEW ls, NEW f, NEW b, ReadsLatest(ls, f, b)
  PROVE  CountBefore(ls, b) = Before(ls, f, b) /\ Before(ls, f, b) \in 0 .. Len(ls)
<1>1. Len(ls) \in Nat /\ f \in Nat /\ Numbered(ls, f)
  BY DEF ReadsLatest, Numbered
<1>2. CASE b = None
  BY <1>1, <1>2 DEF CountBefore, Before
<1>3. CASE b # None
  <2>1. b \in Nat
    BY <1>3 DEF ReadsLatest
  <2> QED
    BY <1>1, <1>3, <2>1, CountTill, TillIs DEF Before
<1> QED
  BY <1>2, <1>3

(* A reader of the trade contract. *)
LEMMA LatestHere ==
  ASSUME LogsInv, NEW b \in {None} \cup Nat
  PROVE  LET here == Here(storage_buffer \o trade_logs, b)
         IN view_latest_trades(b) =
              [trades_data |-> LastOf(here, ChunkSize), is_last_chunk |-> Len(here) <= ChunkSize]
<1> DEFINE s == storage_buffer
           q == trade_logs
           w == s \o q
           C == ChunkSize
           c == Before(s, Taken, b)
           d == Before(q, Moved, b)
           e == Before(w, Taken, b)
           queued == LastOf(SubSeq(q, 1, d), C)
           room == C - Len(queued)
           stored == view_storage_logs_(b, None, room)
           data == IF Len(queued) < C THEN stored \o queued ELSE queued
           first == IF s # <<>> THEN Head(s).id ELSE Head(q).id
           here == SubSeq(w, 1, e)
<1>1. /\ Numbered(q, Moved) /\ Numbered(s, Taken) /\ Numbered(w, Taken)
      /\ Moved = Taken + Len(s) /\ Taken \in Nat /\ Moved \in Nat
      /\ q \in Seq(TradeLog) /\ s \in Seq(TradeLog) /\ w \in Seq(TradeLog)
      /\ C \in Nat /\ C > 0
  BY QueueNumbered, TradeViewsAssumption DEF Numbered
<1>2. Len(w) = Len(s) + Len(q) /\ Len(s) \in Nat /\ Len(q) \in Nat
  BY <1>1
<1>3. /\ CountBefore(q, b) = d /\ CountBefore(w, b) = e
      /\ c \in 0 .. Len(s) /\ d \in 0 .. Len(q) /\ e \in 0 .. Len(w)
  <2> HIDE DEF s, q, w, c, d, e
  <2>1. ReadsLatest(q, Moved, b) /\ ReadsLatest(s, Taken, b) /\ ReadsLatest(w, Taken, b)
    BY <1>1 DEF ReadsLatest
  <2> QED
    BY <2>1, BeforeIs DEF c, d, e
<1>4. e = c + d /\ (d = 0 \/ c = Len(s))
  <2>1. CASE b = None
    BY <1>2, <2>1 DEF Before
  <2>2. CASE b # None
    <3>1. b \in Nat
      BY <2>2
    <3>2. /\ Till(b, Taken, Len(s) + Len(q)) = Till(b, Taken, Len(s)) + Till(b, Taken + Len(s), Len(q))
          /\ Till(b, Taken + Len(s), Len(q)) = 0 \/ Till(b, Taken, Len(s)) = Len(s)
      <4> DEFINE n == Len(s)
                 m == Len(q)
                 f == Taken
      <4>1. n \in Nat /\ m \in Nat /\ f \in Nat
        BY <1>1, <1>2
      <4>2. /\ Till(b, f, n + m) = Till(b, f, n) + Till(b, f + n, m)
            /\ Till(b, f + n, m) = 0 \/ Till(b, f, n) = n
        <5> HIDE DEF n, m, f
        <5> QED
          BY <3>1, <4>1, TillIs
      <4> QED
        BY <4>2
    <3> QED
      BY <1>1, <1>2, <2>2, <3>2 DEF Before
  <2> QED
    BY <2>1, <2>2
<1>5. /\ view_latest_trades(b) = [trades_data |-> data, is_last_chunk |-> data = <<>> \/ Head(data).id = first]
      /\ Here(w, b) = here
  BY <1>3 DEF view_latest_trades, Here
<1>6. IsLast(TradeLog, queued, q, d, C)
  <2> HIDE DEF d, q
  <2> QED
    BY <1>1, <1>3, LastOfFirst
<1>7. ASSUME Len(queued) < C
      PROVE  IsLast(TradeLog, stored, s, c, room)
  <2>1. room \in Nat
    BY <1>1, <1>6, <1>7 DEF IsLast
  <2>2. CASE s = <<>>
    <3>1. stored = <<>> /\ Len(s) = 0 /\ c = 0
      BY <1>3, <2>2 DEF view_storage_logs_
    <3>2. Len(stored) = Smaller(room, c)
      BY <2>1, <3>1 DEF Smaller
    <3> HIDE DEF stored, c, room, s
    <3>3. stored \in Seq(TradeLog) /\ Len(stored) = 0 /\ c \in 0 .. Len(s)
      BY <3>1
    <3> QED
      BY <1>1, <2>1, <3>2, <3>3 DEF IsLast
  <2>3. CASE s # <<>>
    <3>1. Len(s) >= 1 /\ Head(s).id = Taken
      BY <1>1, <1>2, <2>3 DEF Numbered
    <3>2. TillInBuffer(b) = c
      BY <3>1 DEF TillInBuffer, Before, Till
    <3>3. stored = LastOf(WithKey(s, c, None), room)
      BY <2>3, <3>2 DEF view_storage_logs_
    <3> HIDE DEF s, c, room, stored
    <3>4. WithKey(s, c, None) = SubSeq(s, 1, c)
      BY <1>1, <1>3, EveryKey
    <3> QED
      BY <1>1, <1>3, <2>1, <3>3, <3>4, LastOfFirst
  <2> QED
    BY <2>2, <2>3
<1>8. IsLast(TradeLog, data, w, e, C)
  <2> HIDE DEF s, q, c, d, e, queued, room, stored
  <2>1. CASE Len(queued) < C
    <3>1. d < C /\ Len(queued) = d /\ room + d = C /\ 0 < room
      <4>1. Len(queued) = Smaller(C, d)
        BY <1>6 DEF IsLast
      <4> QED
        BY <1>1, <1>2, <1>3, <2>1, <4>1 DEF Smaller, room
    <3>2. Continued(TradeLog, stored, s, c, queued, q, d, room)
      BY <1>4, <1>6, <1>7, <2>1, <3>1 DEF Continued
    <3>3. IsLast(TradeLog, stored \o queued, s \o q, c + d, room + d)
      BY <3>2, LastInBoth
    <3> QED
      BY <1>4, <2>1, <3>1, <3>3
  <2>2. CASE ~(Len(queued) < C)
    <3>1. C <= d
      <4>1. Len(queued) = Smaller(C, d)
        BY <1>6 DEF IsLast
      <4> QED
        BY <1>1, <1>2, <1>3, <2>2, <4>1 DEF Smaller
    <3>2. d # 0 /\ c = Len(s) /\ e = Len(s) + d
      BY <1>1, <1>2, <1>3, <1>4, <3>1
    <3>3. queued \in Seq(TradeLog)
      BY <1>6 DEF IsLast
    <3>4. IsLast(TradeLog, queued, s \o q, Len(s) + d, C)
      BY <1>1, <1>6, <3>1, <3>3, LastInSecond
    <3> QED
      BY <2>2, <3>2, <3>4
  <2> QED
    BY <2>1, <2>2
<1>9. data = LastOf(here, C)
  <2> HIDE DEF data, w, e
  <2>1. IsLast(TradeLog, LastOf(SubSeq(w, 1, e), C), w, e, C)
    BY <1>1, <1>3, LastOfFirst
  <2> QED
    BY <1>8, <2>1, LastIsOne
<1>10. Len(here) = e
  BY <1>1, <1>3
<1>11. (data = <<>> \/ Head(data).id = first) <=> e <= C
  <2> HIDE DEF data, w, e
  <2>1. /\ data \in Seq(TradeLog) /\ Len(data) = Smaller(C, e) /\ e \in Nat /\ e <= Len(w)
        /\ \A i \in 1 .. Len(data) : data[i] = w[e - Len(data) + i]
    BY <1>1, <1>2, <1>3, <1>8 DEF IsLast
  <2>2. CASE e = 0
    BY <1>1, <2>1, <2>2 DEF Smaller
  <2>3. CASE e # 0
    <3>1. /\ data # <<>> /\ 1 \in 1 .. Len(data) /\ e - Len(data) + 1 \in 1 .. Len(w)
          /\ Head(data) = data[1]
      BY <1>1, <1>2, <2>1, <2>3 DEF Smaller
    <3>2. Head(data) = w[e - Len(data) + 1]
      BY <2>1, <3>1
    <3>3. Head(data).id = Taken + (e - Len(data) + 1) - 1
      BY <1>1, <3>1, <3>2 DEF Numbered
    <3>4. first = Taken
      <4>1. CASE s # <<>>
        <5>1. Len(s) >= 1 /\ Head(s) = s[1] /\ 1 \in 1 .. Len(s)
          BY <1>1, <1>2, <4>1
        <5> QED
          BY <1>1, <4>1, <5>1 DEF Numbered
      <4>2. CASE s = <<>>
        <5>1. Len(s) = 0 /\ Moved = Taken
          BY <1>1, <4>2
        <5>2. Len(q) >= 1
          BY <1>2, <2>1, <2>3, <5>1
        <5>3. Head(q) = q[1] /\ 1 \in 1 .. Len(q)
          BY <1>1, <5>2
        <5> QED
          BY <1>1, <4>2, <5>1, <5>3 DEF Numbered
      <4> QED
        BY <4>1, <4>2
    <3> HIDE DEF first
    <3> QED
      BY <1>1, <2>1, <2>3, <3>1, <3>3, <3>4 DEF Smaller
  <2> QED
    BY <2>2, <2>3
<1> HIDE DEF data, here, first, w, s, q
<1>12. (data = <<>> \/ Head(data).id = first) = (Len(here) <= C)
  BY <1>10, <1>11
<1>13. view_latest_trades(b) = [trades_data |-> LastOf(here, C), is_last_chunk |-> Len(here) <= C]
  BY <1>5, <1>9, <1>12
<1> QED
  BY <1>5, <1>13 DEF w, s, q

LEMMA CanisterNumbered ==
  ASSUME LogsInv, NEW c \in DOMAIN storage_canisters
  PROVE  LET sc == storage_canisters[c]
         IN Numbered(sc.logs, sc.first_log_id) /\ sc \in Canister /\ CanisterOK(sc)
<1> DEFINE sc == storage_canisters[c]
           f == sc.first_log_id
           ls == sc.logs
<1>1. sc \in Canister /\ CanisterOK(sc)
  BY DEF LogsInv, StoredOK, InRow
<1>2. /\ f \in Nat /\ ls \in Seq(TradeLog) /\ f + Len(ls) <= Len(trades)
      /\ \A j \in 1 .. Len(ls) : ls[j] = Paid(trades[f + j])
      /\ Len(trades) \in Nat /\ Len(trades) <= MaxTrades /\ MaxTrades \in Nat
      /\ trades \in Seq(LogWith(NotPaid)) /\ \A j \in 1 .. Len(trades) : trades[j].id = j - 1
  <2>1. f \in Nat /\ ls \in Seq(TradeLog)
    BY <1>1 DEF Canister
  <2>2. f + Len(ls) <= Len(trades) /\ \A j \in 1 .. Len(ls) : ls[j] = Paid(trades[f + j])
    BY <1>1, Zenon DEF CanisterOK
  <2>3. /\ trades \in Seq(LogWith(NotPaid)) /\ Len(trades) <= MaxTrades
        /\ \A j \in 1 .. Len(trades) : trades[j].id = j - 1
    BY Zenon DEF LogsInv, MadeOK
  <2>4. Len(trades) \in Nat /\ MaxTrades \in Nat
    BY <2>3, TradeViewsAssumption
  <2> HIDE DEF f, ls
  <2> QED
    BY <2>1, <2>2, <2>3, <2>4
<1> HIDE DEF f, ls
<1>3. ASSUME NEW j \in 1 .. Len(ls) PROVE ls[j].id = f + j - 1
  <2>1. f + j \in 1 .. Len(trades) /\ (f + j) - 1 < MaxTrades /\ Len(ls) \in Nat
    BY <1>2
  <2>2. /\ trades[f + j] \in LogWith(NotPaid) /\ trades[f + j].id = (f + j) - 1
        /\ ls[j] = Paid(trades[f + j])
    BY <1>2, <2>1
  <2>3. Paid(trades[f + j]).id = trades[f + j].id
    BY <2>1, <2>2, PaidLog
  <2> QED
    BY <1>2, <2>1, <2>2, <2>3
<1>4. Numbered(ls, f)
  BY <1>2, <1>3 DEF Numbered
<1> QED
  BY <1>1, <1>4 DEF ls, f

LEMMA ReverseIs ==
  ASSUME NEW X, NEW s \in Seq(X)
  PROVE  /\ Reverse(s) \in Seq(X) /\ Len(Reverse(s)) = Len(s)
         /\ \A i \in 1 .. Len(s) : Reverse(s)[i] = s[(Len(s) - i) + 1]
<1> DEFINE r == Reverse(s)
<1>1. r \in Seq(X) /\ Len(r) = Len(s)
  BY DEF Reverse
<1>2. \A i \in 1 .. Len(s) : r[i] = s[(Len(s) - i) + 1]
  BY DEF Reverse
<1> QED
  BY <1>1, <1>2

LEMMA ReverseTwice ==
  ASSUME NEW X, NEW s \in Seq(X)
  PROVE  Reverse(Reverse(s)) = s
<1> DEFINE r == Reverse(s)
           t == Reverse(r)
<1>1. r \in Seq(X) /\ Len(r) = Len(s) /\ Len(s) \in Nat
      /\ \A i \in 1 .. Len(s) : r[i] = s[(Len(s) - i) + 1]
  BY DEF Reverse
<1> HIDE DEF r
<1>2. /\ t \in Seq(X) /\ Len(t) = Len(s)
      /\ \A i \in 1 .. Len(s) : t[i] = r[(Len(s) - i) + 1]
  BY <1>1 DEF Reverse
<1> HIDE DEF t
<1>3. ASSUME NEW i \in 1 .. Len(s) PROVE t[i] = s[i]
  <2>1. (Len(s) - i) + 1 \in 1 .. Len(s) /\ (Len(s) - ((Len(s) - i) + 1)) + 1 = i
    BY <1>1
  <2> QED
    BY <1>1, <1>2, <2>1
<1>4. t = s
  BY <1>2, <1>3, SeqEqual
<1> QED
  BY <1>4 DEF t, r

(* A reader of a storage canister. *)
LEMMA LatestStored ==
  ASSUME NEW sc \in Canister, Numbered(sc.logs, sc.first_log_id), NEW b \in {None} \cup Nat
  PROVE  LET here == Here(sc.logs, b)
             view == storage_view_latest_trades(sc, b)
         IN /\ Reverse(view.trades_data) = LastOf(here, ChunkSize)
            /\ view.is_last_chunk => Len(here) <= ChunkSize
<1> DEFINE ls == sc.logs
           f == sc.first_log_id
           C == ChunkSize
           e == Before(ls, f, b)
           chunk == LastOf(SubSeq(ls, 1, e), C)
           data == Reverse(chunk)
           view == storage_view_latest_trades(sc, b)
<1>1. ls \in Seq(TradeLog) /\ f \in Nat /\ Len(ls) \in Nat /\ C \in Nat /\ C > 0
  BY TradeViewsAssumption DEF Canister
<1>2. CountBefore(ls, b) = e /\ e \in 0 .. Len(ls)
  <2>1. ReadsLatest(ls, f, b)
    BY DEF ReadsLatest
  <2> HIDE DEF ls, f, e
  <2> QED
    BY <2>1, BeforeIs DEF e
<1>3. /\ view.trades_data = data
      /\ view.is_last_chunk <=> data = <<>> \/ Head(data).id = f
  BY DEF storage_view_latest_trades, Before, Till
<1>4. Here(ls, b) = SubSeq(ls, 1, e) /\ Len(SubSeq(ls, 1, e)) = e
  BY <1>1, <1>2 DEF Here
<1>5. IsLast(TradeLog, chunk, ls, e, C)
  <2> HIDE DEF ls, e
  <2> QED
    BY <1>1, <1>2, LastOfFirst
<1>6. Numbered(ls, f)
  OBVIOUS
<1> HIDE DEF ls, f, e, chunk
<1>7. /\ chunk \in Seq(TradeLog) /\ Len(chunk) = Smaller(C, e) /\ e \in Nat /\ e <= Len(ls)
      /\ \A i \in 1 .. Len(chunk) : chunk[i] = ls[e - Len(chunk) + i]
  BY <1>1, <1>2, <1>5 DEF IsLast
<1>8. Reverse(data) = chunk
  BY <1>7, ReverseTwice
<1>9. ASSUME data = <<>> \/ Head(data).id = f, e > C PROVE FALSE
  <2>1. Len(chunk) = C /\ C \in 1 .. Len(chunk) /\ e - C + C = e /\ e \in 1 .. Len(ls)
    BY <1>1, <1>7, <1>9 DEF Smaller
  <2>2. Len(data) = C /\ data[1] = chunk[C] /\ data \in Seq(TradeLog)
    <3>1. chunk \in Seq(TradeLog) /\ Len(chunk) = C /\ 1 \in 1 .. Len(chunk) /\ (C - 1) + 1 = C
      BY <1>1, <1>7, <2>1
    <3>2. /\ data \in Seq(TradeLog) /\ Len(data) = Len(chunk)
          /\ \A i \in 1 .. Len(chunk) : data[i] = chunk[(Len(chunk) - i) + 1]
      BY <3>1, ReverseIs
    <3> HIDE DEF data, C
    <3> QED
      BY <3>1, <3>2
  <2>3. data # <<>> /\ Head(data) = data[1]
    <3> HIDE DEF data
    <3> QED
      BY <1>1, <2>2
  <2>4. chunk[C] = ls[e]
    BY <1>1, <1>7, <2>1
  <2>5. ls[e].id = f + e - 1
    BY <1>6, <2>1 DEF Numbered
  <2> QED
    BY <1>1, <1>9, <2>1, <2>2, <2>3, <2>4, <2>5
<1> HIDE DEF data, view
<1>10. view.is_last_chunk => e <= C
  BY <1>1, <1>3, <1>7, <1>9
<1> QED
  BY <1>3, <1>4, <1>8, <1>10 DEF ls, e, chunk, view, f

LEMMA StartsAre == Starts \subseteq {None} \cup Nat
BY TradeViewsAssumption DEF Starts

LEMMA LatestPaged == LogsInv => LatestTradesPaged
<1> SUFFICES ASSUME LogsInv, NEW b \in Starts
             PROVE  /\ LET here == Here(storage_buffer \o trade_logs, b)
                       IN view_latest_trades(b) =
                            [trades_data |-> LastOf(here, ChunkSize),
                             is_last_chunk |-> Len(here) <= ChunkSize]
                    /\ \A i \in DOMAIN storage_canisters :
                         LET here == Here(storage_canisters[i].logs, b)
                             view == storage_view_latest_trades(storage_canisters[i], b)
                         IN /\ Reverse(view.trades_data) = LastOf(here, ChunkSize)
                            /\ view.is_last_chunk => Len(here) <= ChunkSize
  BY DEF LatestTradesPaged
<1>1. b \in {None} \cup Nat
  BY StartsAre
<1>2. \A i \in DOMAIN storage_canisters :
        LET here == Here(storage_canisters[i].logs, b)
            view == storage_view_latest_trades(storage_canisters[i], b)
        IN /\ Reverse(view.trades_data) = LastOf(here, ChunkSize)
           /\ view.is_last_chunk => Len(here) <= ChunkSize
  BY <1>1, CanisterNumbered, LatestStored
<1>3. LET here == Here(storage_buffer \o trade_logs, b)
      IN view_latest_trades(b) =
           [trades_data |-> LastOf(here, ChunkSize), is_last_chunk |-> Len(here) <= ChunkSize]
  BY <1>1, LatestHere
<1> QED
  BY <1>2, <1>3

(* A reader of the latest trades, at the trade contract or at a storage    *)
(* canister, misses none and sees none twice.                              *)
THEOREM TradesArePaged == ViewsSpec => []LatestTradesPaged
  BY LogsInvariant, LatestPaged, PTL

----------------------------------------------------------------------------
(* The trades of a position *)

LEMMA AtLength ==
  ASSUME NEW X, NEW ls \in Seq(X), NEW S, NEW n \in 0 .. Len(ls)
  PROVE  Len(At(ls, n, S)) <= n
<1> DEFINE a(i) == At(ls, i, S)
           T == {i \in 0 .. n : Len(a(i)) <= i}
<1>1. /\ a(0) = <<>>
      /\ \A i \in 1 .. Len(ls) : a(i) = AtStep(ls, S, i, a(i - 1))
      /\ \A i \in 0 .. Len(ls) : a(i) \in Seq(X)
  BY AtGoes, Zenon
<1> HIDE DEF a
<1>2. Len(ls) \in Nat /\ n \in Nat /\ n <= Len(ls)
  OBVIOUS
<1>3. 0 \in T
  <2>1. Len(a(0)) = 0 /\ 0 \in 0 .. n
    BY <1>1, <1>2
  <2> QED
    BY <2>1
<1>4. ASSUME NEW i \in 0 .. n - 1, Len(a(i)) <= i PROVE Len(a(i + 1)) <= i + 1
  <2>1. i + 1 \in 1 .. Len(ls) /\ (i + 1) - 1 = i /\ i \in 0 .. Len(ls)
    BY <1>2
  <2>2. a(i + 1) = AtStep(ls, S, i + 1, a(i)) /\ a(i) \in Seq(X) /\ Len(a(i)) \in Nat
    BY <1>1, <2>1
  <2>3. CASE i + 1 \in S
    <3>1. a(i + 1) = Append(a(i), ls[i + 1])
      BY <2>2, <2>3 DEF AtStep
    <3>2. ls[i + 1] \in X
      BY <2>1
    <3>3. Len(a(i + 1)) = Len(a(i)) + 1
      BY <2>2, <3>1, <3>2
    <3> QED
      BY <1>2, <1>4, <2>2, <3>3
  <2>4. CASE i + 1 \notin S
    <3>1. a(i + 1) = a(i)
      BY <2>2, <2>4 DEF AtStep
    <3> QED
      BY <1>2, <1>4, <2>2, <3>1
  <2> QED
    BY <2>3, <2>4
<1>5. \A i \in 0 .. n - 1 : i \in T => i + 1 \in T
  <2>1. \A i \in 0 .. n - 1 : i + 1 \in 0 .. n
    BY <1>2
  <2> QED
    BY <1>4, <2>1
<1>6. n \in T
  <2> HIDE DEF T
  <2>1. \A i \in 0 .. n : i \in T
    BY <1>2, <1>3, <1>5, StepByStep
  <2> QED
    BY <1>2, <2>1
<1> QED
  BY <1>6 DEF a

(* The logs with a key, each with its place among all. *)
Keyed(ls, k) == {i \in DOMAIN ls : k = None \/ k \in Keys(ls[i])}
Found(ls, k) == WithKey(ls, Len(ls), k)
PlaceOf(ls, k, p, j) ==
  /\ j \in 1 .. Len(ls) /\ Found(ls, k)[p] = ls[j]
  /\ Len(WithKey(ls, j - 1, k)) = p - 1
  /\ WithKey(ls, j - 1, k) = SubSeq(Found(ls, k), 1, p - 1)

LEMMA FoundIs ==
  ASSUME NEW ls \in Seq(TradeLog), NEW k
  PROVE  /\ Found(ls, k) \in Seq(TradeLog) /\ Len(Found(ls, k)) <= Len(ls)
         /\ \A p \in 1 .. Len(Found(ls, k)) : \E j \in 1 .. Len(ls) : PlaceOf(ls, k, p, j)
<1> DEFINE S == Keyed(ls, k)
           n == Len(ls)
           F == Found(ls, k)
<1>1. /\ \A i : WithKey(ls, i, k) = At(ls, i, S)
      /\ F = At(ls, n, S) /\ n \in Nat /\ n \in 0 .. n
  BY DEF WithKey, Keyed, Found
<1> HIDE DEF S, F, n
<1>2. F \in Seq(TradeLog) /\ Len(F) <= n
  <2>1. At(ls, n, S) \in Seq(TradeLog) /\ Len(At(ls, n, S)) <= n
    BY <1>1, AtGoes, AtLength DEF n
  <2> QED
    BY <1>1, <2>1
<1>3. ASSUME NEW p \in 1 .. Len(F) PROVE \E j \in 1 .. n : PlaceOf(ls, k, p, j)
  <2>1. p \in 1 .. Len(At(ls, n, S))
    BY <1>1
  <2>2. PICK j \in 1 .. n : j \in S /\ At(ls, n, S)[p] = ls[j] /\ Len(At(ls, j - 1, S)) = p - 1
    <3>1. n \in 0 .. Len(ls)
      BY <1>1 DEF n
    <3>2. HasPlace(ls, S, n, p)
      BY <2>1, <3>1, AtPlace
    <3> QED
      BY <3>2, Zenon DEF HasPlace
  <2>3. At(ls, j - 1, S) = SubSeq(At(ls, n, S), 1, Len(At(ls, j - 1, S)))
    <3>1. n \in 0 .. Len(ls) /\ j - 1 \in 0 .. n
      BY <1>1 DEF n
    <3> QED
      BY <3>1, AtPrefix
  <2>4. PlaceOf(ls, k, p, j)
    BY <1>1, <2>2, <2>3 DEF PlaceOf, F, n
  <2> QED
    BY <2>4
<1> QED
  BY <1>2, <1>3 DEF F, n

(* Those that come first have lower ids. *)
LEMMA FoundOrder ==
  ASSUME NEW ls, NEW f, Numbered(ls, f), NEW k,
         NEW p \in 1 .. Len(Found(ls, k)), NEW q \in 1 .. Len(Found(ls, k)), p < q
  PROVE  Found(ls, k)[p].id < Found(ls, k)[q].id
<1> DEFINE F == Found(ls, k)
<1>1. ls \in Seq(TradeLog) /\ f \in Nat /\ \A i \in 1 .. Len(ls) : ls[i].id = f + i - 1
  BY DEF Numbered
<1>2. PICK i \in 1 .. Len(ls) : PlaceOf(ls, k, p, i)
  BY <1>1, FoundIs
<1>3. PICK j \in 1 .. Len(ls) : PlaceOf(ls, k, q, j)
  BY <1>1, FoundIs
<1>4. F[p].id = f + i - 1 /\ F[q].id = f + j - 1
  BY <1>1, <1>2, <1>3 DEF PlaceOf
<1>5. i - 1 < j - 1
  <2> DEFINE S == Keyed(ls, k)
  <2>1. Len(At(ls, i - 1, S)) = p - 1 /\ Len(At(ls, j - 1, S)) = q - 1
    BY <1>2, <1>3 DEF PlaceOf, WithKey, Keyed
  <2>2. p - 1 < q - 1
    BY <1>1, FoundIs
  <2>3. i - 1 \in 0 .. Len(ls) /\ j - 1 \in 0 .. Len(ls) /\ Len(At(ls, i - 1, S)) < Len(At(ls, j - 1, S))
    BY <2>1, <2>2
  <2> HIDE DEF S
  <2> QED
    BY <1>1, <2>3, AtOrder
<1> QED
  BY <1>1, <1>4, <1>5

(* The pages of logs that are numbered, counted as view_storage_logs_ and  *)
(* view_position_pending_trades do.                                        *)
KeyPages(pages, ls, f, k) ==
  /\ Numbered(ls, f) /\ f + Len(ls) <= MaxTrades
  /\ \A b \in Starts : pages[b] = LastOf(WithKey(ls, Before(ls, f, b), k), ChunkSize)

LEMMA KeyPagesGiveAll ==
  ASSUME NEW pages, NEW ls, NEW f, NEW k, KeyPages(pages, ls, f, k)
  PROVE  AllChunks(pages) = Found(ls, k)
<1> DEFINE F == Found(ls, k)
<1>1. /\ ls \in Seq(TradeLog) /\ f \in Nat /\ \A i \in 1 .. Len(ls) : ls[i].id = f + i - 1
      /\ Len(ls) \in Nat /\ f + Len(ls) <= MaxTrades /\ MaxTrades \in Nat
  BY TradeViewsAssumption DEF KeyPages, Numbered
<1>2. F \in Seq(TradeLog) /\ Len(F) <= MaxTrades
  <2>1. F \in Seq(TradeLog) /\ Len(F) <= Len(ls)
    BY <1>1, FoundIs
  <2> HIDE DEF F
  <2> QED
    BY <1>1, <2>1
<1>3. pages[None] = LastOf(F, ChunkSize)
  BY DEF KeyPages, Starts, Before, Found
<1>4. ASSUME NEW p \in 1 .. Len(F) PROVE pages[F[p].id] = LastOf(SubSeq(F, 1, p - 1), ChunkSize)
  <2>1. PICK j \in 1 .. Len(ls) : PlaceOf(ls, k, p, j)
    BY <1>1, FoundIs
  <2> DEFINE b == F[p].id
  <2>2. b = f + j - 1
    BY <1>1, <2>1 DEF PlaceOf
  <2> HIDE DEF b
  <2>3. b \in Nat /\ b <= MaxTrades /\ b - f = j - 1 /\ b # None
    BY <1>1, <2>2, TradeViewsAssumption
  <2>4. Before(ls, f, b) = j - 1
    BY <1>1, <2>3 DEF Before, Till, Smaller, Larger
  <2>5. pages[b] = LastOf(WithKey(ls, j - 1, k), ChunkSize)
    <3>1. b \in Starts
      BY <1>1, <2>3 DEF Starts
    <3>2. pages[b] = LastOf(WithKey(ls, Before(ls, f, b), k), ChunkSize)
      BY <3>1, Zenon DEF KeyPages
    <3> QED
      BY <2>4, <3>2, Zenon
  <2> QED
    BY <2>1, <2>5 DEF PlaceOf, b
<1>5. ChunksOf(pages, F)
  BY <1>3, <1>4 DEF ChunksOf
<1> HIDE DEF F
<1>6. AllChunks(pages) = F
  BY <1>2, <1>5, PagesGiveAll
<1> QED
  BY <1>6 DEF F

(* A storage canister takes the ids from its index and with them the logs. *)
StoresLogs(sc, k) ==
  /\ sc \in Canister /\ Numbered(sc.logs, sc.first_log_id) /\ k \in Position
  /\ sc.first_log_id + Len(sc.logs) <= MaxTrades
  /\ sc.index[k] = IdsOf(sc.logs, k)

LEMMA MapIs ==
  ASSUME NEW sc, NEW k, StoresLogs(sc, k), NEW c \in 0 .. Len(Found(sc.logs, k))
  PROVE  LET part == LastOf(SubSeq(sc.index[k], 1, c), ChunkSize)
         IN [i \in DOMAIN part |-> sc.logs[part[i] - sc.first_log_id + 1]]
              = LastOf(SubSeq(Found(sc.logs, k), 1, c), ChunkSize)
<1> DEFINE ls == sc.logs
           f == sc.first_log_id
           ids == sc.index[k]
           F == Found(ls, k)
           C == ChunkSize
           part == LastOf(SubSeq(ids, 1, c), C)
           r == [i \in DOMAIN part |-> ls[part[i] - f + 1]]
           N == Nat
<1>1. /\ ls \in Seq(TradeLog) /\ f \in Nat /\ \A i \in 1 .. Len(ls) : ls[i].id = f + i - 1
      /\ C \in Nat /\ Numbered(ls, f)
  BY TradeViewsAssumption DEF StoresLogs, Numbered
<1>2. IdsIn(ids, F)
  <2>1. ids = IdsOf(ls, k)
    BY DEF StoresLogs
  <2>2. IdsIn(IdsOf(ls, k), F)
    <3> HIDE DEF ls
    <3> QED
      BY <1>1, IdsOfIs DEF Found
  <2> HIDE DEF ids, F
  <2> QED
    BY <2>1, <2>2
<1>3. ASSUME NEW p \in 1 .. Len(F) PROVE F[p] = ls[F[p].id - f + 1]
  <2> HIDE DEF ls
  <2>1. PICK j \in 1 .. Len(ls) : PlaceOf(ls, k, p, j)
    BY <1>1, FoundIs
  <2>2. F[p] = ls[j] /\ ls[j].id = f + j - 1
    BY <1>1, <2>1 DEF PlaceOf
  <2>3. (f + j - 1) - f + 1 = j
    BY <1>1
  <2> HIDE DEF F
  <2> QED
    BY <2>2, <2>3
<1> HIDE DEF ls, f, ids, F, C
<1>4. /\ ids \in Seq(N) /\ F \in Seq(TradeLog) /\ Len(ids) = Len(F)
      /\ \A i \in 1 .. Len(F) : ids[i] = F[i].id
  BY <1>2 DEF IdsIn
<1>5. c \in 0 .. Len(F) /\ c \in 0 .. Len(ids)
  BY <1>4 DEF F, ls
<1> HIDE DEF N
<1>6. IsLast(N, part, ids, c, C)
  BY <1>1, <1>4, <1>5, LastOfFirst
<1> HIDE DEF part
<1>7. /\ part \in Seq(N) /\ Len(part) = Smaller(C, c) /\ Len(part) \in Nat /\ Len(part) <= c
      /\ c \in Nat /\ c <= Len(F)
      /\ \A i \in 1 .. Len(part) : part[i] = ids[c - Len(part) + i]
  <2>1. /\ part \in Seq(N) /\ Len(part) = Smaller(C, c)
        /\ \A i \in 1 .. Len(part) : part[i] = ids[c - Len(part) + i]
    BY <1>6 DEF IsLast
  <2>2. c \in Nat /\ c <= Len(F)
    BY <1>4, <1>5
  <2> QED
    BY <1>1, <2>1, <2>2 DEF Smaller
<1>8. ASSUME NEW i \in 1 .. Len(part)
      PROVE  /\ c - Len(part) + i \in 1 .. Len(F)
             /\ ls[part[i] - f + 1] = F[c - Len(part) + i]
  <2> DEFINE p == c - Len(part) + i
  <2>1. p \in 1 .. Len(F)
    BY <1>4, <1>7
  <2>2. part[i] = ids[p] /\ ids[p] = F[p].id
    BY <1>4, <1>7, <2>1
  <2> HIDE DEF p
  <2>3. ls[part[i] - f + 1] = F[p]
    BY <1>3, <2>1, <2>2
  <2> QED
    BY <2>1, <2>3 DEF p
<1>9. DOMAIN part = 1 .. Len(part)
  BY <1>7
<1>10. r = [i \in 1 .. Len(part) |-> F[c - Len(part) + i]]
  BY <1>8, <1>9
<1>11. /\ r \in Seq(TradeLog) /\ Len(r) = Len(part)
       /\ \A i \in 1 .. Len(r) : r[i] = F[c - Len(r) + i]
  <2> HIDE DEF r
  <2>1. \A i \in 1 .. Len(part) : F[c - Len(part) + i] \in TradeLog
    BY <1>4, <1>8
  <2>2. r \in [1 .. Len(part) -> TradeLog]
    BY <1>10, <2>1
  <2>3. r \in Seq(TradeLog) /\ Len(r) = Len(part)
    BY <1>7, <2>2
  <2> QED
    BY <1>10, <2>3
<1> HIDE DEF r
<1>12. IsLast(TradeLog, r, F, c, C)
  BY <1>1, <1>4, <1>5, <1>7, <1>11 DEF IsLast
<1>13. IsLast(TradeLog, LastOf(SubSeq(F, 1, c), C), F, c, C)
  BY <1>1, <1>4, <1>5, LastOfFirst
<1>14. r = LastOf(SubSeq(F, 1, c), C)
  BY <1>12, <1>13, LastIsOne
<1> QED
  BY <1>14 DEF r, part, F, ls, f, ids, C

LEMMA StoredPages ==
  ASSUME NEW sc, NEW k, StoresLogs(sc, k)
  PROVE  AllChunks([b \in Starts |-> map_logs_rchunks(sc, k, b, ChunkSize)]) = Found(sc.logs, k)
<1> DEFINE ls == sc.logs
           f == sc.first_log_id
           ids == sc.index[k]
           F == Found(ls, k)
           pages == [b \in Starts |-> map_logs_rchunks(sc, k, b, ChunkSize)]
<1>1. /\ ls \in Seq(TradeLog) /\ f \in Nat /\ \A i \in 1 .. Len(ls) : ls[i].id = f + i - 1
      /\ Len(ls) \in Nat /\ f + Len(ls) <= MaxTrades /\ MaxTrades \in Nat /\ Numbered(ls, f)
  BY TradeViewsAssumption DEF StoresLogs, Numbered
<1>2. IdsIn(ids, F)
  <2>1. ids = IdsOf(ls, k)
    BY DEF StoresLogs
  <2>2. IdsIn(IdsOf(ls, k), F)
    <3> HIDE DEF ls
    <3> QED
      BY <1>1, IdsOfIs DEF Found
  <2> HIDE DEF ids, F
  <2> QED
    BY <2>1, <2>2
<1>3. F \in Seq(TradeLog) /\ Len(F) <= MaxTrades /\ Len(F) \in Nat
  <2>1. F \in Seq(TradeLog) /\ Len(F) <= Len(ls)
    <3> HIDE DEF ls
    <3> QED
      BY <1>1, FoundIs
  <2> HIDE DEF F
  <2> QED
    BY <1>1, <2>1
<1>4. /\ Len(ids) = Len(F) /\ DOMAIN ids = 1 .. Len(F) /\ ids \in Seq(Nat)
      /\ \A i \in 1 .. Len(F) : ids[i] = F[i].id
  <2> HIDE DEF F, ids
  <2> QED
    BY <1>2 DEF IdsIn
<1>5. pages[None] = LastOf(F, ChunkSize)
  <2>1. None \in Starts /\ Len(F) \in 0 .. Len(F) /\ SubSeq(F, 1, Len(F)) = F
    <3> HIDE DEF F
    <3> QED
      BY <1>3 DEF Starts
  <2>2. pages[None] = map_logs_rchunks(sc, k, None, ChunkSize)
    BY <2>1
  <2> DEFINE part == LastOf(SubSeq(ids, 1, Len(F)), ChunkSize)
  <2>3. map_logs_rchunks(sc, k, None, ChunkSize) = [i \in DOMAIN part |-> ls[part[i] - f + 1]]
    BY <1>4 DEF map_logs_rchunks
  <2>4. [i \in DOMAIN part |-> ls[part[i] - f + 1]] = LastOf(SubSeq(F, 1, Len(F)), ChunkSize)
    BY <2>1, MapIs
  <2> HIDE DEF pages, part, F
  <2> QED
    BY <2>1, <2>2, <2>3, <2>4
<1>6. ASSUME NEW p \in 1 .. Len(F) PROVE pages[F[p].id] = LastOf(SubSeq(F, 1, p - 1), ChunkSize)
  <2> DEFINE b == F[p].id
             part == LastOf(SubSeq(ids, 1, p - 1), ChunkSize)
             S == {i \in DOMAIN ids : ids[i] < b}
  <2>1. b \in Nat /\ b <= MaxTrades /\ b # None /\ b \in Starts
    <3>1. PICK j \in 1 .. Len(ls) : PlaceOf(ls, k, p, j)
      <4> HIDE DEF ls
      <4> QED
        BY <1>1, FoundIs
    <3>2. b = f + j - 1
      BY <1>1, <3>1 DEF PlaceOf
    <3> HIDE DEF b, f, ls
    <3>3. b \in Nat /\ b <= MaxTrades
      BY <1>1, <3>2
    <3> QED
      BY <3>3, TradeViewsAssumption DEF Starts
  <2>2. ASSUME NEW i \in 1 .. Len(F) PROVE F[i].id < F[p].id <=> i < p
    <3>1. F[i].id \in Nat /\ F[p].id \in Nat
      <4>1. \A tl \in TradeLog : tl.id \in Nat
        BY DEF TradeLog, LogWith
      <4> HIDE DEF F
      <4> QED
        BY <1>3, <4>1
    <3>2. i < p => F[i].id < F[p].id
      <4> HIDE DEF ls, f
      <4> QED
        BY <1>1, FoundOrder
    <3>3. p < i => F[p].id < F[i].id
      <4> HIDE DEF ls, f
      <4> QED
        BY <1>1, FoundOrder
    <3> HIDE DEF F
    <3> QED
      BY <1>3, <3>1, <3>2, <3>3
  <2>3. S = 1 .. p - 1
    <3> HIDE DEF F, ids
    <3>1. \A i \in 1 .. Len(F) : i \in S <=> i < p
      BY <1>4, <2>2
    <3>2. S \subseteq 1 .. Len(F)
      BY <1>4
    <3> HIDE DEF S
    <3>3. ASSUME NEW i \in S PROVE i \in 1 .. p - 1
      BY <1>3, <3>1, <3>2
    <3>4. ASSUME NEW i \in 1 .. p - 1 PROVE i \in S
      <4>1. i \in 1 .. Len(F) /\ i < p
        BY <1>3
      <4> QED
        BY <3>1, <4>1
    <3> QED
      BY <3>3, <3>4
  <2>4. Cardinality(1 .. p - 1) = p - 1 /\ p - 1 \in 0 .. Len(F)
    <3> HIDE DEF F
    <3>1. p \in Nat /\ p - 1 \in Nat /\ p - 1 <= Len(F)
      BY <1>3
    <3> QED
      BY <3>1, FS_Interval
  <2>5. pages[b] = map_logs_rchunks(sc, k, b, ChunkSize)
    <3> HIDE DEF b
    <3> QED
      BY <2>1
  <2>6. map_logs_rchunks(sc, k, b, ChunkSize) = [i \in DOMAIN part |-> ls[part[i] - f + 1]]
    <3>1. Cardinality(S) = p - 1
      BY <2>3, <2>4
    <3> HIDE DEF b
    <3> QED
      BY <2>1, <3>1 DEF map_logs_rchunks
  <2>7. [i \in DOMAIN part |-> ls[part[i] - f + 1]] = LastOf(SubSeq(F, 1, p - 1), ChunkSize)
    BY <2>4, MapIs
  <2> HIDE DEF pages, part, F
  <2> QED
    BY <2>5, <2>6, <2>7 DEF b
<1>7. ChunksOf(pages, F)
  <2> HIDE DEF pages, F
  <2> QED
    BY <1>5, <1>6 DEF ChunksOf
<1>8. AllChunks(pages) = F
  <2> HIDE DEF pages, F
  <2> QED
    BY <1>3, <1>7, PagesGiveAll
<1> QED
  BY <1>8

(* Every trade, as the places have it. *)
LEMMA TradesNowAre ==
  ASSUME LogsInv
  PROVE  /\ TradesNow \in Seq(TradeLog) /\ Len(TradesNow) = Len(trades)
         /\ \A i \in 1 .. Len(trades) :
              TradesNow[i] = IF i <= Moved THEN Paid(trades[i]) ELSE trades[i]
<1>1. /\ trades \in Seq(LogWith(NotPaid)) /\ Len(trades) \in Nat /\ Len(trades) <= MaxTrades
      /\ \A i \in 1 .. Len(trades) : trades[i].id = i - 1
      /\ DOMAIN trades = 1 .. Len(trades)
  BY DEF LogsInv, MadeOK
<1>2. \A i \in 1 .. Len(trades) : TradesNow[i] = IF i <= Moved THEN Paid(trades[i]) ELSE trades[i]
  BY <1>1 DEF TradesNow, Moved
<1>3. ASSUME NEW i \in 1 .. Len(trades) PROVE TradesNow[i] \in TradeLog
  <2>1. trades[i] \in LogWith(NotPaid) /\ trades[i].id < MaxTrades
    BY <1>1, TradeViewsAssumption
  <2>2. Paid(trades[i]) \in TradeLog
    BY <2>1, PaidLog
  <2>3. trades[i] \in TradeLog
    BY <2>1 DEF LogWith, TradeLog
  <2> QED
    BY <1>2, <2>2, <2>3
<1>4. TradesNow \in [1 .. Len(trades) -> TradeLog]
  <2>1. TradesNow = [i \in 1 .. Len(trades) |-> TradesNow[i]]
    BY <1>1 DEF TradesNow
  <2> QED
    BY <1>3, <2>1
<1> QED
  BY <1>1, <1>2, <1>4

(* The trades of a position among the first n. *)
AllOf(k, n) == WithKey(TradesNow, n, k)

GoesOnAs(m, ls) ==
  /\ m \in Nat /\ ls \in Seq(TradeLog) /\ m + Len(ls) <= Len(trades)
  /\ \A j \in 1 .. Len(ls) : ls[j] = TradesNow[m + j]

LEMMA AllOfThen ==
  ASSUME LogsInv, NEW m, NEW ls, GoesOnAs(m, ls), NEW n \in 0 .. Len(ls), NEW k
  PROVE  AllOf(k, m) \o WithKey(ls, n, k) = AllOf(k, m + n)
<1> DEFINE T == TradesNow
           S == Keyed(T, k)
           S2 == Keyed(ls, k)
<1>1. T \in Seq(TradeLog) /\ Len(T) = Len(trades) /\ Len(trades) \in Nat
  <2>1. T \in Seq(TradeLog) /\ Len(T) = Len(trades)
    BY TradesNowAre
  <2> HIDE DEF T
  <2> QED
    BY <2>1 DEF LogsInv, MadeOK
<1> HIDE DEF T
<1>2. /\ m \in Nat /\ ls \in Seq(TradeLog) /\ m + Len(ls) <= Len(T) /\ Len(ls) \in Nat
      /\ \A j \in 1 .. Len(ls) : ls[j] = T[m + j]
  BY <1>1 DEF GoesOnAs, T
<1>3. ASSUME NEW j \in 1 .. n PROVE ls[j] = T[m + j] /\ (j \in S2 <=> m + j \in S)
  <2>1. j \in 1 .. Len(ls) /\ m + j \in 1 .. Len(T)
    BY <1>1, <1>2
  <2>2. DOMAIN T = 1 .. Len(T) /\ DOMAIN ls = 1 .. Len(ls)
    BY <1>1, <1>2
  <2> QED
    BY <1>2, <2>1, <2>2 DEF Keyed
<1>4. GoesOn(TradeLog, T, S, m, ls, S2, n)
  <2>1. m \in 0 .. Len(T) /\ m + n <= Len(T)
    BY <1>1, <1>2
  <2> HIDE DEF S, S2
  <2> QED
    BY <1>1, <1>2, <1>3, <2>1 DEF GoesOn
<1>5. At(T, m, S) \o At(ls, n, S2) = At(T, m + n, S)
  <2> HIDE DEF S, S2
  <2> QED
    BY <1>4, AtThen
<1> QED
  BY <1>5 DEF AllOf, WithKey, Keyed, T

(* The canisters end where the buffer's first trade is that none has.      *)
LEMMA EndsBefore ==
  ASSUME LogsInv, NEW c \in 0 .. Len(storage_canisters)
  PROVE  EndOf(storage_canisters, c) \in Nat /\ EndOf(storage_canisters, c) <= Taken + in_flush
<1> DEFINE scs == storage_canisters
           n == Len(scs)
           e(i) == EndOf(scs, i)
           T == {d \in 0 .. n : e(n - d) \in Nat /\ e(n - d) <= Taken + in_flush}
<1>1. /\ scs \in Seq(Canister) /\ n \in Nat
      /\ \A i \in 1 .. n : scs[i].first_log_id = e(i - 1)
      /\ e(n) = Taken + in_flush /\ Taken + in_flush \in Nat
  BY DEF LogsInv, PlacesOK, StoredOK, InRow
<1>2. ASSUME NEW i \in 1 .. n PROVE e(i - 1) \in Nat /\ e(i - 1) <= e(i)
  <2>1. scs[i] \in Canister
    BY <1>1
  <2>2. scs[i].first_log_id \in Nat /\ Len(scs[i].logs) \in Nat
    BY <2>1 DEF Canister
  <2>3. e(i) = scs[i].first_log_id + Len(scs[i].logs)
    BY <1>1 DEF EndOf
  <2> HIDE DEF e
  <2> QED
    BY <1>1, <2>2, <2>3
<1> HIDE DEF e, scs
<1>3. 0 \in T
  <2>1. n - 0 = n /\ 0 \in 0 .. n
    BY <1>1
  <2> QED
    BY <1>1, <2>1
<1>4. ASSUME NEW d \in 0 .. n - 1, d \in T PROVE d + 1 \in T
  <2>1. n - d \in 1 .. n /\ (n - d) - 1 = n - (d + 1) /\ d + 1 \in 0 .. n
    BY <1>1
  <2>2. e(n - (d + 1)) \in Nat /\ e(n - (d + 1)) <= e(n - d)
    BY <1>2, <2>1
  <2>3. e(n - d) \in Nat /\ e(n - d) <= Taken + in_flush
    BY <1>4
  <2> QED
    BY <1>1, <2>1, <2>2, <2>3
<1>5. \A d \in 0 .. n : d \in T
  <2> HIDE DEF T, n
  <2> QED
    BY <1>1, <1>3, <1>4, StepByStep
<1>6. n - c \in 0 .. n /\ n - (n - c) = c
  BY <1>1 DEF scs
<1>7. e(c) \in Nat /\ e(c) <= Taken + in_flush
  <2>1. n - c \in T
    BY <1>5, <1>6
  <2> QED
    BY <1>6, <2>1
<1> QED
  BY <1>7 DEF e, scs

LEMMA CanisterStores ==
  ASSUME LogsInv, NEW c \in 1 .. Len(storage_canisters), NEW k \in Position
  PROVE  LET sc == storage_canisters[c]
         IN /\ StoresLogs(sc, k) /\ GoesOnAs(EndOf(storage_canisters, c - 1), sc.logs)
            /\ EndOf(storage_canisters, c - 1) + Len(sc.logs) = EndOf(storage_canisters, c)
<1> DEFINE sc == storage_canisters[c]
           f == sc.first_log_id
           ls == sc.logs
<1>1. c \in DOMAIN storage_canisters /\ Len(storage_canisters) \in Nat
  BY DEF LogsInv, StoredOK, InRow
<1>2. Numbered(ls, f) /\ sc \in Canister /\ CanisterOK(sc)
  BY <1>1, CanisterNumbered
<1>3. f = EndOf(storage_canisters, c - 1)
  BY <1>1 DEF LogsInv, StoredOK, InRow
<1>4. EndOf(storage_canisters, c) = f + Len(ls)
  BY <1>1 DEF EndOf
<1>5. f + Len(ls) <= Taken + in_flush
  <2>1. c \in 0 .. Len(storage_canisters)
    BY <1>1
  <2> QED
    BY <1>4, <2>1, EndsBefore
<1>6. /\ f \in Nat /\ Len(ls) \in Nat /\ ls \in Seq(TradeLog) /\ f + Len(ls) <= Len(trades)
      /\ \A j \in 1 .. Len(ls) : ls[j] = Paid(trades[f + j])
      /\ sc.index = [p \in Position |-> IdsOf(ls, p)]
  BY <1>2 DEF Canister, CanisterOK
<1>7. /\ Len(trades) \in Nat /\ Len(trades) <= MaxTrades /\ MaxTrades \in Nat /\ Taken \in Nat
      /\ in_flush \in Nat /\ in_flush <= Len(storage_buffer) /\ Len(storage_buffer) \in Nat
      /\ Moved = Taken + Len(storage_buffer)
  <2>1. Moved = Taken + Len(storage_buffer)
    BY QueueNumbered
  <2> QED
    BY <2>1, TradeViewsAssumption DEF LogsInv, MadeOK, PlacesOK
<1> HIDE DEF f, ls
<1>8. StoresLogs(sc, k)
  <2>1. f + Len(ls) <= MaxTrades
    BY <1>6, <1>7
  <2>2. sc.index[k] = IdsOf(ls, k)
    <3> HIDE DEF sc
    <3> QED
      BY <1>6
  <2> QED
    BY <1>2, <2>1, <2>2 DEF StoresLogs, f, ls
<1>9. ASSUME NEW j \in 1 .. Len(ls) PROVE ls[j] = TradesNow[f + j]
  <2>1. f + j \in 1 .. Len(trades) /\ f + j <= Moved
    BY <1>5, <1>6, <1>7
  <2>2. TradesNow[f + j] = Paid(trades[f + j])
    BY <2>1, TradesNowAre
  <2> QED
    BY <1>6, <2>2
<1>10. GoesOnAs(f, ls)
  BY <1>6, <1>9 DEF GoesOnAs
<1> QED
  BY <1>3, <1>4, <1>8, <1>10 DEF f, ls

(* The loop over the canisters. *)
Share(k, i) ==
  AllChunks([b \in Starts |-> map_logs_rchunks(storage_canisters[i], k, b, ChunkSize)])
WithShare(before, k, i) == before \o Share(k, i)
IsStored(all, k) ==
  all = [i \in 0 .. Len(storage_canisters) |-> IF i = 0 THEN <<>> ELSE WithShare(all[i - 1], k, i)]
StoredLoop(k) == CHOOSE all : IsStored(all, k)

LEMMA AllStoredLoop ==
  ASSUME NEW k
  PROVE  AllStored(k) = StoredLoop(k)[Len(storage_canisters)]
BY DEF AllStored, StoredLoop, IsStored, WithShare, Share

(* The canisters give all of a position's trades before those of the buffer. *)
LEMMA AllStoredIs ==
  ASSUME LogsInv, NEW k \in Position
  PROVE  AllStored(k) = AllOf(k, Taken + in_flush)
<1> DEFINE scs == storage_canisters
           n == Len(scs)
           w == [i \in 0 .. n |-> AllOf(k, EndOf(scs, i))]
           g == StoredLoop(k)
<1>1. n \in Nat /\ EndOf(scs, n) = Taken + in_flush /\ EndOf(scs, 0) = 0
  BY DEF LogsInv, StoredOK, InRow, EndOf
<1>2. w[0] = <<>>
  <2>1. AllOf(k, 0) = <<>>
    <3>1. At(TradesNow, 0, Keyed(TradesNow, k)) = <<>>
      BY TradesNowAre, AtGoes
    <3> QED
      BY <3>1 DEF AllOf, WithKey, Keyed
  <2> QED
    BY <1>1, <2>1
<1>3. ASSUME NEW i \in 1 .. n PROVE w[i] = WithShare(w[i - 1], k, i)
  <2> DEFINE sc == scs[i]
             m == EndOf(scs, i - 1)
             l == Len(sc.logs)
  <2>1. StoresLogs(sc, k) /\ GoesOnAs(m, sc.logs) /\ m + l = EndOf(scs, i)
    BY CanisterStores
  <2>2. Share(k, i) = Found(sc.logs, k)
    <3>1. AllChunks([b \in Starts |-> map_logs_rchunks(sc, k, b, ChunkSize)]) = Found(sc.logs, k)
      <4> HIDE DEF sc
      <4> QED
        BY <2>1, StoredPages
    <3> QED
      BY <3>1 DEF Share
  <2>3. l \in 0 .. l
    BY <2>1 DEF GoesOnAs
  <2>4. AllOf(k, m) \o WithKey(sc.logs, l, k) = AllOf(k, m + l)
    <3> HIDE DEF m, sc
    <3> QED
      BY <2>1, <2>3, AllOfThen
  <2>5. w[i] = AllOf(k, EndOf(scs, i)) /\ w[i - 1] = AllOf(k, m)
    BY <1>1
  <2> HIDE DEF w, m, scs
  <2>6. WithKey(sc.logs, l, k) = Found(sc.logs, k)
    BY DEF Found
  <2> QED
    BY <2>1, <2>2, <2>4, <2>5, <2>6 DEF WithShare
<1>4. IsStored(w, k)
  <2>1. w = [i \in 0 .. n |-> w[i]]
    OBVIOUS
  <2> HIDE DEF w
  <2>2. \A i \in 0 .. n : w[i] = IF i = 0 THEN <<>> ELSE WithShare(w[i - 1], k, i)
    BY <1>1, <1>2, <1>3
  <2> QED
    BY <2>1, <2>2, Zenon DEF IsStored
<1>5. IsStored(g, k)
  <2> HIDE DEF w
  <2> QED
    BY <1>4 DEF StoredLoop
<1>6. g[0] = <<>> /\ \A i \in 1 .. n : g[i] = WithShare(g[i - 1], k, i)
  <2> HIDE DEF g
  <2>1. \A i \in 0 .. n : g[i] = IF i = 0 THEN <<>> ELSE WithShare(g[i - 1], k, i)
    BY <1>5, Zenon DEF IsStored
  <2> QED
    BY <1>1, <2>1
<1>7. \A i \in 0 .. n : g[i] = w[i]
  <2> HIDE DEF g, w
  <2>1. \A i \in 1 .. n : g[i - 1] = w[i - 1] => g[i] = w[i]
    BY <1>3, <1>6
  <2>2. g[0] = w[0]
    BY <1>2, <1>6
  <2> HIDE DEF n
  <2>3. GoAlike(g, w, n)
    BY <2>1, <2>2 DEF GoAlike
  <2> QED
    BY <1>1, <2>3, SameLoop
<1>8. w[n] = AllOf(k, Taken + in_flush)
  BY <1>1
<1> HIDE DEF g, w
<1> QED
  BY <1>1, <1>7, <1>8, AllStoredLoop DEF g

(* Sequences that overlap: the first t of s are the last t of what is      *)
(* before it.                                                              *)
Overlaps(b, a, s, t) == b = a \o SubSeq(s, 1, t)
OverlapKept(b, a, s, t) ==
  /\ SubSeq(b, Len(b) - t + 1, Len(b)) = SubSeq(s, 1, t)
  /\ b \o SubSeq(s, t + 1, Len(s)) = a \o s

LEMMA OverlapSeen ==
  ASSUME NEW X, NEW a \in Seq(X), NEW s \in Seq(X), NEW t \in 0 .. Len(s), NEW b,
         Overlaps(b, a, s, t)
  PROVE  OverlapKept(b, a, s, t)
<1> DEFINE u == SubSeq(s, 1, t)
           v == SubSeq(s, t + 1, Len(s))
           w == a \o s
           c == b \o v
           z == SubSeq(b, Len(b) - t + 1, Len(b))
<1>1. Len(a) \in Nat /\ Len(s) \in Nat /\ t \in Nat /\ t <= Len(s)
  OBVIOUS
<1>2. /\ u \in Seq(X) /\ Len(u) = t /\ \A i \in 1 .. t : u[i] = s[i]
      /\ v \in Seq(X) /\ Len(v) = Len(s) - t /\ \A i \in 1 .. Len(v) : v[i] = s[t + i]
  BY <1>1
<1>3. /\ w \in Seq(X) /\ Len(w) = Len(a) + Len(s)
      /\ \A i \in 1 .. Len(a) + Len(s) : w[i] = IF i <= Len(a) THEN a[i] ELSE s[i - Len(a)]
  BY ConcatProperties
<1> HIDE DEF u, v, w
<1>4. /\ b \in Seq(X) /\ Len(b) = Len(a) + t
      /\ \A i \in 1 .. Len(a) + t : b[i] = IF i <= Len(a) THEN a[i] ELSE u[i - Len(a)]
  <2> DEFINE x == a \o u
  <2>1. /\ x \in Seq(X) /\ Len(x) = Len(a) + Len(u)
        /\ \A i \in 1 .. Len(a) + Len(u) : x[i] = IF i <= Len(a) THEN a[i] ELSE u[i - Len(a)]
    BY <1>2, ConcatProperties
  <2>2. b = x
    BY DEF u, Overlaps
  <2> HIDE DEF x
  <2> QED
    BY <1>2, <2>1, <2>2
<1>5. /\ c \in Seq(X) /\ Len(c) = Len(b) + Len(v)
      /\ \A i \in 1 .. Len(b) + Len(v) : c[i] = IF i <= Len(b) THEN b[i] ELSE v[i - Len(b)]
  <2>1. b \in Seq(X) /\ v \in Seq(X)
    BY <1>2, <1>4
  <2> QED
    BY <2>1, ConcatProperties
<1>6. z \in Seq(X) /\ Len(z) = t /\ \A i \in 1 .. t : z[i] = b[Len(a) + i]
  <2>1. Len(b) - t + 1 = Len(a) + 1 /\ Len(b) - (Len(b) - t + 1) + 1 = t
    BY <1>1, <1>4
  <2> DEFINE m == Len(a)
             l == Len(b)
  <2>2. z = SubSeq(b, m + 1, l)
    BY <2>1
  <2>3. /\ m + 1 \in Int /\ l \in Int /\ l = m + t /\ m \in Nat
        /\ \A i \in m + 1 .. l : b[i] \in X
    BY <1>1, <1>4
  <2> HIDE DEF z, m, l
  <2>4. /\ z \in Seq(X) /\ Len(z) = IF m + 1 <= l THEN l - (m + 1) + 1 ELSE 0
        /\ \A i \in 1 .. l - (m + 1) + 1 : z[i] = b[(m + 1) + i - 1]
    BY <2>2, <2>3, SubSeqProperties
  <2>5. Len(z) = t /\ l - (m + 1) + 1 = t
    BY <1>1, <2>3, <2>4
  <2>6. \A i \in 1 .. t : z[i] = b[m + i]
    BY <1>1, <2>3, <2>4, <2>5
  <2> QED
    BY <2>4, <2>5, <2>6 DEF m
<1> HIDE DEF c, z
<1>7. z = u
  <2>1. ASSUME NEW i \in 1 .. t PROVE z[i] = u[i]
    <3>1. /\ Len(a) + i \in 1 .. Len(a) + t /\ ~(Len(a) + i <= Len(a))
          /\ (Len(a) + i) - Len(a) = i
      BY <1>1
    <3> QED
      BY <1>4, <1>6, <3>1
  <2> QED
    BY <1>2, <1>6, <2>1, SeqEqual
<1>8. c = w
  <2>1. Len(c) = Len(w)
    BY <1>1, <1>2, <1>3, <1>4, <1>5
  <2>2. ASSUME NEW i \in 1 .. Len(c) PROVE c[i] = w[i]
    <3>1. i \in Nat /\ i >= 1 /\ i <= Len(a) + Len(s) /\ Len(v) \in Nat
          /\ i \in 1 .. Len(b) + Len(v) /\ i \in 1 .. Len(a) + Len(s)
      BY <1>1, <1>2, <1>3, <1>4, <1>5, <2>1
    <3>2. CASE i <= Len(a)
      <4>1. i <= Len(b) /\ i \in 1 .. Len(a) + t
        BY <1>1, <1>4, <3>1, <3>2
      <4>2. c[i] = b[i] /\ b[i] = a[i] /\ w[i] = a[i]
        BY <1>3, <1>4, <1>5, <3>1, <3>2, <4>1
      <4> QED
        BY <4>2
    <3>3. CASE ~(i <= Len(a)) /\ i <= Len(a) + t
      <4>1. i <= Len(b) /\ i \in 1 .. Len(a) + t /\ i - Len(a) \in 1 .. t
        BY <1>1, <1>4, <3>1, <3>3
      <4>2. c[i] = b[i] /\ b[i] = u[i - Len(a)] /\ w[i] = s[i - Len(a)] /\ u[i - Len(a)] = s[i - Len(a)]
        BY <1>2, <1>3, <1>4, <1>5, <3>1, <3>3, <4>1
      <4> QED
        BY <4>2
    <3>4. CASE ~(i <= Len(a)) /\ ~(i <= Len(a) + t)
      <4>1. /\ ~(i <= Len(b)) /\ i - Len(b) \in 1 .. Len(v) /\ t + (i - Len(b)) = i - Len(a)
        <5>1. /\ Len(b) = Len(a) + t /\ Len(v) = Len(s) - t /\ Len(a) \in Nat /\ Len(s) \in Nat
              /\ t \in Nat /\ t <= Len(s)
          BY <1>1, <1>2, <1>4
        <5> QED
          BY <3>1, <3>4, <5>1
      <4>2. c[i] = v[i - Len(b)] /\ v[i - Len(b)] = s[t + (i - Len(b))] /\ w[i] = s[i - Len(a)]
        BY <1>2, <1>3, <1>5, <3>1, <3>4, <4>1
      <4> QED
        BY <4>1, <4>2
    <3> QED
      BY <3>2, <3>3, <3>4
  <2> QED
    BY <1>3, <1>5, <2>1, <2>2, SeqEqual
<1> QED
  BY <1>7, <1>8 DEF OverlapKept, u, v, w, c, z

(* The pages of the trade contract. *)
LEMMA BufferPages ==
  ASSUME LogsInv, NEW k \in Position
  PROVE  AllChunks([b \in Starts |-> view_storage_logs_(b, k, ChunkSize)]) = Found(storage_buffer, k)
<1> DEFINE ls == storage_buffer
           f == Taken
           pages == [b \in Starts |-> view_storage_logs_(b, k, ChunkSize)]
<1>1. Numbered(ls, f)
  BY QueueNumbered
<1>2. /\ ls \in Seq(TradeLog) /\ f \in Nat /\ \A i \in 1 .. Len(ls) : ls[i].id = f + i - 1
      /\ Len(ls) \in Nat
  BY <1>1 DEF Numbered
<1>3. f + Len(ls) <= MaxTrades
  <2>1. Moved = Taken + Len(storage_buffer)
    BY QueueNumbered
  <2>2. Moved <= Len(trades) /\ Len(trades) <= MaxTrades /\ Moved \in Int /\ Len(trades) \in Nat
    BY DEF Moved, LogsInv, MadeOK, PlacesOK
  <2> QED
    BY <2>1, <2>2, TradeViewsAssumption
<1>4. ASSUME NEW b \in Starts
      PROVE  pages[b] = LastOf(WithKey(ls, Before(ls, f, b), k), ChunkSize)
  <2>1. pages[b] = view_storage_logs_(b, k, ChunkSize)
    OBVIOUS
  <2>2. CASE ls = <<>>
    <3>1. pages[b] = <<>>
      BY <2>1, <2>2 DEF view_storage_logs_
    <3>2. Before(ls, f, b) = 0
      <4>1. ReadsLatest(ls, f, b)
        BY <1>1, StartsAre DEF ReadsLatest
      <4>2. Before(ls, f, b) \in 0 .. Len(ls)
        <5> HIDE DEF ls, f
        <5> QED
          BY <4>1, BeforeIs
      <4>3. Len(ls) = 0
        BY <2>2
      <4> QED
        BY <4>2, <4>3
    <3>3. WithKey(ls, 0, k) = <<>>
      <4>1. At(ls, 0, Keyed(ls, k)) = <<>>
        <5> HIDE DEF ls
        <5> QED
          BY <1>2, AtGoes
      <4> QED
        BY <4>1 DEF WithKey, Keyed
    <3>4. LastOf(<<>>, ChunkSize) = <<>>
      <4> DEFINE e == <<>>
      <4>1. e \in Seq(TradeLog) /\ Len(e) = 0 /\ ChunkSize \in Nat /\ ChunkSize >= Len(e)
        BY TradeViewsAssumption
      <4> HIDE DEF e
      <4>2. LastOf(e, ChunkSize) = e
        BY <4>1, LastOfIs
      <4> QED
        BY <4>2 DEF e
    <3> QED
      BY <3>1, <3>2, <3>3, <3>4
  <2>3. CASE ls # <<>>
    <3>1. Head(ls) = ls[1] /\ 1 \in 1 .. Len(ls)
      BY <1>2, <2>3
    <3>2. Head(ls).id = f
      BY <1>2, <3>1
    <3>3. TillInBuffer(b) = Before(ls, f, b)
      BY <3>2 DEF TillInBuffer, Before, Till
    <3> QED
      BY <2>1, <2>3, <3>3 DEF view_storage_logs_
  <2> QED
    BY <2>2, <2>3
<1>5. KeyPages(pages, ls, f, k)
  <2> HIDE DEF pages, f, ls
  <2> QED
    BY <1>1, <1>3, <1>4 DEF KeyPages
<1> HIDE DEF pages, f, ls
<1>6. AllChunks(pages) = Found(ls, k)
  BY <1>5, KeyPagesGiveAll
<1> QED
  BY <1>6 DEF pages, ls

LEMMA QueuePages ==
  ASSUME LogsInv, NEW k \in Position
  PROVE  AllChunks([b \in Starts |-> view_position_pending_trades(b, k, ChunkSize)])
           = Found(trade_logs, k)
<1> DEFINE ls == trade_logs
           f == Moved
           pages == [b \in Starts |-> view_position_pending_trades(b, k, ChunkSize)]
<1>1. Numbered(ls, f)
  BY QueueNumbered
<1>3. f + Len(ls) <= MaxTrades
  BY TradeViewsAssumption DEF Moved, LogsInv, MadeOK, PlacesOK
<1>4. ASSUME NEW b \in Starts
      PROVE  pages[b] = LastOf(WithKey(ls, Before(ls, f, b), k), ChunkSize)
  <2>1. ReadsLatest(ls, f, b)
    BY <1>1, StartsAre DEF ReadsLatest
  <2>2. CountBefore(ls, b) = Before(ls, f, b)
    <3> HIDE DEF ls, f
    <3> QED
      BY <2>1, BeforeIs
  <2> QED
    BY <2>2 DEF view_position_pending_trades
<1>5. KeyPages(pages, ls, f, k)
  <2> HIDE DEF pages, f, ls
  <2> QED
    BY <1>1, <1>3, <1>4 DEF KeyPages
<1> HIDE DEF pages, f, ls
<1>6. AllChunks(pages) = Found(ls, k)
  BY <1>5, KeyPagesGiveAll
<1> QED
  BY <1>6 DEF pages, ls

LEMMA PlacesGoOn ==
  ASSUME LogsInv
  PROVE  GoesOnAs(Taken, storage_buffer) /\ GoesOnAs(Moved, trade_logs)
         /\ Taken + Len(storage_buffer) = Moved /\ Moved + Len(trade_logs) = Len(trades)
<1>1. /\ trade_logs \in Seq(TradeLog) /\ storage_buffer \in Seq(TradeLog)
      /\ Taken \in Nat /\ Len(trades) \in Nat
      /\ \A i \in 1 .. Len(trade_logs) : trade_logs[i] = trades[Moved + i]
      /\ \A i \in 1 .. Len(storage_buffer) : storage_buffer[i] = Paid(trades[Taken + i])
  <2>1. trades \in Seq(LogWith(NotPaid))
    BY Zenon DEF LogsInv, MadeOK
  <2>2. Len(trades) \in Nat
    BY <2>1
  <2> QED
    BY <2>2, Zenon DEF LogsInv, PlacesOK
<1>2. /\ Taken + Len(storage_buffer) = Moved /\ Moved + Len(trade_logs) = Len(trades)
      /\ Moved \in Nat /\ Len(storage_buffer) \in Nat /\ Len(trade_logs) \in Nat
  BY <1>1 DEF Moved, Taken
<1>3. \A i \in 1 .. Len(trades) :
        TradesNow[i] = IF i <= Moved THEN Paid(trades[i]) ELSE trades[i]
  BY TradesNowAre
<1>4. ASSUME NEW j \in 1 .. Len(storage_buffer) PROVE storage_buffer[j] = TradesNow[Taken + j]
  <2>1. Taken + j \in 1 .. Len(trades) /\ Taken + j <= Moved
    BY <1>1, <1>2
  <2> QED
    BY <1>1, <1>3, <2>1
<1>5. ASSUME NEW j \in 1 .. Len(trade_logs) PROVE trade_logs[j] = TradesNow[Moved + j]
  <2>1. Moved + j \in 1 .. Len(trades) /\ ~(Moved + j <= Moved)
    BY <1>1, <1>2
  <2> QED
    BY <1>1, <1>3, <2>1
<1>6. Taken + Len(storage_buffer) <= Len(trades) /\ Moved + Len(trade_logs) <= Len(trades)
  BY <1>1, <1>2
<1> QED
  BY <1>1, <1>2, <1>4, <1>5, <1>6 DEF GoesOnAs

(* What is before b of the position's trades, with those of the buffer and *)
(* of the queue, is all of them.                                           *)
LEMMA PositionFound ==
  ASSUME LogsInv, NEW k \in Position
  PROVE  LET stored == AllStored(k)
             here   == AllChunks([b \in Starts |-> view_storage_logs_(b, k, ChunkSize)])
                         \o AllChunks([b \in Starts |-> view_position_pending_trades(b, k, ChunkSize)])
             twice  == Len(WithKey(storage_buffer, in_flush, k))
         IN /\ stored \o SubSeq(here, twice + 1, Len(here)) = AllOf(k, Len(trades))
            /\ SubSeq(here, 1, twice) = SubSeq(stored, Len(stored) - twice + 1, Len(stored))
<1> DEFINE A == AllOf(k, Taken)
           B == Found(storage_buffer, k)
           B1 == WithKey(storage_buffer, in_flush, k)
           Q == Found(trade_logs, k)
           t == Len(B1)
           stored == AllStored(k)
           here == B \o Q
<1>1. /\ trade_logs \in Seq(TradeLog) /\ storage_buffer \in Seq(TradeLog)
      /\ in_flush \in 0 .. Len(storage_buffer) /\ Len(storage_buffer) \in Nat
      /\ Taken \in Nat /\ Len(trades) \in Nat /\ Len(trade_logs) \in Nat
      /\ GoesOnAs(Taken, storage_buffer) /\ GoesOnAs(Moved, trade_logs)
      /\ Taken + Len(storage_buffer) = Moved /\ Moved + Len(trade_logs) = Len(trades)
  <2>1. /\ trade_logs \in Seq(TradeLog) /\ storage_buffer \in Seq(TradeLog)
        /\ in_flush \in 0 .. Len(storage_buffer) /\ Taken \in Nat /\ Len(trades) \in Nat
    BY DEF LogsInv, MadeOK, PlacesOK
  <2> QED
    BY <2>1, PlacesGoOn
<1>2. /\ A \o B1 = AllOf(k, Taken + in_flush)
      /\ A \o B = AllOf(k, Moved)
      /\ AllOf(k, Moved) \o Q = AllOf(k, Len(trades))
  <2>1. A \o B1 = AllOf(k, Taken + in_flush)
    BY <1>1, AllOfThen
  <2>2. A \o WithKey(storage_buffer, Len(storage_buffer), k) = AllOf(k, Taken + Len(storage_buffer))
    <3>1. Len(storage_buffer) \in 0 .. Len(storage_buffer)
      BY <1>1
    <3> QED
      BY <1>1, <3>1, AllOfThen
  <2>3. AllOf(k, Moved) \o WithKey(trade_logs, Len(trade_logs), k) = AllOf(k, Moved + Len(trade_logs))
    <3>1. Len(trade_logs) \in 0 .. Len(trade_logs)
      BY <1>1
    <3> QED
      BY <1>1, <3>1, AllOfThen
  <2>4. B = WithKey(storage_buffer, Len(storage_buffer), k) /\ Q = WithKey(trade_logs, Len(trade_logs), k)
    BY DEF Found
  <2> HIDE DEF A, B, Q, B1
  <2> QED
    BY <1>1, <2>1, <2>2, <2>3, <2>4
<1>3. /\ A \in Seq(TradeLog) /\ B \in Seq(TradeLog) /\ Q \in Seq(TradeLog)
      /\ B1 = SubSeq(B, 1, t) /\ t \in 0 .. Len(B)
  <2>1. A \in Seq(TradeLog)
    <3>1. TradesNow \in Seq(TradeLog) /\ Taken \in 0 .. Len(TradesNow)
      BY <1>1, TradesNowAre
    <3>2. At(TradesNow, Taken, Keyed(TradesNow, k)) \in Seq(TradeLog)
      BY <3>1, AtGoes
    <3> QED
      BY <3>2 DEF AllOf, WithKey, Keyed
  <2>2. B \in Seq(TradeLog) /\ Q \in Seq(TradeLog)
    BY <1>1, FoundIs
  <2>3. B1 \in Seq(TradeLog) /\ B1 = SubSeq(B, 1, t) /\ t <= Len(B)
    <3> DEFINE S == Keyed(storage_buffer, k)
               n == Len(storage_buffer)
    <3>1. B1 = At(storage_buffer, in_flush, S) /\ B = At(storage_buffer, n, S)
      BY DEF WithKey, Keyed, Found
    <3>2. n \in 0 .. Len(storage_buffer) /\ in_flush \in 0 .. n
      BY <1>1
    <3> HIDE DEF S, n, B1, B
    <3>3. /\ Len(At(storage_buffer, in_flush, S)) <= Len(At(storage_buffer, n, S))
          /\ At(storage_buffer, in_flush, S)
               = SubSeq(At(storage_buffer, n, S), 1, Len(At(storage_buffer, in_flush, S)))
          /\ At(storage_buffer, in_flush, S) \in Seq(TradeLog)
      BY <1>1, <3>2, AtPrefix, AtGoes
    <3> QED
      BY <3>1, <3>3
  <2> HIDE DEF A, B, Q, B1
  <2> QED
    BY <2>1, <2>2, <2>3
<1>4. stored = A \o B1
  BY <1>2, AllStoredIs
<1> HIDE DEF A, B, Q, B1, stored
<1>5. /\ here \in Seq(TradeLog) /\ t \in 0 .. Len(here) /\ SubSeq(here, 1, t) = SubSeq(B, 1, t)
  <2>1. /\ here \in Seq(TradeLog) /\ Len(here) = Len(B) + Len(Q) /\ Len(B) \in Nat /\ Len(Q) \in Nat
        /\ \A i \in 1 .. Len(B) : here[i] = B[i]
    BY <1>3
  <2> HIDE DEF here
  <2>2. t \in 0 .. Len(here) /\ t \in Nat /\ t <= Len(B)
    BY <1>3, <2>1
  <2> DEFINE x == SubSeq(here, 1, t)
             y == SubSeq(B, 1, t)
  <2> HIDE DEF t
  <2>3. /\ x \in Seq(TradeLog) /\ Len(x) = t /\ \A i \in 1 .. t : x[i] = here[i]
        /\ y \in Seq(TradeLog) /\ Len(y) = t /\ \A i \in 1 .. t : y[i] = B[i]
    BY <1>3, <2>1, <2>2
  <2> HIDE DEF x, y
  <2>4. ASSUME NEW i \in 1 .. t PROVE x[i] = y[i]
    BY <2>1, <2>2, <2>3
  <2>5. x = y
    BY <2>3, <2>4, SeqEqual
  <2> QED
    BY <2>1, <2>2, <2>5 DEF x, y
<1>6. Overlaps(stored, A, here, t)
  <2> HIDE DEF here
  <2> QED
    BY <1>3, <1>4, <1>5 DEF Overlaps
<1>7. /\ SubSeq(stored, Len(stored) - t + 1, Len(stored)) = SubSeq(here, 1, t)
      /\ stored \o SubSeq(here, t + 1, Len(here)) = A \o here
  <2> HIDE DEF here, t
  <2>1. A \in Seq(TradeLog) /\ here \in Seq(TradeLog) /\ t \in 0 .. Len(here)
    BY <1>3, <1>5
  <2>2. OverlapKept(stored, A, here, t)
    BY <1>6, <2>1, OverlapSeen
  <2> QED
    BY <2>2, Zenon DEF OverlapKept
<1>8. A \o here = AllOf(k, Len(trades))
  <2>1. (A \o B) \o Q = A \o (B \o Q)
    BY <1>3, ConcatAssociative
  <2>2. (A \o B) \o Q = AllOf(k, Len(trades))
    BY <1>2
  <2> QED
    BY <2>1, <2>2
<1>9. /\ AllChunks([b \in Starts |-> view_storage_logs_(b, k, ChunkSize)]) = B
      /\ AllChunks([b \in Starts |-> view_position_pending_trades(b, k, ChunkSize)]) = Q
  BY BufferPages, QueuePages DEF B, Q
<1>10. /\ stored \o SubSeq(here, t + 1, Len(here)) = AllOf(k, Len(trades))
       /\ SubSeq(here, 1, t) = SubSeq(stored, Len(stored) - t + 1, Len(stored))
  <2> HIDE DEF here, t
  <2> QED
    BY <1>7, <1>8
<1> QED
  BY <1>9, <1>10 DEF stored, B1

LEMMA OfPosition ==
  ASSUME NEW k \in Position, NEW ls, NEW n
  PROVE  At(ls, n, {i \in DOMAIN ls : k \in {ls[i].matchee, ls[i].matcher}}) = WithKey(ls, n, k)
<1>1. k # None
  BY TradeViewsAssumption
<1>2. {i \in DOMAIN ls : k \in {ls[i].matchee, ls[i].matcher}}
        = {i \in DOMAIN ls : k = None \/ k \in Keys(ls[i])}
  BY <1>1 DEF Keys
<1> QED
  BY <1>2 DEF WithKey

LEMMA PositionsFound == LogsInv => PositionTradesFound
<1> SUFFICES ASSUME LogsInv PROVE PositionTradesFound
  OBVIOUS
<1>1. \A k \in Position :
        LET stored == AllStored(k)
            here   == AllChunks([b \in Starts |-> view_storage_logs_(b, k, ChunkSize)])
                        \o AllChunks([b \in Starts |-> view_position_pending_trades(b, k, ChunkSize)])
            twice  == Len(WithKey(storage_buffer, in_flush, k))
        IN /\ stored \o SubSeq(here, twice + 1, Len(here)) = WithKey(TradesNow, Len(trades), k)
           /\ SubSeq(here, 1, twice) = SubSeq(stored, Len(stored) - twice + 1, Len(stored))
  BY PositionFound DEF AllOf
<1> QED
  BY <1>1, OfPosition DEF PositionTradesFound

(* The trades of a position that a reader collects from all the places are *)
(* all of them, whichever of the places they are in.                       *)
THEOREM PositionTradesAreFound == ViewsSpec => []PositionTradesFound
  BY LogsInvariant, PositionsFound, PTL

----------------------------------------------------------------------------
(* The logs as bytes *)

(* A field of the bytes that no other one touches. *)
Alone(size, fields, j) ==
  /\ j \in DOMAIN fields /\ DOMAIN fields \subseteq Nat
  /\ fields[j].from \in Nat /\ fields[j].till \in Nat
  /\ fields[j].from < fields[j].till /\ fields[j].till <= size
  /\ \A i \in DOMAIN fields : \A at \in 0 .. size - 1 :
       i # j /\ fields[j].from <= at /\ at < fields[j].till
         => ~(fields[i].from <= at /\ at < fields[i].till)

LEMMA ReadsField ==
  ASSUME NEW size \in Nat, NEW fields, NEW j, Alone(size, fields, j)
  PROVE  read(Layout(size, fields), fields[j].from, fields[j].till) = fields[j].value
<1> DEFINE b == Layout(size, fields)
           f == fields[j]
           Here_(i) == {x \in DOMAIN fields : fields[x].from <= i /\ i < fields[x].till}
<1>1. /\ j \in Nat /\ f.from \in Nat /\ f.till \in Nat /\ f.from < f.till /\ f.till <= size
  BY DEF Alone
<1>2. ASSUME NEW i \in f.from .. f.till - 1 PROVE b[i] = Byte(f.value, i - f.from)
  <2>1. i \in 0 .. size - 1 /\ f.from <= i /\ i < f.till
    BY <1>1
  <2>2. Here_(i) = {j}
    BY <2>1 DEF Alone
  <2>3. Max({j}) = j
    BY <1>1 DEF Max
  <2>4. b[i] = IF Here_(i) = {} THEN Zero
               ELSE LET g == fields[Max(Here_(i))] IN Byte(g.value, i - g.from)
    BY <2>1 DEF Layout
  <2> HIDE DEF b, Here_
  <2>5. Here_(i) # {}
    BY <2>2
  <2> QED
    BY <2>2, <2>3, <2>4, <2>5
<1>3. f.from \in f.from .. f.till - 1 /\ f.from - f.from = 0
  BY <1>1
<1> HIDE DEF b
<1>4. b[f.from] = Byte(f.value, 0)
  BY <1>2, <1>3
<1>5. b[f.from][1] = f.value
  BY <1>4 DEF Byte, Zero
<1> HIDE DEF f
<1>6. read(b, f.from, f.till) = f.value
  BY <1>2, <1>5 DEF read
<1> QED
  BY <1>6 DEF b, f

TwoOf(X, u) == u \in Seq(X) /\ Len(u) = 2

LEMMA TwoMore ==
  ASSUME NEW X, NEW s \in Seq(X), NEW u, TwoOf(X, u)
  PROVE  LET w == s \o u
         IN /\ w \in Seq(X) /\ Len(w) = Len(s) + 2
            /\ \A i \in 1 .. Len(s) : w[i] = s[i]
            /\ w[Len(s) + 1] = u[1] /\ w[Len(s) + 2] = u[2]
<1> DEFINE w == s \o u
<1>1. u \in Seq(X) /\ Len(u) = 2 /\ Len(s) \in Nat
  BY DEF TwoOf
<1>2. /\ w \in Seq(X) /\ Len(w) = Len(s) + Len(u)
      /\ \A i \in 1 .. Len(s) + Len(u) : w[i] = IF i <= Len(s) THEN s[i] ELSE u[i - Len(s)]
  BY <1>1, ConcatProperties
<1> HIDE DEF w
<1>3. /\ ~(Len(s) + 1 <= Len(s)) /\ ~(Len(s) + 2 <= Len(s))
      /\ (Len(s) + 1) - Len(s) = 1 /\ (Len(s) + 2) - Len(s) = 2
      /\ Len(s) + 1 \in 1 .. Len(s) + 2 /\ Len(s) + 2 \in 1 .. Len(s) + 2
      /\ \A i \in 1 .. Len(s) : i \in 1 .. Len(s) + 2 /\ i <= Len(s)
  BY <1>1
<1>4. \A i \in 1 .. Len(s) + 2 : w[i] = IF i <= Len(s) THEN s[i] ELSE u[i - Len(s)]
  BY <1>1, <1>2
<1>5. w[Len(s) + 1] = u[1] /\ w[Len(s) + 2] = u[2]
  BY <1>3, <1>4
<1>6. \A i \in 1 .. Len(s) : w[i] = s[i]
  BY <1>3, <1>4
<1> QED
  BY <1>1, <1>2, <1>5, <1>6 DEF w

LEMMA ThreeParts ==
  ASSUME NEW a1, NEW a2, NEW a3, NEW a4, NEW a5, NEW a6, NEW a7, NEW a8, NEW a9, NEW a10,
         NEW a11, NEW b1, NEW b2, NEW c1, NEW c2
  PROVE  LET w == <<a1, a2, a3, a4, a5, a6, a7, a8, a9, a10, a11>> \o <<b1, b2>> \o <<c1, c2>>
         IN /\ DOMAIN w = 1 .. 15
            /\ w[1] = a1 /\ w[2] = a2 /\ w[3] = a3 /\ w[4] = a4 /\ w[5] = a5 /\ w[6] = a6
            /\ w[7] = a7 /\ w[8] = a8 /\ w[9] = a9 /\ w[10] = a10 /\ w[11] = a11
            /\ w[12] = b1 /\ w[13] = b2 /\ w[14] = c1 /\ w[15] = c2
<1> DEFINE X == {a1, a2, a3, a4, a5, a6, a7, a8, a9, a10, a11, b1, b2, c1, c2}
           s == <<a1, a2, a3, a4, a5, a6, a7, a8, a9, a10, a11>>
           u == <<b1, b2>>
           z == <<c1, c2>>
           v == s \o u
           w == v \o z
<1>1. /\ s \in Seq(X) /\ Len(s) = 11
      /\ s[1] = a1 /\ s[2] = a2 /\ s[3] = a3 /\ s[4] = a4 /\ s[5] = a5 /\ s[6] = a6
      /\ s[7] = a7 /\ s[8] = a8 /\ s[9] = a9 /\ s[10] = a10 /\ s[11] = a11
  OBVIOUS
<1>2. TwoOf(X, u) /\ TwoOf(X, z) /\ u[1] = b1 /\ u[2] = b2 /\ z[1] = c1 /\ z[2] = c2
  BY DEF TwoOf
<1> HIDE DEF X, s, u, z
<1>3. /\ v \in Seq(X) /\ Len(v) = Len(s) + 2
      /\ \A i \in 1 .. Len(s) : v[i] = s[i]
      /\ v[Len(s) + 1] = u[1] /\ v[Len(s) + 2] = u[2]
  <2>1. s \in Seq(X) /\ TwoOf(X, u)
    BY <1>1, <1>2
  <2> QED
    BY <2>1, TwoMore
<1> HIDE DEF v
<1>4. /\ w \in Seq(X) /\ Len(w) = Len(v) + 2
      /\ \A i \in 1 .. Len(v) : w[i] = v[i]
      /\ w[Len(v) + 1] = z[1] /\ w[Len(v) + 2] = z[2]
  BY <1>2, <1>3, TwoMore
<1> HIDE DEF w
<1>5. /\ Len(v) = 13 /\ Len(w) = 15 /\ DOMAIN w = 1 .. 15
      /\ \A i \in 1 .. 11 : v[i] = s[i]
      /\ \A i \in 1 .. 13 : w[i] = v[i]
      /\ v[12] = b1 /\ v[13] = b2 /\ w[14] = c1 /\ w[15] = c2
  BY <1>1, <1>2, <1>3, <1>4
<1> QED
  BY <1>1, <1>5 DEF w, v, s, u, z

(* The bytes of a log that is paid out, and where its fields are in them.  *)
Written(tl) ==
  Fields(tl) \o PayoutFields(207, 223, tl.payouts["Cycles"])
             \o PayoutFields(215, 224, tl.payouts["Token"])
Dust(payout) == IF payout.did_transfer THEN 0 ELSE 1
FeeKept(payout) == AsU64(payout.ledger_transfer_fee)

LEMMA WrittenIs ==
  ASSUME NEW tl, NEW c, NEW t, tl.payouts = [Cycles |-> c, Token |-> t], c # None, t # None
  PROVE  LET w == Written(tl)
         IN /\ DOMAIN w = 1 .. 15
            /\ w[1] = Field(0, 2, STABLE_MEMORY_VERSION)
            /\ w[2] = Field(2, 18, tl.matchee) /\ w[3] = Field(18, 34, tl.id)
            /\ w[4] = Field(94, 110, tl.tokens) /\ w[5] = Field(110, 126, tl.cycles)
            /\ w[6] = Field(126, 142, tl.rate) /\ w[7] = Field(142, 143, KindByte(tl.kind))
            /\ w[8] = Field(143, 159, tl.time) /\ w[9] = Field(159, 175, tl.tokens_payout_fee)
            /\ w[10] = Field(175, 191, tl.cycles_payout_fee)
            /\ w[11] = Field(191, 207, tl.matcher)
            /\ w[12] = Field(207, 215, FeeKept(c)) /\ w[13] = Field(223, 224, Dust(c))
            /\ w[14] = Field(215, 223, FeeKept(t)) /\ w[15] = Field(224, 225, Dust(t))
<1>1. tl.payouts["Cycles"] = c /\ tl.payouts["Token"] = t
  OBVIOUS
<1>2. /\ PayoutFields(207, 223, c) = <<Field(207, 215, FeeKept(c)), Field(223, 224, Dust(c))>>
      /\ PayoutFields(215, 224, t) = <<Field(215, 223, FeeKept(t)), Field(224, 225, Dust(t))>>
  <2>1. 207 + 8 = 215 /\ 223 + 1 = 224 /\ 215 + 8 = 223 /\ 224 + 1 = 225
    OBVIOUS
  <2> QED
    BY <2>1 DEF PayoutFields, Dust, FeeKept
<1>3. Written(tl) = Fields(tl)
        \o <<Field(207, 215, FeeKept(c)), Field(223, 224, Dust(c))>>
        \o <<Field(215, 223, FeeKept(t)), Field(224, 225, Dust(t))>>
  <2>1. Written(tl) = Fields(tl) \o PayoutFields(207, 223, c) \o PayoutFields(215, 224, t)
    BY <1>1, Zenon DEF Written
  <2> DEFINE x == PayoutFields(207, 223, c)
             y == PayoutFields(215, 224, t)
             xs == <<Field(207, 215, FeeKept(c)), Field(223, 224, Dust(c))>>
             ys == <<Field(215, 223, FeeKept(t)), Field(224, 225, Dust(t))>>
             fields == Fields(tl)
  <2>2. x = xs /\ y = ys /\ Written(tl) = fields \o x \o y
    BY <1>2, <2>1, Zenon
  <2>3. Written(tl) = fields \o xs \o ys
    <3> HIDE DEF x, y, xs, ys, fields
    <3> QED
      BY <2>2, Zenon
  <2> QED
    BY <2>3, Zenon
<1> QED
  BY <1>3, ThreeParts DEF Fields

(* The ranges of a written log. *)
From == <<0, 2, 18, 94, 110, 126, 142, 143, 159, 175, 191, 207, 223, 215, 224>>
Upto == <<2, 18, 34, 110, 126, 142, 143, 159, 175, 191, 207, 215, 224, 223, 225>>

LEMMA Disjoint ==
  ASSUME NEW i \in 1 .. 15, NEW j \in 1 .. 15, i # j
  PROVE  /\ From[i] \in Nat /\ Upto[i] \in Nat /\ From[i] < Upto[i] /\ Upto[i] <= 225
         /\ Upto[i] <= From[j] \/ Upto[j] <= From[i]
<1>1. /\ i = 1 \/ i = 2 \/ i = 3 \/ i = 4 \/ i = 5 \/ i = 6 \/ i = 7 \/ i = 8 \/ i = 9 \/ i = 10
         \/ i = 11 \/ i = 12 \/ i = 13 \/ i = 14 \/ i = 15
      /\ j = 1 \/ j = 2 \/ j = 3 \/ j = 4 \/ j = 5 \/ j = 6 \/ j = 7 \/ j = 8 \/ j = 9 \/ j = 10
         \/ j = 11 \/ j = 12 \/ j = 13 \/ j = 14 \/ j = 15
  OBVIOUS
<1> QED
  BY <1>1 DEF From, Upto

Ranged(w) == DOMAIN w = 1 .. 15 /\ \A j \in 1 .. 15 : w[j].from = From[j] /\ w[j].till = Upto[j]

LEMMA RangedReads ==
  ASSUME NEW w, Ranged(w), NEW j \in 1 .. 15
  PROVE  read(Layout(225, w), From[j], Upto[j]) = w[j].value
<1>1. /\ DOMAIN w = 1 .. 15
      /\ \A i \in 1 .. 15 : w[i].from = From[i] /\ w[i].till = Upto[i]
  BY DEF Ranged
<1>2. PICK m \in 1 .. 15 : m # j
  <2>1. (1 # j \/ 2 # j) /\ 1 \in 1 .. 15 /\ 2 \in 1 .. 15
    OBVIOUS
  <2> QED
    BY <2>1
<1>3. From[j] \in Nat /\ Upto[j] \in Nat /\ From[j] < Upto[j] /\ Upto[j] <= 225
  BY <1>2, Disjoint
<1>4. ASSUME NEW i \in 1 .. 15, NEW at \in 0 .. 225 - 1, i # j, From[j] <= at, at < Upto[j],
             From[i] <= at, at < Upto[i]
      PROVE  FALSE
  <2>1. Upto[i] <= From[j] \/ Upto[j] <= From[i]
    BY <1>4, Disjoint
  <2>2. From[i] \in Nat /\ Upto[i] \in Nat
    BY <1>4, Disjoint
  <2>3. at \in Int
    OBVIOUS
  <2> QED
    BY <1>3, <1>4, <2>1, <2>2, <2>3
<1>5. Alone(225, w, j)
  <2>1. \A i \in 1 .. 15 : \A at \in 0 .. 225 - 1 :
          i # j /\ From[j] <= at /\ at < Upto[j] => ~(From[i] <= at /\ at < Upto[i])
    BY <1>4
  <2> DEFINE fr == w[j].from
             up == w[j].till
  <2>2. fr = From[j] /\ up = Upto[j]
    BY <1>1
  <2> HIDE DEF fr, up
  <2>3. ASSUME NEW i \in DOMAIN w, NEW at \in 0 .. 225 - 1, i # j /\ fr <= at /\ at < up
        PROVE  ~(w[i].from <= at /\ at < w[i].till)
    <3>1. i \in 1 .. 15 /\ w[i].from = From[i] /\ w[i].till = Upto[i]
      BY <1>1
    <3>2. ~(From[i] <= at /\ at < Upto[i])
      BY <2>1, <2>2, <2>3, <3>1
    <3> QED
      BY <3>1, <3>2
  <2>4. j \in DOMAIN w /\ DOMAIN w \subseteq Nat /\ fr \in Nat /\ up \in Nat /\ fr < up /\ up <= 225
    BY <1>1, <1>3, <2>2
  <2> QED
    BY <2>3, <2>4 DEF Alone, fr, up
<1>6. read(Layout(225, w), w[j].from, w[j].till) = w[j].value
  BY <1>5, ReadsField
<1> QED
  BY <1>1, <1>6

LEMMA LogReads ==
  ASSUME NEW tl, NEW c, NEW t, tl.payouts = [Cycles |-> c, Token |-> t], c # None, t # None
  PROVE  LET b == stable_memory_serialize(tl)
         IN /\ read(b, 2, 18) = tl.matchee /\ read(b, 18, 34) = tl.id
            /\ read(b, 94, 110) = tl.tokens /\ read(b, 110, 126) = tl.cycles
            /\ read(b, 126, 142) = tl.rate /\ read(b, 142, 143) = KindByte(tl.kind)
            /\ read(b, 143, 159) = tl.time
            /\ read(b, 159, 175) = tl.tokens_payout_fee /\ read(b, 175, 191) = tl.cycles_payout_fee
            /\ read(b, 191, 207) = tl.matcher
            /\ read(b, 207, 215) = FeeKept(c) /\ read(b, 223, 224) = Dust(c)
            /\ read(b, 215, 223) = FeeKept(t) /\ read(b, 224, 225) = Dust(t)
<1> DEFINE w == Written(tl)
           b == Layout(225, w)
<1>1. stable_memory_serialize(tl) = b
  BY DEF stable_memory_serialize, Written
<1>2. /\ DOMAIN w = 1 .. 15
      /\ w[1] = Field(0, 2, STABLE_MEMORY_VERSION)
      /\ w[2] = Field(2, 18, tl.matchee) /\ w[3] = Field(18, 34, tl.id)
      /\ w[4] = Field(94, 110, tl.tokens) /\ w[5] = Field(110, 126, tl.cycles)
      /\ w[6] = Field(126, 142, tl.rate) /\ w[7] = Field(142, 143, KindByte(tl.kind))
      /\ w[8] = Field(143, 159, tl.time) /\ w[9] = Field(159, 175, tl.tokens_payout_fee)
      /\ w[10] = Field(175, 191, tl.cycles_payout_fee)
      /\ w[11] = Field(191, 207, tl.matcher)
      /\ w[12] = Field(207, 215, FeeKept(c)) /\ w[13] = Field(223, 224, Dust(c))
      /\ w[14] = Field(215, 223, FeeKept(t)) /\ w[15] = Field(224, 225, Dust(t))
  BY WrittenIs
<1> HIDE DEF w
<1>3. Ranged(w)
  <2>1. ASSUME NEW j \in 1 .. 15 PROVE w[j].from = From[j] /\ w[j].till = Upto[j]
    <3>1. j = 1 \/ j = 2 \/ j = 3 \/ j = 4 \/ j = 5 \/ j = 6 \/ j = 7 \/ j = 8 \/ j = 9 \/ j = 10
            \/ j = 11 \/ j = 12 \/ j = 13 \/ j = 14 \/ j = 15
      OBVIOUS
    <3> QED
      BY <1>2, <3>1 DEF From, Upto, Field
  <2> QED
    BY <1>2, <2>1 DEF Ranged
<1>4. \A j \in 1 .. 15 : read(b, From[j], Upto[j]) = w[j].value
  BY <1>3, RangedReads
<1> HIDE DEF b
<1>5. /\ read(b, 2, 18) = w[2].value /\ read(b, 18, 34) = w[3].value
      /\ read(b, 94, 110) = w[4].value /\ read(b, 110, 126) = w[5].value
      /\ read(b, 126, 142) = w[6].value /\ read(b, 142, 143) = w[7].value
      /\ read(b, 143, 159) = w[8].value /\ read(b, 159, 175) = w[9].value
      /\ read(b, 175, 191) = w[10].value /\ read(b, 191, 207) = w[11].value
      /\ read(b, 207, 215) = w[12].value /\ read(b, 223, 224) = w[13].value
      /\ read(b, 215, 223) = w[14].value /\ read(b, 224, 225) = w[15].value
  BY <1>4 DEF From, Upto
<1> QED
  BY <1>1, <1>2, <1>5 DEF Field

(* What the eight bytes give of a fee. *)
LEMMA FeeReads ==
  ASSUME NEW fee \in Nat
  PROVE  /\ AsU64(fee) = fee % U64
         /\ fee \in 1 .. U64 - 1 => fee % U64 = fee
         /\ fee \notin 1 .. U64 - 1 /\ fee < U64 => fee % U64 = 0
<1> DEFINE q == fee \div U64
           r == fee % U64
           M == U64
<1>1. M \in Nat /\ M > 0
  BY LogBytesAssumption
<1>2. r \in 0 .. M - 1 /\ q \in Nat /\ fee = (M * q) + r
  BY <1>1
<1>3. fee < M => r = fee
  <2> HIDE DEF q, r, M
  <2> SUFFICES ASSUME fee < M PROVE r = fee
    OBVIOUS
  <2>1. q = 0
    <3> SUFFICES ASSUME q >= 1 PROVE FALSE
      BY <1>2
    <3>1. M * q = M + (M * (q - 1)) /\ q - 1 \in Nat
      BY <1>1, <1>2
    <3>2. M * (q - 1) \in Nat
      BY <1>1, <3>1
    <3> QED
      BY <1>1, <1>2, <3>1, <3>2
  <2>2. M * q = 0
    BY <1>1, <2>1
  <2> QED
    BY <1>2, <2>2
<1> HIDE DEF q, r
<1>4. (fee \in 1 .. M - 1 => r = fee) /\ (fee \notin 1 .. M - 1 /\ fee < M => r = 0)
  BY <1>1, <1>3
<1> QED
  BY <1>4 DEF AsU64, r

LEMMA ReadsBack ==
  ASSUME NEW tl \in LogWith(PaidOut)
  PROVE  LET b == stable_memory_serialize(tl)
         IN /\ stable_memory_serialize_backwards(b) =
                 [tl EXCEPT !.payouts = [k \in {"Cycles", "Token"} |-> ReadBack(tl.payouts[k])]]
            /\ log_id_of_the_log_serialization(b) = tl.id
            /\ index_keys_of_the_log_serialization(b) = Keys(tl)
            /\ <<tokens_quantity_of_the_log_serialization(b), rate_of_the_log_serialization(b),
                 timestamp_nanos_of_the_log_serialization(b)>> = <<tl.tokens, tl.rate, tl.time>>
<1> DEFINE b == stable_memory_serialize(tl)
           c == tl.payouts["Cycles"]
           t == tl.payouts["Token"]
<1>1. /\ tl.payouts = [Cycles |-> c, Token |-> t] /\ c \in Payout /\ t \in Payout
  BY DEF LogWith, PaidOut
<1>2. c # None /\ t # None
  BY <1>1, TradeViewsAssumption DEF Payout
<1>3. /\ read(b, 2, 18) = tl.matchee /\ read(b, 18, 34) = tl.id
      /\ read(b, 94, 110) = tl.tokens /\ read(b, 110, 126) = tl.cycles
      /\ read(b, 126, 142) = tl.rate /\ read(b, 142, 143) = KindByte(tl.kind)
      /\ read(b, 143, 159) = tl.time
      /\ read(b, 159, 175) = tl.tokens_payout_fee /\ read(b, 175, 191) = tl.cycles_payout_fee
      /\ read(b, 191, 207) = tl.matcher
      /\ read(b, 207, 215) = FeeKept(c) /\ read(b, 223, 224) = Dust(c)
      /\ read(b, 215, 223) = FeeKept(t) /\ read(b, 224, 225) = Dust(t)
  <2> HIDE DEF c, t
  <2> QED
    BY <1>1, <1>2, LogReads
<1> HIDE DEF b
<1>4. /\ PayoutRead(b, 207, 223) = ReadBack(c) /\ PayoutRead(b, 215, 224) = ReadBack(t)
  <2> HIDE DEF c, t
  <2>1. ASSUME NEW p \in Payout, NEW at, NEW flag,
               read(b, at, at + 8) = FeeKept(p), read(b, flag, flag + 1) = Dust(p)
        PROVE  PayoutRead(b, at, flag) = ReadBack(p)
    <3> DEFINE fee == p.ledger_transfer_fee
               did == p.did_transfer
               kept == fee % U64
    <3>1. p = [did_transfer |-> did, ledger_transfer_fee |-> fee] /\ did \in BOOLEAN /\ fee \in Nat
      BY DEF Payout
    <3>2. (Dust(p) = 0) = did
      BY <3>1 DEF Dust
    <3>3. FeeKept(p) = kept /\ (fee \in 1 .. U64 - 1 => kept = fee /\ fee # 0)
      BY <3>1, FeeReads, LogBytesAssumption DEF FeeKept
    <3>4. PayoutRead(b, at, flag) =
            IF kept = 0 THEN None ELSE [did_transfer |-> did, ledger_transfer_fee |-> kept]
      BY <2>1, <3>2, <3>3 DEF PayoutRead
    <3>5. ReadBack(p) = CASE fee \in 1 .. U64 - 1 -> p
                          [] kept = 0 -> None
                          [] OTHER -> [p EXCEPT !.ledger_transfer_fee = kept]
      BY DEF ReadBack
    <3>6. [p EXCEPT !.ledger_transfer_fee = kept] = [did_transfer |-> did, ledger_transfer_fee |-> kept]
      <4> HIDE DEF kept, fee, did
      <4> QED
        BY <3>1
    <3> HIDE DEF kept, fee, did
    <3>7. CASE fee \in 1 .. U64 - 1
      <4>1. kept = fee /\ kept # 0
        BY <3>3, <3>7
      <4>2. ReadBack(p) = p
        BY <3>5, <3>7, <4>1
      <4> QED
        BY <3>1, <3>4, <4>1, <4>2
    <3>8. CASE fee \notin 1 .. U64 - 1
      BY <3>4, <3>5, <3>6, <3>8
    <3> QED
      BY <3>7, <3>8
  <2>2. 207 + 8 = 215 /\ 223 + 1 = 224 /\ 215 + 8 = 223 /\ 224 + 1 = 225
    OBVIOUS
  <2> QED
    BY <1>1, <1>3, <2>1, <2>2
<1> DEFINE kept == [k \in {"Cycles", "Token"} |-> ReadBack(tl.payouts[k])]
<1>5. [Cycles |-> ReadBack(c), Token |-> ReadBack(t)] = kept
  OBVIOUS
<1>6. stable_memory_serialize_backwards(b) = [tl EXCEPT !.payouts = kept]
  <2> HIDE DEF kept, c, t
  <2>1. stable_memory_serialize_backwards(b) =
          [matchee |-> tl.matchee, id |-> tl.id, tokens |-> tl.tokens, cycles |-> tl.cycles,
           rate |-> tl.rate, kind |-> tl.kind, time |-> tl.time, tokens_payout_fee |-> tl.tokens_payout_fee,
           cycles_payout_fee |-> tl.cycles_payout_fee, matcher |-> tl.matcher, payouts |-> kept]
    <3>1. (IF read(b, 142, 143) = 0 THEN "Cycles" ELSE "Token") = tl.kind
      <4>1. tl.kind = "Cycles" \/ tl.kind = "Token"
        BY DEF LogWith
      <4> QED
        BY <1>3, <4>1 DEF KindByte
    <3> QED
      BY <1>3, <1>4, <1>5, <3>1 DEF stable_memory_serialize_backwards
  <2> QED
    BY <2>1 DEF LogWith
<1>7. /\ log_id_of_the_log_serialization(b) = tl.id
      /\ index_keys_of_the_log_serialization(b) = Keys(tl)
      /\ tokens_quantity_of_the_log_serialization(b) = tl.tokens
      /\ rate_of_the_log_serialization(b) = tl.rate
      /\ timestamp_nanos_of_the_log_serialization(b) = tl.time
  BY <1>3 DEF log_id_of_the_log_serialization, index_keys_of_the_log_serialization, Keys,
              tokens_quantity_of_the_log_serialization, rate_of_the_log_serialization,
              timestamp_nanos_of_the_log_serialization
<1> QED
  BY <1>6, <1>7 DEF b

LEMMA LogsRead == LogsInv => LogsReadBack
<1> SUFFICES ASSUME LogsInv, NEW n \in DOMAIN storage_buffer
             PROVE  storage_buffer[n] \in LogWith(PaidOut)
  BY ReadsBack DEF LogsReadBack
<1>1. /\ trades \in Seq(LogWith(NotPaid)) /\ Len(trades) \in Nat /\ Len(trades) <= MaxTrades
      /\ storage_buffer \in Seq(TradeLog) /\ trade_logs \in Seq(TradeLog) /\ Taken \in Nat
      /\ MaxTrades \in Nat
  BY TradeViewsAssumption DEF LogsInv, MadeOK, PlacesOK
<1>2. n \in 1 .. Len(storage_buffer) /\ Taken + n \in 1 .. Len(trades) /\ (Taken + n) - 1 < MaxTrades
  BY <1>1 DEF Taken
<1>3. /\ storage_buffer[n] = Paid(trades[Taken + n]) /\ trades[Taken + n].id = (Taken + n) - 1
      /\ trades[Taken + n] \in LogWith(NotPaid)
  BY <1>1, <1>2 DEF LogsInv, MadeOK, PlacesOK
<1> QED
  BY <1>2, <1>3, PaidLog

(* A log in the buffer reads back from its bytes as it was written, and    *)
(* the views read its fields at their places.                              *)
THEOREM LogsAreReadBack == ViewsSpec => []LogsReadBack
  BY LogsInvariant, LogsRead, PTL

----------------------------------------------------------------------------
(* The candles *)

LEMMA Multiples ==
  ASSUME NEW M \in Nat \ {0}, NEW p \in Nat, NEW q \in Nat, p < q
  PROVE  (p * M) + M <= q * M
<1>1. q - p - 1 \in Nat /\ (q - p - 1) * M >= 0
  OBVIOUS
<1>2. (q - p - 1) * M = (q * M) - (p * M) - M
  OBVIOUS
<1> QED
  BY <1>1, <1>2

MultipleAt(q, a, st, M) == st = q * M /\ st <= a /\ a < st + M

LEMMA StartAt ==
  ASSUME NEW a \in Nat
  PROVE  \E q \in Nat : MultipleAt(q, a, segment_start(a), Minute)
<1> DEFINE M == Minute
           q == a \div M
<1>0. M \in Nat /\ M > 0
  BY TradeViewsAssumption
<1> HIDE DEF M
<1>1. a % M \in 0 .. M - 1 /\ q \in Nat /\ a = (M * q) + (a % M)
  BY <1>0
<1>2. M * q = q * M /\ q * M \in Nat
  BY <1>0, <1>1
<1>3. segment_start(a) = a - (a % M)
  BY DEF segment_start, M
<1> DEFINE r == a % M
           p == q * M
<1>4. /\ r \in Nat /\ r <= M - 1 /\ a = p + r /\ p \in Nat /\ segment_start(a) = a - r
  BY <1>0, <1>1, <1>2, <1>3
<1>5. segment_start(a) = p /\ p <= a /\ a < p + M
  <2> HIDE DEF p, r
  <2> QED
    BY <1>0, <1>4
<1> QED
  BY <1>1, <1>5 DEF MultipleAt, M

(* The start of the minute, and when it is over. *)
LEMMA StartIs ==
  ASSUME NEW a \in Nat, NEW b \in Nat
  PROVE  /\ segment_start(a) \in Nat /\ segment_start(a) <= a
         /\ a <= b => segment_start(a) <= segment_start(b)
         /\ segment_start(a) < segment_start(b) <=> segment_start(a) + Minute <= b
<1> DEFINE M == Minute
           sa == segment_start(a)
           sb == segment_start(b)
<1>0. M \in Nat /\ M > 0
  BY TradeViewsAssumption
<1>1. PICK p \in Nat : MultipleAt(p, a, sa, M)
  BY StartAt
<1>2. PICK q \in Nat : MultipleAt(q, b, sb, M)
  BY StartAt
<1> HIDE DEF sa, sb, M
<1>3. sa = p * M /\ sa <= a /\ a < sa + M /\ sb = q * M /\ sb <= b /\ b < sb + M
  BY <1>1, <1>2 DEF MultipleAt
<1>4. sa \in Nat /\ sb \in Nat
  BY <1>0, <1>3
<1> DEFINE G == /\ sa \in Nat /\ sa <= a
                /\ a <= b => sa <= sb
                /\ sa < sb <=> sa + M <= b
<1>5. p = q => G
  BY <1>0, <1>3, <1>4
<1>6. ASSUME p < q PROVE G
  <2>1. sa + M <= sb
    BY <1>0, <1>3, <1>6, Multiples
  <2> QED
    BY <1>0, <1>3, <1>4, <2>1
<1>7. ASSUME q < p PROVE G
  <2>1. sb + M <= sa
    BY <1>0, <1>3, <1>7, Multiples
  <2> QED
    BY <1>0, <1>3, <1>4, <2>1
<1>8. G
  <2>1. p = q \/ p < q \/ q < p
    OBVIOUS
  <2> HIDE DEF G
  <2> QED
    BY <1>5, <1>6, <1>7, <2>1
<1> QED
  BY <1>8 DEF sa, sb, M

----------------------------------------------------------------------------
(* Volumes *)

Plus(v, x) == [cycles |-> v.cycles + x.cycles, tokens |-> v.tokens + x.tokens]
Counts(x) == x.cycles \in Nat /\ x.tokens \in Nat
Counted(s, n) == n \in Nat /\ DOMAIN s = 1 .. n /\ \A i \in 1 .. n : Counts(s[i])

Within(S, n) == n \in Nat /\ S \subseteq 1 .. n

LEMMA FiniteWithin ==
  ASSUME NEW S, NEW n, Within(S, n)
  PROVE  IsFiniteSet(S)
<1>1. IsFiniteSet(1 .. n)
  BY FS_Interval DEF Within
<1> QED
  BY <1>1, FS_Subset DEF Within

(* Sequences that agree on the places count the same there. *)
Agree(s, u, n, m, S) == Counted(s, n) /\ Counted(u, m) /\ Within(S, n) /\ Within(S, m)
                          /\ \A i \in S : s[i] = u[i]
LEMMA VolumeSame ==
  ASSUME NEW s, NEW u, NEW n, NEW m, NEW S, Agree(s, u, n, m, S)
  PROVE  VolumeOf(u, S) = VolumeOf(s, S)
<1> DEFINE sc == [i \in DOMAIN s |-> s[i].cycles]
           st == [i \in DOMAIN s |-> s[i].tokens]
           uc == [i \in DOMAIN u |-> u[i].cycles]
           ut == [i \in DOMAIN u |-> u[i].tokens]
<1>1. IsFiniteSet(S)
  BY FiniteWithin DEF Agree, Counted, Within
<1>2. \A i \in S : uc[i] = sc[i] /\ ut[i] = st[i]
  BY DEF Agree, Counted, Within
<1>3. SumFunctionOnSet(uc, S) = SumFunctionOnSet(sc, S)
  <2> HIDE DEF uc, sc
  <2> QED
    BY <1>1, <1>2, SumSame
<1>4. SumFunctionOnSet(ut, S) = SumFunctionOnSet(st, S)
  <2> HIDE DEF ut, st
  <2> QED
    BY <1>1, <1>2, SumSame
<1> QED
  BY <1>3, <1>4 DEF VolumeOf

(* One more at the place p counts for what it has. *)
LEMMA VolumeOneMore ==
  ASSUME NEW s, NEW n, NEW S, Counted(s, n), Within(S, n), NEW p \in 1 .. n, p \notin S
  PROVE  VolumeOf(s, S \cup {p}) = Plus(VolumeOf(s, S), s[p])
<1> DEFINE c == [i \in DOMAIN s |-> s[i].cycles]
           t == [i \in DOMAIN s |-> s[i].tokens]
<1>1. IsFiniteSet(S)
  BY FiniteWithin
<1>2. \A i \in S \cup {p} : c[i] \in Int /\ t[i] \in Int
  BY DEF Counted, Counts, Within
<1>3. c[p] = s[p].cycles /\ t[p] = s[p].tokens
  BY DEF Counted
<1>4. SumFunctionOnSet(c, S \cup {p}) = SumFunctionOnSet(c, S) + c[p]
  <2> HIDE DEF c
  <2> QED
    BY <1>1, <1>2, SumAdd
<1>5. SumFunctionOnSet(t, S \cup {p}) = SumFunctionOnSet(t, S) + t[p]
  <2> HIDE DEF t
  <2> QED
    BY <1>1, <1>2, SumAdd
<1> QED
  BY <1>3, <1>4, <1>5 DEF VolumeOf, Plus

LEMMA VolumeNat ==
  ASSUME NEW s, NEW n, NEW S, Counted(s, n), Within(S, n)
  PROVE  Counts(VolumeOf(s, S))
<1> DEFINE c == [i \in DOMAIN s |-> s[i].cycles]
           t == [i \in DOMAIN s |-> s[i].tokens]
<1>1. IsFiniteSet(S)
  BY FiniteWithin
<1>2. \A i \in S : c[i] \in Nat /\ t[i] \in Nat
  BY DEF Counted, Counts, Within
<1>3. SumFunctionOnSet(c, S) \in Nat
  <2> HIDE DEF c
  <2> QED
    BY <1>1, <1>2, SumNat
<1>4. SumFunctionOnSet(t, S) \in Nat
  <2> HIDE DEF t
  <2> QED
    BY <1>1, <1>2, SumNat
<1> QED
  BY <1>3, <1>4 DEF VolumeOf, Counts

LEMMA VolumeNone ==
  ASSUME NEW s
  PROVE  VolumeOf(s, {}) = [cycles |-> 0, tokens |-> 0]
BY SumEmpty DEF VolumeOf

(* A place that has x more than before counts for x more. *)
LEMMA VolumeGrows ==
  ASSUME NEW s, NEW u, NEW n, NEW S, Counted(s, n), Counted(u, n), Within(S, n), NEW p \in S,
         NEW x, Counts(x), \A i \in S \ {p} : u[i] = s[i],
         u[p].cycles = s[p].cycles + x.cycles, u[p].tokens = s[p].tokens + x.tokens
  PROVE  VolumeOf(u, S) = Plus(VolumeOf(s, S), x)
<1> DEFINE R == S \ {p}
<1>1. S = R \cup {p} /\ Within(R, n) /\ p \in 1 .. n /\ p \notin R
  BY DEF Within
<1>2. \A i \in R : u[i] = s[i]
  OBVIOUS
<1> HIDE DEF R
<1>3. Agree(s, u, n, n, R)
  BY <1>1, <1>2 DEF Agree
<1>4. VolumeOf(u, R) = VolumeOf(s, R)
  BY <1>3, VolumeSame
<1>5. VolumeOf(u, S) = Plus(VolumeOf(s, R), u[p])
  <2>1. VolumeOf(u, R \cup {p}) = Plus(VolumeOf(u, R), u[p])
    BY <1>1, VolumeOneMore
  <2> QED
    BY <1>1, <1>4, <2>1
<1>6. VolumeOf(s, S) = Plus(VolumeOf(s, R), s[p])
  <2>1. VolumeOf(s, R \cup {p}) = Plus(VolumeOf(s, R), s[p])
    BY <1>1, VolumeOneMore
  <2> QED
    BY <1>1, <2>1
<1>7. Counts(VolumeOf(s, R)) /\ Counts(s[p]) /\ Counts(x)
  BY <1>1, VolumeNat DEF Counted
<1> HIDE DEF R
<1> QED
  BY <1>5, <1>6, <1>7 DEF Plus, Counts

(* The trades of a minute, and those of the minutes from x on. *)
InMinute(tr, n, t) == {i \in 1 .. n : segment_start(tr[i].time) = t}
MinutesSince(tr, n, x) == {i \in 1 .. n : segment_start(tr[i].time) >= x}
CandlesSince(s, m, x) == {i \in 1 .. m : s[i].time >= x}

Opens(c, tr, S)  == \E p \in S : c.open = tr[p].rate /\ \A i \in S : p <= i
Closes(c, tr, S) == \E p \in S : c.close = tr[p].rate /\ \A i \in S : i <= p
Tops(c, tr, S)   == \E p \in S : c.high = tr[p].rate /\ \A i \in S : tr[i].rate <= c.high
Bottoms(c, tr, S) == \E p \in S : c.low = tr[p].rate /\ \A i \in S : c.low <= tr[i].rate
(* A candle tells what the trades at the places S were. *)
Tells(c, tr, S) ==
  /\ Opens(c, tr, S) /\ Closes(c, tr, S) /\ Tops(c, tr, S) /\ Bottoms(c, tr, S)
  /\ [cycles |-> c.cycles, tokens |-> c.tokens] = VolumeOf(tr, S)

Candle == [time : Nat, cycles : Nat, tokens : Nat, open : Rate, high : Rate, low : Rate, close : Rate]
(* Each minute with trades has one candle, in order. *)
CandlesOf(s, m, tr, n) ==
  /\ m \in Nat /\ s \in [1 .. m -> Candle]
  /\ \A i, j \in 1 .. m : i < j => s[i].time < s[j].time
  /\ \A i \in 1 .. m : Tells(s[i], tr, InMinute(tr, n, s[i].time))
  /\ \A i \in 1 .. n : \E j \in 1 .. m : s[j].time = segment_start(tr[i].time)
  /\ \A x \in Nat : VolumeOf(s, CandlesSince(s, m, x)) = VolumeOf(tr, MinutesSince(tr, n, x))

(* The inductive invariant of the candle counter.                          *)
CandlesOK ==
  /\ CandlesOf(segments_1_minute, Len(segments_1_minute), trades, Len(trades))
  /\ volume = VolumeOf(trades, 1 .. Len(trades))

(* n trades, one more of them at n + 1, none of them later than it. *)
OneMore(tr, n, tn, tl) ==
  /\ n \in Nat /\ tl \in LogWith(NotPaid)
  /\ tr \in [1 .. n -> LogWith(NotPaid)] /\ tn \in [1 .. n + 1 -> LogWith(NotPaid)]
  /\ \A i \in 1 .. n : tn[i] = tr[i] /\ tr[i].time <= tl.time
  /\ tn[n + 1] = tl

LEMMA TradeFields ==
  ASSUME NEW tx \in LogWith(NotPaid)
  PROVE  tx.rate \in Rate /\ tx.rate \in Nat /\ Counts(tx) /\ tx.time \in Nat
<1>1. tx.rate \in Rate /\ tx.tokens \in Tokens /\ tx.cycles \in Nat /\ tx.time \in Nat
  BY DEF LogWith
<1>2. Rate \subseteq Nat /\ Tokens \subseteq Nat
  BY TradeViewsAssumption
<1> QED
  BY <1>1, <1>2 DEF Counts

LEMMA MoreAgree ==
  ASSUME NEW tr, NEW n, NEW tn, NEW tl, OneMore(tr, n, tn, tl), NEW S, Within(S, n)
  PROVE  /\ VolumeOf(tn, S) = VolumeOf(tr, S)
         /\ VolumeOf(tn, S \cup {n + 1}) = Plus(VolumeOf(tr, S), tl)
<1>1. n \in Nat /\ n + 1 \in Nat /\ S \subseteq 1 .. n + 1 /\ n + 1 \in 1 .. n + 1 /\ n + 1 \notin S
  BY DEF OneMore, Within
<1>2. Counted(tr, n) /\ Counted(tn, n + 1)
  <2>1. \A tx \in LogWith(NotPaid) : Counts(tx)
    BY TradeFields
  <2> QED
    BY <1>1, <2>1 DEF OneMore, Counted
<1>3. Within(S, n + 1)
  BY <1>1 DEF Within
<1>4. VolumeOf(tn, S) = VolumeOf(tr, S)
  <2>1. Agree(tr, tn, n, n + 1, S)
    BY <1>1, <1>2, <1>3 DEF Agree, OneMore, Within
  <2> QED
    BY <2>1, VolumeSame
<1>5. VolumeOf(tn, S \cup {n + 1}) = Plus(VolumeOf(tn, S), tn[n + 1])
  <2> DEFINE q == n + 1
  <2>1. Counted(tn, q) /\ Within(S, q) /\ q \in 1 .. q /\ q \notin S
    BY <1>1, <1>2, <1>3
  <2> HIDE DEF q
  <2>2. VolumeOf(tn, S \cup {q}) = Plus(VolumeOf(tn, S), tn[q])
    BY <2>1, VolumeOneMore
  <2> QED
    BY <2>2 DEF q
<1> QED
  BY <1>4, <1>5 DEF OneMore

(* A candle of another minute tells the same. *)
LEMMA TellsStill ==
  ASSUME NEW tr, NEW n, NEW tn, NEW tl, OneMore(tr, n, tn, tl), NEW S, Within(S, n),
         NEW c, Tells(c, tr, S)
  PROVE  Tells(c, tn, S)
<1>1. \A i \in S : tn[i].rate = tr[i].rate
  BY DEF OneMore, Within
<1>2. /\ VolumeOf(tn, S) = VolumeOf(tr, S)
      /\ VolumeOf(tn, S \cup {n + 1}) = Plus(VolumeOf(tr, S), tl)
  BY MoreAgree
<1> QED
  BY <1>1, <1>2 DEF Tells, Opens, Closes, Tops, Bottoms

LEMMA TellsFirst ==
  ASSUME NEW tr, NEW n, NEW tn, NEW tl, OneMore(tr, n, tn, tl)
  PROVE  Tells(NewCandle(tl), tn, {n + 1})
<1>1. tn[n + 1] = tl /\ n + 1 \in Nat /\ tl \in LogWith(NotPaid)
  BY DEF OneMore
<1>11. tl.rate \in Nat /\ tl.cycles \in Nat /\ tl.tokens \in Nat
  BY <1>1, TradeFields DEF Counts
<1>2. VolumeOf(tn, {n + 1}) = Plus(VolumeOf(tr, {}), tl)
  <2> DEFINE S == {}
  <2>0. Within(S, n)
    BY DEF Within, OneMore
  <2> HIDE DEF S
  <2>1. VolumeOf(tn, S \cup {n + 1}) = Plus(VolumeOf(tr, S), tl)
    BY <2>0, MoreAgree
  <2> USE DEF S
  <2>2. {} \cup {n + 1} = {n + 1}
    OBVIOUS
  <2> QED
    BY <2>1, <2>2
<1>3. VolumeOf(tn, {n + 1}) = [cycles |-> tl.cycles, tokens |-> tl.tokens]
  BY <1>11, <1>2, VolumeNone DEF Plus
<1>4. /\ NewCandle(tl).open = tl.rate /\ NewCandle(tl).close = tl.rate
      /\ NewCandle(tl).high = tl.rate /\ NewCandle(tl).low = tl.rate
      /\ NewCandle(tl).cycles = tl.cycles /\ NewCandle(tl).tokens = tl.tokens
  BY DEF NewCandle
<1> QED
  BY <1>1, <1>11, <1>3, <1>4 DEF Tells, Opens, Closes, Tops, Bottoms

LEMMA TellsMore ==
  ASSUME NEW tr, NEW n, NEW tn, NEW tl, OneMore(tr, n, tn, tl), NEW S, Within(S, n),
         NEW c \in Candle, Tells(c, tr, S)
  PROVE  Tells(InCandle(c, tl), tn, S \cup {n + 1})
<1> DEFINE d == InCandle(c, tl)
           T == S \cup {n + 1}
<1>1. /\ d.open = c.open /\ d.close = tl.rate /\ d.cycles = c.cycles + tl.cycles
      /\ d.tokens = c.tokens + tl.tokens
      /\ d.high = Larger(c.high, tl.rate) /\ d.low = Smaller(c.low, tl.rate)
  BY DEF InCandle, Candle
<1>0. /\ n \in Nat /\ tl \in LogWith(NotPaid) /\ tn[n + 1] = tl
      /\ \A i \in S : tn[i] = tr[i] /\ tr[i] \in LogWith(NotPaid) /\ i \in Nat /\ i <= n
  BY DEF OneMore, Within
<1>2. /\ tl.rate \in Nat /\ tn[n + 1].rate = tl.rate
      /\ c.high \in Nat /\ c.low \in Nat
      /\ \A i \in S : tn[i].rate = tr[i].rate /\ tr[i].rate \in Nat
  <2>1. c.high \in Nat /\ c.low \in Nat
    BY TradeViewsAssumption DEF Candle
  <2> QED
    BY <1>0, <2>1, TradeFields
<1>3. \A i \in T : i \in S \/ i = n + 1
  OBVIOUS
<1>31. S \subseteq T /\ n + 1 \in T
  OBVIOUS
<1> HIDE DEF d, T
<1>4. Opens(d, tn, T)
  <2>1. PICK p \in S : c.open = tr[p].rate /\ \A i \in S : p <= i
    BY DEF Tells, Opens
  <2>3. p \in Nat /\ p <= n
    BY <1>0, <2>1
  <2>2. ASSUME NEW i \in T PROVE p <= i
    <3>1. CASE i = n + 1
      BY <1>0, <2>3, <3>1
    <3>2. CASE i \in S
      BY <2>1, <3>2
    <3> QED
      BY <1>3, <3>1, <3>2
  <2> QED
    BY <1>1, <1>2, <1>31, <2>1, <2>2 DEF Opens
<1>5. Closes(d, tn, T)
  <2>1. \A i \in T : i <= n + 1
    BY <1>0, <1>3
  <2> QED
    BY <1>1, <1>2, <1>31, <2>1 DEF Closes
<1>6. Tops(d, tn, T)
  <2>1. PICK p \in S : c.high = tr[p].rate /\ \A i \in S : tr[i].rate <= c.high
    BY DEF Tells, Tops
  <2>2. c.high <= d.high /\ tl.rate <= d.high /\ d.high \in Nat
    BY <1>1, <1>2 DEF Larger
  <2>3. ASSUME NEW i \in T PROVE tn[i].rate <= d.high
    <3>1. CASE i = n + 1
      BY <1>2, <2>2, <3>1
    <3>2. CASE i \in S
      BY <1>2, <2>1, <2>2, <3>2
    <3> QED
      BY <1>3, <3>1, <3>2
  <2>4. d.high = tn[p].rate \/ d.high = tn[n + 1].rate
    BY <1>1, <1>2, <2>1 DEF Larger
  <2> QED
    BY <1>31, <2>3, <2>4 DEF Tops
<1>7. Bottoms(d, tn, T)
  <2>1. PICK p \in S : c.low = tr[p].rate /\ \A i \in S : c.low <= tr[i].rate
    BY DEF Tells, Bottoms
  <2>2. d.low <= c.low /\ d.low <= tl.rate /\ d.low \in Nat
    BY <1>1, <1>2 DEF Smaller
  <2>3. ASSUME NEW i \in T PROVE d.low <= tn[i].rate
    <3>1. CASE i = n + 1
      BY <1>2, <2>2, <3>1
    <3>2. CASE i \in S
      BY <1>2, <2>1, <2>2, <3>2
    <3> QED
      BY <1>3, <3>1, <3>2
  <2>4. d.low = tn[p].rate \/ d.low = tn[n + 1].rate
    BY <1>1, <1>2, <2>1 DEF Smaller
  <2> QED
    BY <1>31, <2>3, <2>4 DEF Bottoms
<1>8. [cycles |-> d.cycles, tokens |-> d.tokens] = VolumeOf(tn, T)
  <2>1. VolumeOf(tn, T) = Plus(VolumeOf(tr, S), tl)
    BY MoreAgree DEF T
  <2>2. [cycles |-> c.cycles, tokens |-> c.tokens] = VolumeOf(tr, S)
    BY DEF Tells
  <2> QED
    BY <1>1, <2>1, <2>2 DEF Plus
<1>9. Tells(d, tn, T)
  BY <1>4, <1>5, <1>6, <1>7, <1>8 DEF Tells
<1> QED
  BY <1>9 DEF d, T

(* The minutes after one more trade. *)
LEMMA MinutesThen ==
  ASSUME NEW tr, NEW n, NEW tn, NEW tl, OneMore(tr, n, tn, tl), NEW x \in Nat
  PROVE  LET t == segment_start(tl.time)
         IN /\ t \in Nat
            /\ InMinute(tr, n, x) \subseteq 1 .. n /\ MinutesSince(tr, n, x) \subseteq 1 .. n
            /\ \A i \in 1 .. n : segment_start(tr[i].time) \in Nat /\ segment_start(tr[i].time) <= t
            /\ x # t => InMinute(tn, n + 1, x) = InMinute(tr, n, x)
            /\ InMinute(tn, n + 1, t) = InMinute(tr, n, t) \cup {n + 1}
            /\ x > t => MinutesSince(tn, n + 1, x) = MinutesSince(tr, n, x)
            /\ x <= t => MinutesSince(tn, n + 1, x) = MinutesSince(tr, n, x) \cup {n + 1}
<1> DEFINE t == segment_start(tl.time)
<1>1. tl.time \in Nat /\ \A i \in 1 .. n : tr[i].time \in Nat /\ tr[i].time <= tl.time
  BY DEF OneMore, LogWith
<1>2. t \in Nat /\ \A i \in 1 .. n : segment_start(tr[i].time) \in Nat /\ segment_start(tr[i].time) <= t
  BY <1>1, StartIs
<1>3. segment_start(tn[n + 1].time) = t /\ \A i \in 1 .. n : segment_start(tn[i].time) = segment_start(tr[i].time)
  BY DEF OneMore
<1>4. /\ n + 1 \in 1 .. n + 1 /\ \A i \in 1 .. n + 1 : i \in 1 .. n \/ i = n + 1
      /\ \A i \in 1 .. n : i \in 1 .. n + 1
  BY DEF OneMore
<1> HIDE DEF t
<1>5. InMinute(tr, n, x) \subseteq 1 .. n /\ MinutesSince(tr, n, x) \subseteq 1 .. n
  BY DEF InMinute, MinutesSince
<1>6. x # t => InMinute(tn, n + 1, x) = InMinute(tr, n, x)
  BY <1>3, <1>4 DEF InMinute
<1>7. InMinute(tn, n + 1, t) = InMinute(tr, n, t) \cup {n + 1}
  BY <1>3, <1>4 DEF InMinute
<1>8. x > t => MinutesSince(tn, n + 1, x) = MinutesSince(tr, n, x)
  BY <1>2, <1>3, <1>4 DEF MinutesSince
<1>9. x <= t => MinutesSince(tn, n + 1, x) = MinutesSince(tr, n, x) \cup {n + 1}
  BY <1>2, <1>3, <1>4 DEF MinutesSince
<1> QED
  BY <1>2, <1>5, <1>6, <1>7, <1>8, <1>9 DEF t

(* The candles of the trades so far are of their minutes, none later than  *)
(* the last trade's.                                                       *)
LEMMA CandlesSoFar ==
  ASSUME NEW s, NEW m, NEW tr, NEW n, CandlesOf(s, m, tr, n), NEW tn, NEW tl, OneMore(tr, n, tn, tl)
  PROVE  \A i \in 1 .. m : s[i].time \in Nat /\ s[i].time <= segment_start(tl.time)
<1> SUFFICES ASSUME NEW i \in 1 .. m
             PROVE  s[i].time \in Nat /\ s[i].time <= segment_start(tl.time)
  OBVIOUS
<1>1. s[i] \in Candle /\ Tells(s[i], tr, InMinute(tr, n, s[i].time))
  BY DEF CandlesOf
<1>2. PICK p \in InMinute(tr, n, s[i].time) : TRUE
  BY <1>1 DEF Tells, Opens
<1>3. p \in 1 .. n /\ segment_start(tr[p].time) = s[i].time
  BY <1>2 DEF InMinute
<1>4. tr[p] \in LogWith(NotPaid) /\ tl \in LogWith(NotPaid) /\ tr[p].time <= tl.time
  BY <1>3 DEF OneMore
<1>5. segment_start(tr[p].time) <= segment_start(tl.time)
  BY <1>4, StartIs, TradeFields
<1>6. s[i].time \in Nat
  BY <1>1 DEF Candle
<1> QED
  BY <1>3, <1>5, <1>6

(* The candles of the other minutes tell the trades after one more too.    *)
LEMMA OthersTell ==
  ASSUME NEW s, NEW m, NEW tr, NEW n, CandlesOf(s, m, tr, n), NEW tn, NEW tl, OneMore(tr, n, tn, tl),
         NEW i \in 1 .. m, s[i].time # segment_start(tl.time)
  PROVE  Tells(s[i], tn, InMinute(tn, n + 1, s[i].time))
<1> DEFINE S == InMinute(tr, n, s[i].time)
<1>1. Tells(s[i], tr, S) /\ s[i].time \in Nat
  BY DEF CandlesOf, Candle
<1>2. Within(S, n)
  BY DEF InMinute, Within, OneMore
<1>3. InMinute(tn, n + 1, s[i].time) = S
  BY <1>1, MinutesThen
<1> HIDE DEF S
<1>4. Tells(s[i], tn, S)
  BY <1>1, <1>2, TellsStill
<1> QED
  BY <1>3, <1>4

CountsSince(s, m, tr, n, x) ==
  VolumeOf(s, CandlesSince(s, m, x)) = VolumeOf(tr, MinutesSince(tr, n, x))

LEMMA CandlesCounted ==
  ASSUME NEW s, NEW m, NEW tr, NEW n, CandlesOf(s, m, tr, n)
  PROVE  Counted(s, m)
<1>1. \A c \in Candle : Counts(c)
  BY DEF Candle, Counts
<1> QED
  BY <1>1 DEF CandlesOf, Counted

NewMinute(s, m, sn, tl) ==
  /\ sn \in [1 .. m + 1 -> Candle]
  /\ \A i \in 1 .. m : sn[i] = s[i] /\ s[i].time < segment_start(tl.time)
  /\ sn[m + 1] = NewCandle(tl)

(* The first trade of a minute. *)
LEMMA FirstOfMinute ==
  ASSUME NEW s, NEW m, NEW tr, NEW n, CandlesOf(s, m, tr, n), NEW tn, NEW tl, OneMore(tr, n, tn, tl),
         NEW sn, NewMinute(s, m, sn, tl)
  PROVE  CandlesOf(sn, m + 1, tn, n + 1)
<1> DEFINE t == segment_start(tl.time)
           q == m + 1
<1>1. /\ m \in Nat /\ q \in Nat /\ s \in [1 .. m -> Candle] /\ q \in 1 .. q /\ q \notin 1 .. m
      /\ \A i \in 1 .. q : i \in 1 .. m \/ i = q
      /\ \A i \in 1 .. m : i \in 1 .. q /\ i < q
  BY DEF CandlesOf
<1>2. sn[q].time = t /\ t \in Nat /\ sn \in [1 .. q -> Candle] /\ tl \in LogWith(NotPaid)
  <2>1. tl \in LogWith(NotPaid)
    BY DEF OneMore
  <2>2. t \in Nat
    BY <2>1, StartIs, TradeFields
  <2> QED
    BY <2>1, <2>2 DEF NewMinute, NewCandle
<1>3. \A i \in 1 .. m : sn[i] = s[i] /\ s[i].time < t /\ s[i].time \in Nat
  BY CandlesSoFar DEF NewMinute
<1> HIDE DEF t
<1>4. \A i, j \in 1 .. q : i < j => sn[i].time < sn[j].time
  <2> SUFFICES ASSUME NEW i \in 1 .. q, NEW j \in 1 .. q, i < j PROVE sn[i].time < sn[j].time
    OBVIOUS
  <2>1. i \in 1 .. m
    BY <1>1
  <2>2. CASE j = q
    BY <1>2, <1>3, <2>1, <2>2
  <2>3. CASE j # q
    <3>1. j \in 1 .. m
      BY <1>1, <2>3
    <3>2. s[i].time < s[j].time
      BY <2>1, <3>1 DEF CandlesOf
    <3> QED
      BY <1>3, <2>1, <3>1, <3>2
  <2> QED
    BY <2>2, <2>3
<1>5. InMinute(tr, n, t) = {}
  <2> SUFFICES ASSUME NEW i \in InMinute(tr, n, t) PROVE FALSE
    OBVIOUS
  <2>1. i \in 1 .. n /\ segment_start(tr[i].time) = t
    BY DEF InMinute
  <2>2. PICK j \in 1 .. m : s[j].time = t
    BY <2>1 DEF CandlesOf
  <2> QED
    BY <1>2, <1>3, <2>2
<1>6. \A i \in 1 .. q : Tells(sn[i], tn, InMinute(tn, n + 1, sn[i].time))
  <2> SUFFICES ASSUME NEW i \in 1 .. q PROVE Tells(sn[i], tn, InMinute(tn, n + 1, sn[i].time))
    OBVIOUS
  <2>1. CASE i = q
    <3>1. InMinute(tn, n + 1, t) = {n + 1}
      BY <1>2, <1>5, MinutesThen DEF t
    <3>2. Tells(NewCandle(tl), tn, {n + 1})
      BY TellsFirst
    <3> QED
      BY <1>2, <2>1, <3>1, <3>2 DEF NewMinute
  <2>2. CASE i # q
    <3>1. i \in 1 .. m /\ sn[i] = s[i] /\ s[i].time # t
      BY <1>1, <1>2, <1>3, <2>2
    <3> HIDE DEF q
    <3>2. Tells(s[i], tn, InMinute(tn, n + 1, s[i].time))
      BY <3>1, OthersTell DEF t
    <3> QED
      BY <3>1, <3>2
  <2> QED
    BY <2>1, <2>2
<1>7. \A i \in 1 .. n + 1 : \E j \in 1 .. q : sn[j].time = segment_start(tn[i].time)
  <2> SUFFICES ASSUME NEW i \in 1 .. n + 1 PROVE \E j \in 1 .. q : sn[j].time = segment_start(tn[i].time)
    OBVIOUS
  <2>1. CASE i = n + 1
    BY <1>1, <1>2, <2>1 DEF OneMore, t
  <2>2. CASE i # n + 1
    <3>1. i \in 1 .. n /\ tn[i] = tr[i]
      BY <2>2 DEF OneMore
    <3>2. PICK j \in 1 .. m : s[j].time = segment_start(tr[i].time)
      BY <3>1 DEF CandlesOf
    <3> QED
      BY <1>1, <1>3, <3>1, <3>2
  <2> QED
    BY <2>1, <2>2
<1>8. ASSUME NEW x \in Nat PROVE CountsSince(sn, q, tn, n + 1, x)
  <2> DEFINE C == CandlesSince(s, m, x)
             T == MinutesSince(tr, n, x)
  <2>1. VolumeOf(s, C) = VolumeOf(tr, T)
    BY DEF CandlesOf
  <2>2. Within(C, m) /\ Within(C, q) /\ Within(T, n) /\ q \notin C
    BY <1>1 DEF CandlesSince, MinutesSince, Within, OneMore
  <2>3. Counted(s, m) /\ Counted(sn, q)
    <3>1. \A c \in Candle : Counts(c)
      BY DEF Candle, Counts
    <3> QED
      BY <1>1, <1>2, <3>1, CandlesCounted DEF Counted
  <2>4. VolumeOf(sn, C) = VolumeOf(s, C)
    <3>1. \A i \in C : s[i] = sn[i]
      BY <1>3 DEF CandlesSince
    <3> HIDE DEF C, q
    <3>2. Agree(s, sn, m, q, C)
      BY <2>2, <2>3, <3>1 DEF Agree
    <3> QED
      BY <3>2, VolumeSame
  <2>5. CASE x <= t
    <3>1. CandlesSince(sn, q, x) = C \cup {q}
      BY <1>1, <1>2, <1>3, <2>5 DEF CandlesSince
    <3>2. MinutesSince(tn, n + 1, x) = T \cup {n + 1}
      BY <2>5, MinutesThen DEF t
    <3>3. VolumeOf(sn, C \cup {q}) = Plus(VolumeOf(sn, C), sn[q])
      <4> HIDE DEF C, q
      <4> QED
        BY <1>1, <2>2, <2>3, VolumeOneMore
    <3>4. /\ VolumeOf(tn, T) = VolumeOf(tr, T)
          /\ VolumeOf(tn, T \cup {n + 1}) = Plus(VolumeOf(tr, T), tl)
      <4> HIDE DEF T
      <4> QED
        BY <2>2, MoreAgree
    <3>5. sn[q].cycles = tl.cycles /\ sn[q].tokens = tl.tokens
      BY DEF NewMinute, NewCandle
    <3> HIDE DEF C, T, q
    <3> QED
      BY <2>1, <2>4, <3>1, <3>2, <3>3, <3>4, <3>5 DEF CountsSince, Plus
  <2>6. CASE ~(x <= t)
    <3>1. CandlesSince(sn, q, x) = C
      BY <1>1, <1>2, <1>3, <2>6 DEF CandlesSince
    <3>2. MinutesSince(tn, n + 1, x) = T
      BY <1>2, <2>6, MinutesThen DEF t
    <3>3. /\ VolumeOf(tn, T) = VolumeOf(tr, T)
          /\ VolumeOf(tn, T \cup {n + 1}) = Plus(VolumeOf(tr, T), tl)
      <4> HIDE DEF T
      <4> QED
        BY <2>2, MoreAgree
    <3> HIDE DEF C, T, q
    <3> QED
      BY <2>1, <2>4, <3>1, <3>2, <3>3 DEF CountsSince
  <2> QED
    BY <2>5, <2>6
<1> QED
  BY <1>1, <1>2, <1>4, <1>6, <1>7, <1>8 DEF CandlesOf, CountsSince

SameMinute(s, m, sn, tl) ==
  /\ m \in Nat \ {0} /\ sn \in [1 .. m -> Candle]
  /\ s[m].time = segment_start(tl.time)
  /\ sn[m] = InCandle(s[m], tl)
  /\ \A i \in 1 .. m : i # m => sn[i] = s[i]

(* One more trade of the last minute. *)
LEMMA MoreOfMinute ==
  ASSUME NEW s, NEW m, NEW tr, NEW n, CandlesOf(s, m, tr, n), NEW tn, NEW tl, OneMore(tr, n, tn, tl),
         NEW sn, SameMinute(s, m, sn, tl)
  PROVE  CandlesOf(sn, m, tn, n + 1)
<1> DEFINE t == segment_start(tl.time)
<1>1. m \in Nat /\ s \in [1 .. m -> Candle] /\ m \in 1 .. m /\ sn \in [1 .. m -> Candle]
  BY DEF CandlesOf, SameMinute
<1>2. \A i \in 1 .. m : s[i].time \in Nat /\ s[i].time <= t
  BY CandlesSoFar
<1>3. s[m].time = t /\ t \in Nat
  BY <1>1, <1>2 DEF SameMinute
<1>4. \A i \in 1 .. m : i # m => sn[i] = s[i] /\ s[i].time < t /\ s[i].time # t
  <2> SUFFICES ASSUME NEW i \in 1 .. m, i # m PROVE sn[i] = s[i] /\ s[i].time < t /\ s[i].time # t
    OBVIOUS
  <2>1. i < m
    BY <1>1
  <2>2. s[i].time < s[m].time
    BY <1>1, <2>1 DEF CandlesOf
  <2> QED
    BY <1>2, <1>3, <2>2 DEF SameMinute
<1>5. sn[m].time = t /\ sn[m].cycles = s[m].cycles + tl.cycles /\ sn[m].tokens = s[m].tokens + tl.tokens
  <2>1. sn[m] = InCandle(s[m], tl) /\ s[m] \in Candle
    BY <1>1 DEF SameMinute
  <2> QED
    BY <1>3, <2>1 DEF InCandle, Candle
<1>6. \A i \in 1 .. m : sn[i].time = s[i].time
  BY <1>3, <1>4, <1>5
<1> HIDE DEF t
<1>7. \A i, j \in 1 .. m : i < j => sn[i].time < sn[j].time
  BY <1>6 DEF CandlesOf
<1>8. \A i \in 1 .. m : Tells(sn[i], tn, InMinute(tn, n + 1, sn[i].time))
  <2> SUFFICES ASSUME NEW i \in 1 .. m PROVE Tells(sn[i], tn, InMinute(tn, n + 1, sn[i].time))
    OBVIOUS
  <2>1. CASE i = m
    <3> DEFINE S == InMinute(tr, n, t)
               c == s[m]
    <3>1. InMinute(tn, n + 1, t) = S \cup {n + 1}
      BY <1>3, MinutesThen DEF t
    <3>2. Tells(c, tr, S) /\ c \in Candle
      BY <1>1, <1>3 DEF CandlesOf
    <3>3. Within(S, n)
      BY DEF Within, InMinute, OneMore
    <3>4. Tells(InCandle(c, tl), tn, S \cup {n + 1})
      <4> HIDE DEF S, c
      <4> QED
        BY <3>2, <3>3, TellsMore
    <3> HIDE DEF S
    <3> QED
      BY <1>5, <2>1, <3>1, <3>4 DEF SameMinute
  <2>2. CASE i # m
    <3>1. Tells(s[i], tn, InMinute(tn, n + 1, s[i].time))
      BY <1>4, <2>2, OthersTell DEF t
    <3> QED
      BY <1>4, <2>2, <3>1
  <2> QED
    BY <2>1, <2>2
<1>9. \A i \in 1 .. n + 1 : \E j \in 1 .. m : sn[j].time = segment_start(tn[i].time)
  <2> SUFFICES ASSUME NEW i \in 1 .. n + 1 PROVE \E j \in 1 .. m : sn[j].time = segment_start(tn[i].time)
    OBVIOUS
  <2>1. CASE i = n + 1
    BY <1>1, <1>5, <2>1 DEF OneMore, t
  <2>2. CASE i # n + 1
    <3>1. i \in 1 .. n /\ tn[i] = tr[i]
      BY <2>2 DEF OneMore
    <3>2. PICK j \in 1 .. m : s[j].time = segment_start(tr[i].time)
      BY <3>1 DEF CandlesOf
    <3> QED
      BY <1>6, <3>1, <3>2
  <2> QED
    BY <2>1, <2>2
<1>10. ASSUME NEW x \in Nat PROVE CountsSince(sn, m, tn, n + 1, x)
  <2> DEFINE C == CandlesSince(s, m, x)
             T == MinutesSince(tr, n, x)
  <2>1. VolumeOf(s, C) = VolumeOf(tr, T)
    BY DEF CandlesOf
  <2>2. Within(C, m) /\ Within(T, n) /\ CandlesSince(sn, m, x) = C
    BY <1>1, <1>6 DEF CandlesSince, MinutesSince, Within, OneMore
  <2>3. Counted(s, m) /\ Counted(sn, m) /\ Counts(tl)
    <3>1. \A c \in Candle : Counts(c)
      BY DEF Candle, Counts
    <3> QED
      BY <1>1, <3>1, CandlesCounted, TradeFields DEF Counted, OneMore
  <2>31. /\ VolumeOf(tn, T) = VolumeOf(tr, T)
         /\ VolumeOf(tn, T \cup {n + 1}) = Plus(VolumeOf(tr, T), tl)
    <3> HIDE DEF T
    <3> QED
      BY <2>2, MoreAgree
  <2>5. CASE x <= t
    <3>1. m \in C /\ \A i \in C \ {m} : sn[i] = s[i]
      BY <1>1, <1>3, <1>4, <2>5 DEF CandlesSince
    <3>2. MinutesSince(tn, n + 1, x) = T \cup {n + 1}
      BY <2>5, MinutesThen DEF t
    <3>3. VolumeOf(sn, C) = Plus(VolumeOf(s, C), tl)
      <4> HIDE DEF C
      <4> QED
        BY <1>5, <2>2, <2>3, <3>1, VolumeGrows
    <3> HIDE DEF C, T
    <3> QED
      BY <2>1, <2>2, <2>31, <3>2, <3>3 DEF CountsSince
  <2>6. CASE ~(x <= t)
    <3>1. \A i \in C : s[i] = sn[i]
      BY <1>1, <1>2, <1>3, <1>4, <2>6 DEF CandlesSince
    <3>2. MinutesSince(tn, n + 1, x) = T
      BY <1>3, <2>6, MinutesThen DEF t
    <3>3. VolumeOf(sn, C) = VolumeOf(s, C)
      <4> HIDE DEF C
      <4>1. Agree(s, sn, m, m, C)
        BY <2>2, <2>3, <3>1 DEF Agree
      <4> QED
        BY <4>1, VolumeSame
    <3> HIDE DEF C, T
    <3> QED
      BY <2>1, <2>2, <2>31, <3>2, <3>3 DEF CountsSince
  <2> QED
    BY <2>5, <2>6
<1> QED
  BY <1>1, <1>7, <1>8, <1>9, <1>10 DEF CandlesOf, CountsSince

LEMMA InitCandles == ViewsInit => CandlesOK
<1> SUFFICES ASSUME ViewsInit PROVE CandlesOK
  OBVIOUS
<1>1. trades = <<>> /\ segments_1_minute = <<>> /\ volume = [cycles |-> 0, tokens |-> 0]
  BY DEF ViewsInit
<1>2. Len(trades) = 0 /\ Len(segments_1_minute) = 0 /\ 1 .. 0 = {} /\ 0 \in Nat
  BY <1>1
<1>3. \A x \in Nat : CandlesSince(<<>>, 0, x) = {} /\ MinutesSince(<<>>, 0, x) = {}
  BY <1>2 DEF CandlesSince, MinutesSince
<1>4. <<>> \in [1 .. 0 -> Candle]
  BY <1>2
<1>5. CandlesOf(<<>>, 0, <<>>, 0)
  BY <1>2, <1>3, <1>4, VolumeNone DEF CandlesOf
<1> QED
  BY <1>1, <1>2, <1>5, VolumeNone DEF CandlesOK

LEMMA CandleIs ==
  ASSUME NEW c \in Candle, NEW tl \in LogWith(NotPaid)
  PROVE  InCandle(c, tl) \in Candle /\ NewCandle(tl) \in Candle
<1>1. /\ tl.rate \in Rate /\ tl.cycles \in Nat /\ tl.tokens \in Nat
      /\ segment_start(tl.time) \in Nat
  BY TradeFields, StartIs DEF Counts
<1>2. /\ c.cycles + tl.cycles \in Nat /\ c.tokens + tl.tokens \in Nat
      /\ Larger(c.high, tl.rate) \in Rate /\ Smaller(c.low, tl.rate) \in Rate
  BY <1>1 DEF Candle, Larger, Smaller
<1> DEFINE cy == c.cycles + tl.cycles
           to == c.tokens + tl.tokens
           hi == Larger(c.high, tl.rate)
           lo == Smaller(c.low, tl.rate)
<1>3. InCandle(c, tl) = [c EXCEPT !.cycles = cy, !.tokens = to, !.high = hi, !.low = lo,
                                  !.close = tl.rate]
  BY DEF InCandle
<1>4. cy \in Nat /\ to \in Nat /\ hi \in Rate /\ lo \in Rate
  BY <1>2
<1> HIDE DEF cy, to, hi, lo
<1> QED
  BY <1>1, <1>3, <1>4 DEF Candle, NewCandle

(* A trade is counted in the candle of its minute. *)
LEMMA TradeCandles ==
  ASSUME LogsInv, CandlesOK, NEW a \in Position, NEW b \in Position, NEW r \in Rate, NEW t \in Tokens,
         Trade(a, b, r, t), LogsInv'
  PROVE  CandlesOK'
<1> DEFINE tl == [id |-> Len(trades), matchee |-> a, matcher |-> b, rate |-> r,
             kind |-> PositionKind[a], tokens |-> t, cycles |-> t * r, time |-> now,
             tokens_payout_fee |-> Fees[Len(trades)].tokens,
             cycles_payout_fee |-> Fees[Len(trades)].cycles,
             payouts |-> [Cycles |-> None, Token |-> None]]
           n == Len(trades)
           s == segments_1_minute
           m == Len(s)
           X == LogWith(NotPaid)
           c == InCandle(s[m], tl)
           start == segment_start(tl.time)
<1>1. trades' = Append(trades, tl) /\ count_trade(tl)
  BY DEF Trade
<1>2. trades \in Seq(X) /\ n \in Nat /\ \A i \in 1 .. n : trades[i].time <= now
  BY DEF LogsInv, MadeOK
<1>3. tl.time = now /\ tl.cycles = t * r
  OBVIOUS
<1> HIDE DEF tl
<1>4. /\ trades' \in Seq(X) /\ Len(trades') = n + 1 /\ trades'[n + 1] = tl
      /\ \A i \in 1 .. n : trades'[i] = trades[i]
  <2>1. trades' \in Seq(X)
    BY DEF LogsInv, MadeOK
  <2> HIDE DEF X
  <2> QED
    BY <1>1, <1>2, <2>1
<1>5. tl \in X
  <2> HIDE DEF X
  <2> QED
    BY <1>2, <1>4
<1>6. OneMore(trades, n, trades', tl)
  <2>1. trades \in [1 .. n -> X] /\ trades' \in [1 .. n + 1 -> X]
    <3> HIDE DEF X
    <3> QED
      BY <1>2, <1>4
  <2> QED
    BY <1>2, <1>3, <1>4, <1>5, <2>1 DEF OneMore
<1>7. CandlesOf(s, m, trades, n)
  BY DEF CandlesOK
<1>8. m \in Nat /\ s \in [1 .. m -> Candle]
  BY <1>7 DEF CandlesOf
<1>81. s \in Seq(Candle)
  BY <1>8
<1>9. \A i \in 1 .. m : s[i].time \in Nat /\ s[i].time <= start
  BY <1>6, <1>7, CandlesSoFar
<1>10. start \in Nat /\ tl.rate \in Rate /\ Counts(tl)
  BY <1>5, TradeFields, StartIs
<1>11. /\ segments_1_minute' =
            IF s = <<>> \/ Last(s).time < start THEN Append(s, NewCandle(tl))
            ELSE [s EXCEPT ![Len(s)] = InCandle(@, tl)]
       /\ volume' = [cycles |-> volume.cycles + tl.cycles, tokens |-> volume.tokens + tl.tokens]
  BY <1>1 DEF count_trade
<1>12. volume' = VolumeOf(trades', 1 .. n + 1)
  <2> DEFINE S == 1 .. n
  <2>1. Within(S, n) /\ S \cup {n + 1} = 1 .. n + 1
    BY <1>2 DEF Within
  <2> HIDE DEF S, n
  <2>2. /\ VolumeOf(trades', S) = VolumeOf(trades, S)
        /\ VolumeOf(trades', S \cup {n + 1}) = Plus(VolumeOf(trades, S), tl)
    BY <1>6, <2>1, MoreAgree
  <2>3. volume = VolumeOf(trades, S)
    BY DEF CandlesOK, S, n
  <2> QED
    BY <1>11, <2>1, <2>2, <2>3 DEF Plus, S
<1>13. CASE s = <<>> \/ Last(s).time < start
  <2>1. NewCandle(tl) \in Candle
    BY <1>10 DEF NewCandle, Candle, Counts
  <2>2. segments_1_minute' = Append(s, NewCandle(tl))
    BY <1>11, <1>13
  <2>3. \A i \in 1 .. m : s[i].time < start
    <3> SUFFICES ASSUME NEW i \in 1 .. m PROVE s[i].time < start
      OBVIOUS
    <3>1. s # <<>> /\ m \in 1 .. m /\ Last(s) = s[m]
      BY <1>81 DEF Last
    <3>2. s[m].time < start
      BY <1>13, <3>1
    <3>3. CASE i = m
      BY <3>2, <3>3
    <3>4. CASE i # m
      <4>1. i < m
        <5> HIDE DEF m
        <5> QED
          BY <1>8, <3>4
      <4>2. s[i].time < s[m].time
        BY <1>7, <3>1, <4>1 DEF CandlesOf
      <4> QED
        BY <1>9, <1>10, <3>1, <3>2, <4>2
    <3> QED
      BY <3>3, <3>4
  <2> DEFINE nc == NewCandle(tl)
             sn == Append(s, nc)
  <2>4. NewMinute(s, m, sn, tl) /\ Len(sn) = m + 1
    <3>0. nc \in Candle
      BY <2>1
    <3> HIDE DEF nc
    <3>1. /\ sn \in [1 .. m + 1 -> Candle] /\ sn[m + 1] = nc /\ Len(sn) = m + 1
          /\ \A i \in 1 .. m : sn[i] = s[i]
      <4> HIDE DEF s
      <4>1. sn \in Seq(Candle) /\ Len(sn) = m + 1 /\ sn[m + 1] = nc
        BY <1>81, <3>0
      <4>2. \A i \in 1 .. m : sn[i] = s[i]
        BY <1>81, <3>0
      <4> HIDE DEF sn
      <4> QED
        BY <4>1, <4>2
    <3> HIDE DEF sn, m, s
    <3> QED
      BY <2>3, <3>1 DEF NewMinute, nc
  <2>5. CandlesOf(sn, m + 1, trades', n + 1)
    <3> HIDE DEF sn, m, n, s
    <3> QED
      BY <1>6, <1>7, <2>4, FirstOfMinute
  <2>6. CandlesOf(segments_1_minute', Len(segments_1_minute'), trades', Len(trades'))
    BY <1>4, <2>2, <2>4, <2>5
  <2> QED
    BY <1>4, <1>12, <2>6 DEF CandlesOK
<1>14. CASE ~(s = <<>> \/ Last(s).time < start)
  <2>1. s # <<>> /\ m \in 1 .. m /\ m \in Nat \ {0} /\ Last(s) = s[m]
    BY <1>14, <1>81 DEF Last
  <2>2. s[m].time = start
    BY <1>9, <1>10, <1>14, <2>1
  <2>3. c \in Candle
    <3>1. s[m] \in Candle
      BY <1>8, <2>1
    <3> HIDE DEF s, m
    <3> QED
      BY <1>5, <3>1, CandleIs
  <2> DEFINE sn == [s EXCEPT ![m] = c]
  <2>4. segments_1_minute' = sn
    BY <1>11, <1>14
  <2>5. sn \in [1 .. m -> Candle] /\ sn[m] = c /\ \A i \in 1 .. m : i # m => sn[i] = s[i]
    <3> HIDE DEF c
    <3> QED
      BY <1>8, <2>1, <2>3
  <2>6. Len(sn) = m
    <3> HIDE DEF c
    <3> QED
      BY <1>81, <2>1, <2>3
  <2>7. SameMinute(s, m, sn, tl)
    <3> HIDE DEF sn, m, s
    <3> QED
      BY <2>1, <2>2, <2>5 DEF SameMinute
  <2>8. CandlesOf(sn, m, trades', n + 1)
    <3> HIDE DEF sn, m, n, s
    <3> QED
      BY <1>6, <1>7, <2>7, MoreOfMinute
  <2>9. CandlesOf(segments_1_minute', Len(segments_1_minute'), trades', Len(trades'))
    BY <1>4, <2>4, <2>6, <2>8
  <2> QED
    BY <1>4, <1>12, <2>9 DEF CandlesOK
<1> QED
  BY <1>13, <1>14

LEMMA QuietCandles ==
  ASSUME CandlesOK, UNCHANGED <<trades, segments_1_minute, volume>>
  PROVE  CandlesOK'
BY DEF CandlesOK

LEMMA NextCandles == LogsInv /\ LogsInv' /\ CandlesOK /\ [ViewsNext]_viewsVars => CandlesOK'
<1> SUFFICES ASSUME LogsInv, LogsInv', CandlesOK, [ViewsNext]_viewsVars PROVE CandlesOK'
  OBVIOUS
<1>2. ASSUME NEW a \in Position, NEW b \in Position, NEW r \in Rate, NEW t \in Tokens,
             Trade(a, b, r, t)
      PROVE  CandlesOK'
  BY <1>2, TradeCandles
<1>3. CASE Tick
  BY <1>3, QuietCandles DEF Tick, candleVars
<1>4. CASE MoveToBuffer
  BY <1>4, QuietCandles DEF MoveToBuffer, candleVars
<1>5. ASSUME NEW n \in 1 .. Smaller(Capacity, Len(storage_buffer)), FlushChunk(n)
      PROVE  CandlesOK'
  BY <1>5, QuietCandles DEF FlushChunk, candleVars
<1>6. CASE FlushReturns
  BY <1>6, QuietCandles DEF FlushReturns, candleVars
<1>7. CASE UNCHANGED viewsVars
  BY <1>7, QuietCandles DEF viewsVars, candleVars
<1> QED
  BY <1>2, <1>3, <1>4, <1>5, <1>6, <1>7 DEF ViewsNext

(* Each candle counts the trades of its minute and no others.              *)
THEOREM CandlesInvariant == ViewsSpec => []CandlesOK
<1>1. LogsInv /\ CandlesOK /\ [ViewsNext]_viewsVars => (LogsInv /\ CandlesOK)'
  BY NextLogs, NextCandles
<1> QED
  BY InitLogs, InitCandles, <1>1, PTL DEF ViewsSpec

Rated(tr, S) == S \subseteq Nat /\ \A i \in S : tr[i].rate \in Nat

(* What a candle tells is what the trades there were. *)
LEMMA TellsOne ==
  ASSUME NEW c \in Candle, NEW tr, NEW S, Rated(tr, S), Tells(c, tr, S)
  PROVE  /\ c.open = tr[Min(S)].rate /\ c.close = tr[Max(S)].rate
         /\ c.high = Max({tr[i].rate : i \in S}) /\ c.low = Min({tr[i].rate : i \in S})
<1> DEFINE R == {tr[i].rate : i \in S}
<1>0. R \subseteq Nat /\ S \subseteq Nat
  BY DEF Rated
<1>1. ASSUME NEW T, T \subseteq Nat, NEW x \in T, \A y \in T : x <= y
      PROVE  Min(T) = x
  <2>1. Min(T) \in T /\ \A y \in T : Min(T) <= y
    BY <1>1 DEF Min
  <2>2. Min(T) <= x /\ x <= Min(T) /\ x \in Nat /\ Min(T) \in Nat
    BY <1>1, <2>1
  <2> QED
    BY <2>2
<1>2. ASSUME NEW T, T \subseteq Nat, NEW x \in T, \A y \in T : y <= x
      PROVE  Max(T) = x
  <2>1. Max(T) \in T /\ \A y \in T : Max(T) >= y
    <3>1. \A y \in T : x >= y
      BY <1>2
    <3> QED
      BY <3>1 DEF Max
  <2>2. Max(T) >= x /\ x >= Max(T) /\ x \in Nat /\ Max(T) \in Nat
    BY <1>2, <2>1
  <2> QED
    BY <2>2
<1>3. c.open = tr[Min(S)].rate
  <2>1. PICK p \in S : c.open = tr[p].rate /\ \A i \in S : p <= i
    BY DEF Tells, Opens
  <2> QED
    BY <1>0, <1>1, <2>1
<1>4. c.close = tr[Max(S)].rate
  <2>1. PICK p \in S : c.close = tr[p].rate /\ \A i \in S : i <= p
    BY DEF Tells, Closes
  <2> QED
    BY <1>0, <1>2, <2>1
<1>5. c.high = Max(R)
  <2>1. PICK p \in S : c.high = tr[p].rate /\ \A i \in S : tr[i].rate <= c.high
    BY DEF Tells, Tops
  <2>2. c.high \in R /\ \A y \in R : y <= c.high
    BY <2>1
  <2> HIDE DEF R
  <2> QED
    BY <1>0, <1>2, <2>2
<1>6. c.low = Min(R)
  <2>1. PICK p \in S : c.low = tr[p].rate /\ \A i \in S : c.low <= tr[i].rate
    BY DEF Tells, Bottoms
  <2>2. c.low \in R /\ \A y \in R : c.low <= y
    BY <2>1
  <2> HIDE DEF R
  <2> QED
    BY <1>0, <1>1, <2>2
<1> QED
  BY <1>3, <1>4, <1>5, <1>6

LEMMA CandleIsOf ==
  ASSUME LogsInv, CandlesOK, NEW j \in 1 .. Len(segments_1_minute)
  PROVE  /\ CandleOf(segments_1_minute[j].time) = segments_1_minute[j]
         /\ \E p \in 1 .. Len(trades) : segment_start(trades[p].time) = segments_1_minute[j].time
<1> DEFINE n == Len(trades)
           c == segments_1_minute[j]
           t == c.time
           S == InMinute(trades, n, t)
<1>1. c \in Candle /\ Tells(c, trades, S)
  BY DEF CandlesOK, CandlesOf
<1>2. trades \in Seq(LogWith(NotPaid)) /\ n \in Nat /\ DOMAIN trades = 1 .. n
  BY DEF LogsInv, MadeOK
<1>3. S = {i \in DOMAIN trades : segment_start(trades[i].time) = t}
  BY <1>2 DEF InMinute
<1>4. S \subseteq Nat /\ \A i \in S : trades[i].rate \in Nat
  <2>1. \A i \in 1 .. n : trades[i] \in LogWith(NotPaid)
    BY <1>2
  <2>2. \A i \in S : i \in 1 .. n /\ i \in Nat
    BY DEF InMinute
  <2> HIDE DEF S, n
  <2> QED
    BY <2>1, <2>2, TradeFields
<1>41. Rated(trades, S)
  BY <1>4 DEF Rated
<1> DEFINE sum == VolumeOf(trades, S)
           T == {trades[i].rate : i \in S}
<1>5. CandleOf(t) = [time |-> t, cycles |-> sum.cycles, tokens |-> sum.tokens,
                     open |-> trades[Min(S)].rate, high |-> Max(T), low |-> Min(T),
                     close |-> trades[Max(S)].rate]
  BY <1>3, Zenon DEF CandleOf
<1>6. /\ c.open = trades[Min(S)].rate /\ c.close = trades[Max(S)].rate
      /\ c.high = Max({trades[i].rate : i \in S}) /\ c.low = Min({trades[i].rate : i \in S})
  <2> HIDE DEF S, c
  <2> QED
    BY <1>1, <1>41, TellsOne
<1>7. sum = [cycles |-> c.cycles, tokens |-> c.tokens]
  BY <1>1 DEF Tells
<1>8. c = [time |-> t, cycles |-> c.cycles, tokens |-> c.tokens, open |-> c.open, high |-> c.high,
           low |-> c.low, close |-> c.close]
  <2> HIDE DEF c
  <2> QED
    BY <1>1 DEF Candle
<1>9. CandleOf(t) = c
  <2>1. sum.cycles = c.cycles /\ sum.tokens = c.tokens
    BY <1>7
  <2> HIDE DEF sum, c, S
  <2> QED
    BY <1>5, <1>6, <1>8, <2>1
<1>10. \E p \in 1 .. n : segment_start(trades[p].time) = t
  BY <1>1 DEF Tells, Opens, InMinute
<1> QED
  BY <1>9, <1>10

(* Candles of which one has a trade each, read before a time. *)
LEMMA CandlesBefore ==
  ASSUME LogsInv, CandlesOK, NEW before \in {None} \cup 0 .. MaxTime
  PROVE  \E n \in 0 .. Len(segments_1_minute) :
           /\ \A i \in DOMAIN segments_1_minute :
                i <= n <=> before = None \/ segments_1_minute[i].time + Minute <= before
           /\ create_candles(before) =
                [candles |-> LastOf(SubSeq(segments_1_minute, 1, n), CandlesChunk),
                 is_earliest_chunk |-> n <= CandlesChunk]
<1> DEFINE s == segments_1_minute
           m == Len(s)
<1>1. m \in Nat /\ s \in [1 .. m -> Candle] /\ DOMAIN s = 1 .. m
  BY DEF CandlesOK, CandlesOf
<1>2. CASE before = None
  <2>1. create_candles(before) = [candles |-> LastOf(SubSeq(s, 1, m), CandlesChunk),
                                  is_earliest_chunk |-> m <= CandlesChunk]
    BY <1>2 DEF create_candles
  <2>2. m \in 0 .. m /\ \A i \in DOMAIN s : i <= m
    BY <1>1
  <2> QED
    BY <1>2, <2>1, <2>2
<1>3. CASE before # None
  <2> DEFINE start == segment_start(before)
             S == {i \in DOMAIN s : s[i].time < start}
             n == Cardinality(S)
  <2>1. before \in Nat
    BY <1>3, TradeViewsAssumption
  <2>2. create_candles(before) = [candles |-> LastOf(SubSeq(s, 1, n), CandlesChunk),
                                  is_earliest_chunk |-> n <= CandlesChunk]
    BY <1>3 DEF create_candles
  <2>3. \A i \in 1 .. m : s[i].time \in Nat /\ (s[i].time < start <=> s[i].time + Minute <= before)
    <3> SUFFICES ASSUME NEW i \in 1 .. m
                 PROVE s[i].time \in Nat /\ (s[i].time < start <=> s[i].time + Minute <= before)
      OBVIOUS
    <3>1. PICK p \in 1 .. Len(trades) : segment_start(trades[p].time) = s[i].time
      BY CandleIsOf
    <3>2. trades[p].time \in Nat
      BY <3>1, TradeFields DEF LogsInv, MadeOK
    <3>3. /\ segment_start(trades[p].time) \in Nat
          /\ segment_start(trades[p].time) < start <=> segment_start(trades[p].time) + Minute <= before
      BY <2>1, <3>2, StartIs
    <3> HIDE DEF start, s, m
    <3> QED
      BY <3>1, <3>3
  <2>4. start \in Nat
    BY <2>1, StartIs
  <2>5. \A i, j \in 1 .. m : i < j => s[i].time < s[j].time
    BY DEF CandlesOK, CandlesOf
  <2>6. FirstOnes(S, m)
    <3>1. S \subseteq 1 .. m
      BY <1>1
    <3>2. ASSUME NEW i \in S, NEW j \in 1 .. m, j <= i PROVE j \in S
      <4>1. i \in 1 .. m /\ s[i].time < start
        BY <1>1
      <4>2. CASE j = i
        BY <4>2
      <4>3. CASE j # i
        <5>0. j < i
          <6> HIDE DEF s, m, S
          <6> QED
            BY <1>1, <3>2, <4>1, <4>3
        <5>1. s[j].time < s[i].time
          BY <2>5, <4>1, <5>0
        <5>2. s[j].time < start
          <6> HIDE DEF start, s, m, S
          <6> QED
            BY <2>3, <2>4, <4>1, <5>1
        <5> QED
          BY <1>1, <5>2
      <4> QED
        BY <4>2, <4>3
    <3> HIDE DEF S
    <3> QED
      BY <3>1, <3>2 DEF FirstOnes
  <2>7. n \in 0 .. m /\ \A i \in 1 .. m : i \in S <=> i <= n
    <3> HIDE DEF S, m
    <3> QED
      BY <1>1, <2>6, PrefixCount
  <2>8. \A i \in DOMAIN s : i <= n <=> s[i].time + Minute <= before
    <3>1. \A i \in 1 .. m : i \in S <=> s[i].time < start
      BY <1>1
    <3> HIDE DEF S, start, n, m, s
    <3> QED
      BY <1>1, <2>3, <2>7, <3>1
  <2> HIDE DEF n
  <2> QED
    BY <1>3, <2>2, <2>7, <2>8
<1> QED
  BY <1>2, <1>3

LEMMA VolumeStatsIs ==
  ASSUME LogsInv, CandlesOK, NEW f \in Timeframe
  PROVE  volume_stats(f) = VolumeOf(trades, {i \in DOMAIN trades :
                                               segment_start(trades[i].time) >= now - f})
<1> DEFINE s == segments_1_minute
           m == Len(s)
           n == Len(trades)
           x == Larger(0, now - f)
<1>1. m \in Nat /\ s \in [1 .. m -> Candle] /\ DOMAIN s = 1 .. m /\ DOMAIN trades = 1 .. n
  BY DEF CandlesOK, CandlesOf, LogsInv, MadeOK
<1>2. now \in Nat /\ f \in Nat /\ x \in Nat
  BY TradeViewsAssumption DEF LogsInv, MadeOK, Larger
<1>3. VolumeOf(s, CandlesSince(s, m, x)) = VolumeOf(trades, MinutesSince(trades, n, x))
  BY <1>2 DEF CandlesOK, CandlesOf
<1>4. volume_stats(f) = VolumeOf(s, CandlesSince(s, m, x))
  BY <1>1 DEF volume_stats, CandlesSince
<1>5. ASSUME NEW i \in 1 .. n PROVE segment_start(trades[i].time) \in Nat
  <2>1. trades[i] \in LogWith(NotPaid)
    BY DEF LogsInv, MadeOK
  <2>2. trades[i].time \in Nat
    BY <2>1, TradeFields, Zenon
  <2> QED
    BY <2>2, StartIs, Zenon
<1>6. \A k \in Nat : k >= x <=> k >= now - f
  BY <1>2 DEF Larger
<1> HIDE DEF x
<1>7. MinutesSince(trades, n, x) = {i \in DOMAIN trades : segment_start(trades[i].time) >= now - f}
  BY <1>1, <1>5, <1>6 DEF MinutesSince
<1> QED
  BY <1>3, <1>4, <1>7

LEMMA CandlesTell == LogsInv /\ CandlesOK => CandlesFollowTrades
<1> SUFFICES ASSUME LogsInv, CandlesOK PROVE CandlesFollowTrades
  OBVIOUS
<1> DEFINE s == segments_1_minute
           m == Len(s)
           n == Len(trades)
<1>1. m \in Nat /\ s \in [1 .. m -> Candle] /\ DOMAIN s = 1 .. m /\ DOMAIN trades = 1 .. n
  BY DEF CandlesOK, CandlesOf, LogsInv, MadeOK
<1>2. \A j \in 1 .. m : /\ CandleOf(s[j].time) = s[j]
                        /\ \E p \in 1 .. n : segment_start(trades[p].time) = s[j].time
  BY CandleIsOf
<1>3. \A i \in 1 .. n : \E j \in 1 .. m : s[j].time = segment_start(trades[i].time)
  BY DEF CandlesOK, CandlesOf
<1>4. ToSet(s) = {CandleOf(segment_start(trades[i].time)) : i \in DOMAIN trades}
  <2>1. ASSUME NEW c \in ToSet(s)
        PROVE  c \in {CandleOf(segment_start(trades[i].time)) : i \in DOMAIN trades}
    <3>1. PICK j \in 1 .. m : c = s[j]
      BY <1>1 DEF ToSet
    <3>2. PICK p \in 1 .. n : segment_start(trades[p].time) = s[j].time
      BY <1>2
    <3>3. CandleOf(segment_start(trades[p].time)) = c
      BY <1>2, <3>1, <3>2
    <3> HIDE DEF s, m, n
    <3> QED
      BY <1>1, <3>3
  <2>2. ASSUME NEW i \in DOMAIN trades
        PROVE  CandleOf(segment_start(trades[i].time)) \in ToSet(s)
    <3>1. PICK j \in 1 .. m : s[j].time = segment_start(trades[i].time)
      BY <1>1, <1>3
    <3>2. CandleOf(segment_start(trades[i].time)) = s[j]
      BY <1>2, <3>1
    <3> QED
      BY <1>1, <3>2 DEF ToSet
  <2> HIDE DEF s, m, n
  <2> QED
    BY <2>1, <2>2
<1>5. \A i, j \in DOMAIN s : i < j => s[i].time < s[j].time
  BY <1>1 DEF CandlesOK, CandlesOf
<1>6. volume = VolumeOf(trades, DOMAIN trades)
  BY <1>1 DEF CandlesOK
<1> QED
  BY <1>4, <1>5, <1>6, CandlesBefore, VolumeStatsIs DEF CandlesFollowTrades

(* What is read of the candles, and the volume of a timeframe, follow from *)
(* the trades alone.                                                       *)
THEOREM CandlesFollow == ViewsSpec => []CandlesFollowTrades
<1>1. LogsInv /\ CandlesOK => CandlesFollowTrades
  BY CandlesTell
<1> QED
  BY <1>1, LogsInvariant, CandlesInvariant, PTL
=============================================================================
