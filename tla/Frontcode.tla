------------------------------ MODULE Frontcode ------------------------------
(***************************************************************************)
(* The file server of the CTS canister (cts/src/lib.rs, frontcode.rs,      *)
(* certification).  Batch creators upload the next frontcode, file by file *)
(* and chunk by chunk, all into one batch.  The controller (the SNS) looks *)
(* at the batch, proposes its hash, and commits with that hash later.  The *)
(* files of a commit are served by queries: the first chunk with a         *)
(* certificate, every further chunk by a callback.                         *)
(*                                                                         *)
(* Every method is one message execution.  A hash is modelled by what it   *)
(* tells apart: the hash of a file is the bytes of its chunks in a row.    *)
(* Headers are left out; no hash covers them.                              *)
(***************************************************************************)
EXTENDS Option, Naturals, Sequences, FiniteSets

CONSTANTS
  FileName, Creator,
  Reader,      \* slots for http requests in progress
  Chunk,       \* the chunks that are uploaded: sequences of bytes
  MaxChunks,   \* bound of the chunks of a file
  MaxUploads,  \* bound of the calls of upload_file and upload_file_chunks
  MaxCommits,  \* bound of the commits, clears and upgrades
  Shape        \* shapes that a search tree of the same entries may have

Bytes == UNION {{c[i] : i \in DOMAIN c} : c \in Chunk}

ASSUME FrontcodeAssumption ==
  /\ {MaxChunks, MaxUploads, MaxCommits} \subseteq Nat
  /\ Chunk \subseteq Seq(Bytes)
  /\ None \notin Nat

VARIABLES
  frontcode_files,        \* [names -> chunks] that are served
  frontcode_files_hashes, \* the tree of their hashes
  batch_creators,
  current_batch,          \* [names -> chunks] of the next frontcode
  certified_data,         \* what the subnet certifies for the canister, None at first
  proposal,               \* what the controller saw of the batch, and its hash
  reviewed,               \* the files that went live as the controller saw them
  readers,                \* [Reader -> an http request in progress]
  uploads, commits

liveVars   == <<frontcode_files, frontcode_files_hashes, certified_data, reviewed>>
boundVars  == <<uploads, commits>>
vars == <<liveVars, batch_creators, current_batch, proposal, readers, boundVars>>

----------------------------------------------------------------------------
(* Files and hashes *)

NoFiles == [f \in {} |-> <<>>]

(* File::sha256_hash *)
sha256_hash(chunks) ==
  LET bytes[i \in 0 .. Len(chunks)] == IF i = 0 THEN <<>> ELSE bytes[i - 1] \o chunks[i]
  IN bytes[Len(chunks)]

(* Mutant: the names are not part of the hash. *)
hash_of_contents(files) == {sha256_hash(files[f]) : f \in DOMAIN files}
(* The hashes of names and contents, sorted. *)
hash_of_files(files) == {<<f, sha256_hash(files[f])>> : f \in DOMAIN files}

FilesHashes(files, shape) ==
  [hashes |-> [f \in DOMAIN files |-> sha256_hash(files[f])], shape |-> shape]

(* The root hash depends on the shape of the tree, which depends on the    *)
(* insertions and deletions it came from.                                  *)
root_hash(tree) == <<"http_assets", tree.shape, tree.hashes>>

Without(f, x) == [y \in DOMAIN f \ {x} |-> f[y]]

Init ==
  /\ frontcode_files = NoFiles
  /\ \E shape \in Shape : frontcode_files_hashes = FilesHashes(NoFiles, shape)
  /\ batch_creators \in SUBSET Creator
  /\ current_batch = NoFiles
  /\ certified_data = None
  /\ proposal = None
  /\ reviewed = NoFiles
  /\ readers = [r \in Reader |-> None]
  /\ uploads = 0
  /\ commits = 0

----------------------------------------------------------------------------
(* The batch *)

create_batch(p) ==
  /\ p \in batch_creators
  /\ current_batch' = NoFiles
  /\ UNCHANGED <<liveVars, batch_creators, proposal, readers, boundVars>>

Uploads == uploads < MaxUploads /\ uploads' = uploads + 1

(* The first chunk comes with the file; the others are empty. *)
upload_file(p, f, first_chunk, chunks) ==
  /\ Uploads
  /\ p \in batch_creators
  /\ chunks # 0
  /\ current_batch' = [g \in DOMAIN current_batch \cup {f} |->
       IF g = f THEN [i \in 1 .. chunks |-> IF i = 1 THEN first_chunk ELSE <<>>]
       ELSE current_batch[g]]
  /\ UNCHANGED <<liveVars, batch_creators, proposal, readers, commits>>

(* It traps when the batch does not have the file, or the file the chunk.  *)
upload_file_chunks(p, f, i, chunk) ==
  /\ Uploads
  /\ p \in batch_creators
  /\ f \in DOMAIN current_batch /\ i \in DOMAIN current_batch[f]
  /\ current_batch' = [current_batch EXCEPT ![f][i] = chunk]
  /\ UNCHANGED <<liveVars, batch_creators, proposal, readers, commits>>

controller_add_batch_creators(ps) ==
  /\ batch_creators' = batch_creators \cup ps
  /\ UNCHANGED <<liveVars, current_batch, proposal, readers, boundVars>>

controller_remove_batch_creators(ps) ==
  /\ batch_creators' = batch_creators \ ps
  /\ UNCHANGED <<liveVars, current_batch, proposal, readers, boundVars>>

----------------------------------------------------------------------------
(* Going live *)

Commits == commits < MaxCommits /\ commits' = commits + 1

view_current_batch_file_hashes == [f \in DOMAIN current_batch |-> sha256_hash(current_batch[f])]
view_current_batch_hash ==
  IF DOMAIN current_batch = {} THEN None ELSE hash_of_files(current_batch)
view_file_hashes == frontcode_files_hashes.hashes
view_live_files_hash ==
  IF DOMAIN frontcode_files = {} THEN None ELSE hash_of_files(frontcode_files)

(* The controller looks at the files of the batch and proposes its hash.   *)
Propose ==
  /\ view_current_batch_hash # None
  /\ proposal' = [files |-> view_current_batch_file_hashes,
                  batch_hash |-> view_current_batch_hash]
  /\ UNCHANGED <<liveVars, batch_creators, current_batch, readers, boundVars>>

(* Ghost: a request in progress whose file was replaced or removed. *)
Changed(files) ==
  [r \in Reader |->
     IF readers[r] = None THEN None
     ELSE [readers[r] EXCEPT !.changed = @ \/ readers[r].name \in files]]

(* The tree that the hashes were put into, or read from a serialisation,   *)
(* has any shape.                                                          *)
set_root_hash(tree) == frontcode_files_hashes' = tree /\ certified_data' = root_hash(tree)

controller_commit_batch ==
  /\ Commits
  /\ proposal # None
  /\ proposal.batch_hash = hash_of_files(current_batch)
  /\ frontcode_files' = current_batch
  /\ current_batch' = NoFiles
  /\ \E shape \in Shape : set_root_hash(FilesHashes(current_batch, shape))
  /\ reviewed' = proposal.files
  /\ readers' = Changed(FileName)
  /\ UNCHANGED <<batch_creators, proposal, uploads>>

controller_clear_files ==
  /\ Commits
  /\ frontcode_files' = NoFiles
  /\ \E shape \in Shape : set_root_hash(FilesHashes(NoFiles, shape))
  /\ reviewed' = NoFiles
  /\ readers' = Changed(FileName)
  /\ UNCHANGED <<batch_creators, current_batch, proposal, uploads>>

(* Mutant: the hash of the file stays in the tree. *)
HashesKept(f, shape) == [frontcode_files_hashes EXCEPT !.shape = shape]
HashesWithout(f, shape) ==
  [hashes |-> Without(frontcode_files_hashes.hashes, f), shape |-> shape]

controller_clear_file(f) ==
  /\ Commits
  /\ frontcode_files' = Without(frontcode_files, f)
  /\ \E shape \in Shape : set_root_hash(HashesWithout(f, shape))
  /\ reviewed' = Without(reviewed, f)
  /\ readers' = Changed({f})
  /\ UNCHANGED <<batch_creators, current_batch, proposal, uploads>>

(* pre_upgrade and post_upgrade.  The data survive; the tree is built anew. *)
Upgrade ==
  /\ Commits
  /\ \E shape \in Shape : set_root_hash([frontcode_files_hashes EXCEPT !.shape = shape])
  /\ UNCHANGED <<frontcode_files, reviewed, batch_creators, current_batch, proposal, readers,
                 uploads>>

----------------------------------------------------------------------------
(* Serving *)

(* Mutant: the last chunk gets no token. *)
create_token_early(chunks, i) == IF Len(chunks) > i + 1 THEN i + 1 ELSE None
(* The token for the chunk after chunk i, if there is one. *)
create_opt_stream_callback_token(chunks, i) == IF Len(chunks) > i THEN i + 1 ELSE None

(* http_request: the certificate of the whole file with its first chunk.   *)
(* For any other name it answers 404.                                      *)
http_request(r, f) ==
  /\ readers[r] = None
  /\ f \in DOMAIN frontcode_files
  /\ readers' = [readers EXCEPT ![r] =
       [name |-> f, hash |-> frontcode_files_hashes.hashes[f], body |-> frontcode_files[f][1],
        token |-> create_opt_stream_callback_token(frontcode_files[f], 1), changed |-> FALSE]]
  /\ UNCHANGED <<liveVars, batch_creators, current_batch, proposal, boundVars>>

(* http_request_stream_callback: it traps when the file, or the chunk, is  *)
(* gone, and the request has failed.                                       *)
http_request_stream_callback(r) ==
  /\ readers[r] # None /\ readers[r].token # None
  /\ LET request == readers[r]
         f == request.name
         i == request.token
     IN readers' = [readers EXCEPT ![r] =
          IF f \in DOMAIN frontcode_files /\ i <= Len(frontcode_files[f])
          THEN [request EXCEPT
                 !.body = request.body \o frontcode_files[f][i],
                 !.token = create_opt_stream_callback_token(frontcode_files[f], i)]
          ELSE None]
  /\ UNCHANGED <<liveVars, batch_creators, current_batch, proposal, boundVars>>

(* The reader has the whole answer, or gives up. *)
ReaderLeaves(r) ==
  /\ readers[r] # None
  /\ readers' = [readers EXCEPT ![r] = None]
  /\ UNCHANGED <<liveVars, batch_creators, current_batch, proposal, boundVars>>

----------------------------------------------------------------------------
BatchCreators ==
  \E p \in Creator :
    \/ create_batch(p)
    \/ \E f \in FileName, chunk \in Chunk, n \in 0 .. MaxChunks :
         upload_file(p, f, chunk, n) \/ upload_file_chunks(p, f, n, chunk)

Controller ==
  \/ \E ps \in SUBSET Creator : controller_add_batch_creators(ps)
                             \/ controller_remove_batch_creators(ps)
  \/ Propose \/ controller_commit_batch \/ controller_clear_files \/ Upgrade
  \/ \E f \in FileName : controller_clear_file(f)

Readers ==
  \E r \in Reader :
    \/ \E f \in FileName : http_request(r, f)
    \/ http_request_stream_callback(r) \/ ReaderLeaves(r)

Next == BatchCreators \/ Controller \/ Readers
Spec == Init /\ [][Next]_vars
----------------------------------------------------------------------------
(* Properties *)

Hashes(files) == [f \in DOMAIN files |-> sha256_hash(files[f])]

PartialFunction(f, D, R) == DOMAIN f \subseteq D /\ f \in [DOMAIN f -> R]
FilesOK(files) ==
  /\ PartialFunction(files, FileName, Seq(Chunk \cup {<<>>}))
  /\ \A f \in DOMAIN files : Len(files[f]) \in 1 .. MaxChunks

(* The contents of the state variables have the types of the code's data,  *)
(* and no file is without a first chunk, which http_request takes.         *)
TypeOK ==
  /\ FilesOK(frontcode_files) /\ FilesOK(current_batch)
  /\ batch_creators \subseteq Creator
  /\ DOMAIN readers = Reader
  /\ \A r \in Reader : readers[r] # None =>
       readers[r] \in [name : FileName, hash : Seq(Bytes), body : Seq(Bytes),
                       token : 2 .. MaxChunks \cup {None}, changed : BOOLEAN]
  /\ uploads \in 0 .. MaxUploads /\ commits \in 0 .. MaxCommits

(* Whatever is served verifies: the tree has exactly the hashes of the     *)
(* files that are served, and its root is what the subnet certifies,       *)
(* through commits, clears and upgrades.  Before the first of these there  *)
(* is nothing to serve.                                                    *)
CertifiedFilesServed ==
  /\ view_file_hashes = Hashes(frontcode_files)
  /\ view_live_files_hash # None => certified_data = root_hash(frontcode_files_hashes)

(* The files, their tree and its root, with the types of them.             *)
FilesInv == TypeOK /\ CertifiedFilesServed

(* What is live is what the controller saw when it proposed the hash, less  *)
(* what it cleared since, whatever the batch creators uploaded between the *)
(* proposal and the commit: every name has the content it was seen with.   *)
LiveAsReviewed == Hashes(frontcode_files) = reviewed

(* A reader who follows the tokens to the end has every byte of the file   *)
(* that the certificate of the first answer is about, unless the file was  *)
(* replaced or removed meanwhile.                                          *)
StreamsWhole ==
  \A r \in Reader : readers[r] # None =>
    (readers[r].token = None /\ ~readers[r].changed => readers[r].body = readers[r].hash)
=============================================================================
