--------------------------- MODULE UserlandFetch ---------------------------
(***************************************************************************)
(* tools/userland-fetch: any number of runs of the program on one archive  *)
(* path, one after the other and at the same time (parallel gmake, several *)
(* workspaces with one USERLAND_ARCHIVES).  A run walks the list of        *)
(* sources; each source may put a file in place, which is then checked     *)
(* against a signature and a hash and accepted or discarded.               *)
(*                                                                         *)
(* Files are inodes with names: "archive" is the --file argument, "part"   *)
(* the .part file next to it.  A descriptor keeps writing to its inode     *)
(* after the name moved, as rename(2) and unlink(2) have it.  A file is a  *)
(* sequence of chunks, each one the k-th chunk of some content.            *)
(***************************************************************************)
EXTENDS Naturals, Sequences

CONSTANTS Procs,     \* runs of the program that may overlap
          Inodes,    \* enough inodes for two names and one descriptor per run
          Contents,  \* whole files a source can serve under the archive's name
          NChunks,   \* chunks in a whole file
          Payload,   \* digest of the uncompressed content of each file
          Signed,    \* contents upstream has signed
          Sources,   \* the list download_paths() returns
          Options,   \* command lines and environments a run may have
          MaxKills,  \* bound: runs that die without cleaning up
          Garbage,   \* a file that is no whole content
          None

Source == [kind : {"self", "local", "remote"},
           secure : BOOLEAN,      \* the scheme is in SECURE_PROTOCOLS, or local
           ranges : BOOLEAN,      \* the server accepts ranges and it is not ftp
           chunked : BOOLEAN,     \* it answers with Transfer-Encoding: chunked
           reliable : BOOLEAN,    \* it never fails: an assumption of liveness
           offer : SUBSET Contents]

Digests == Contents \cup {Payload[c] : c \in Contents}

Option == [keep : BOOLEAN, needSig : BOOLEAN, needHash : BOOLEAN,
           hash : Digests \cup {None},
           sigFrom : {"local", "sigurl", "mirror"},
           gpg : BOOLEAN,         \* git and gpg2 can be run
           allow : BOOLEAN]       \* ALLOW_UNVERIFIED_DOWNLOADS=yes

ASSUME FetchAssumption ==
    /\ NChunks \in Nat \ {0}
    /\ MaxKills \in Nat
    /\ None \notin Inodes \cup Digests \cup {Garbage}
    /\ Garbage \notin Contents
    /\ Signed \subseteq Contents
    /\ Options \subseteq Option
    /\ Sources \in Seq(Source)

\* download_paths() puts the archive file itself first, whatever is searched.
ASSUME FileComesFirst == Sources # <<>> /\ Sources[1].kind = "self"

VARIABLES archive,   \* inode the archive name refers to, or None
          part,      \* inode the .part name refers to, or None
          data,      \* what each inode holds
          sigFile,   \* the content the signature file on disk is for
          pc, opt, idx, rc, validSig,   \* the locals of realmain()
          xfer,      \* the open descriptor of a download or a copy
          how,       \* history: why the run ended
          seen,      \* history: the content that was read when it succeeded
          beside,    \* history: the other runs under way when it ended
          kills

files == <<archive, part, data>>
vars == <<archive, part, data, sigFile, pc, opt, idx, rc, validSig, xfer, how,
          seen, beside, kills>>
-----------------------------------------------------------------------------
Chunk == Contents \X (1 .. NChunks)
Hole  == <<Garbage, 0>>
Whole(c) == [k \in 1 .. NChunks |-> <<c, k>>]

\* What a reader of the archive name finds: None when open() fails.
Reading == IF archive = None THEN None
           ELSE IF \E c \in Contents : data[archive] = Whole(c)
                THEN CHOOSE c \in Contents : data[archive] = Whole(c)
                ELSE Garbage

NoXfer == [to |-> None, append |-> FALSE, of |-> Garbage, next |-> 0]
OpenXfer == [to : Inodes, append : BOOLEAN, of : Contents, next : Nat \ {0}]

\* An inode lives while it has a name or a descriptor; its blocks go with it.
Live == {archive, part} \cup {xfer[p].to : p \in Procs}
Stored(d) == data' = [i \in Inodes |-> IF i \in Live' THEN d[i] ELSE <<>>]

\* "ab" writes at the end of the file, "wb" at the descriptor's own offset.
Written(d, x) ==
    LET chunk == <<x.of, x.next>>
        longer == IF x.next > Len(d) THEN x.next ELSE Len(d)
    IN  IF x.append THEN Append(d, chunk)
        ELSE [k \in 1 .. longer |->
                IF k = x.next THEN chunk ELSE IF k <= Len(d) THEN d[k] ELSE Hole]

Advanced(x) == [to |-> x.to, append |-> x.append, of |-> x.of, next |-> x.next + 1]

ContainerMatches(o, c) == o.hash # None /\ c = o.hash
PayloadMatches(o, c) == o.hash # None /\ c \in Contents /\ Payload[c] = o.hash
-----------------------------------------------------------------------------
Active(p) == pc[p] \notin {"idle", "done"}
At(p, where) == pc[p] = where
Goes(p, to) == pc' = [pc EXCEPT ![p] = to]
Src(p) == Sources[idx[p]]
AtSource(p, kind) ==
    At(p, "source") /\ idx[p] <= Len(Sources) /\ Src(p).kind = kind

\* "continue" in the loop over the sources.
Continue(p) == Goes(p, "source") /\ idx' = [idx EXCEPT ![p] = @ + 1]

Closed(p) == xfer' = [xfer EXCEPT ![p] = NoXfer]

\* The runs that this one overlaps with.
Others(p) == {q \in Procs \ {p} : Active(q)}

\* The process ends: its locals and its descriptors go with it.
Finish(p, code, why, c) ==
    /\ Goes(p, "done")
    /\ rc' = [rc EXCEPT ![p] = code]
    /\ how' = [how EXCEPT ![p] = why]
    /\ seen' = [seen EXCEPT ![p] = c]
    /\ beside' = [beside EXCEPT ![p] = Others(p)]
    /\ idx' = [idx EXCEPT ![p] = 1]
    /\ validSig' = [validSig EXCEPT ![p] = FALSE]
    /\ Closed(p)
    /\ UNCHANGED <<archive, part, sigFile, opt>>
    /\ Stored(data)

Init ==
    /\ archive = None /\ part = None /\ sigFile = None
    /\ data = [i \in Inodes |-> <<>>]
    /\ pc = [p \in Procs |-> "idle"]
    /\ opt \in [Procs -> Options]
    /\ idx = [p \in Procs |-> 1]
    /\ rc = [p \in Procs |-> 1]
    /\ validSig = [p \in Procs |-> FALSE]
    /\ xfer = [p \in Procs |-> NoXfer]
    /\ how = [p \in Procs |-> "running"]
    /\ seen = [p \in Procs |-> None]
    /\ beside = [p \in Procs |-> {}]
    /\ kills = 0
-----------------------------------------------------------------------------
\* A new run, with whatever the recipe and the caller now ask for.
Start(p) ==
    /\ ~Active(p)
    /\ \E o \in Options : opt' = [opt EXCEPT ![p] = o]
    /\ Goes(p, "begin")
    /\ rc' = [rc EXCEPT ![p] = 1]
    /\ how' = [how EXCEPT ![p] = "running"]
    /\ seen' = [seen EXCEPT ![p] = None]
    /\ beside' = [beside EXCEPT ![p] = {}]
    /\ UNCHANGED <<files, sigFile, idx, validSig, xfer, kills>>

HashRequired(p) ==
    /\ At(p, "begin") /\ opt[p].needHash /\ opt[p].hash = None
    /\ Finish(p, 4, "no hash", None)
    /\ UNCHANGED kills

Proceed(p) ==
    /\ At(p, "begin") /\ ~(opt[p].needHash /\ opt[p].hash = None)
    /\ Goes(p, "source")
    /\ UNCHANGED <<files, sigFile, opt, idx, rc, validSig, xfer, how,
                   seen, beside, kills>>

\* Mutant: retval starts at 0.
Exhausted_RetvalZero(p) ==
    /\ At(p, "source") /\ idx[p] > Len(Sources)
    /\ Finish(p, IF rc[p] = 1 THEN 0 ELSE rc[p], "exhausted", None)
    /\ UNCHANGED kills

Exhausted(p) ==
    /\ At(p, "source") /\ idx[p] > Len(Sources)
    /\ Finish(p, rc[p], "exhausted", None)
    /\ UNCHANGED kills

\* The first source is the archive file itself: "cached" when it is there.
Cached(p) ==
    /\ AtSource(p, "self") /\ archive # None
    /\ Goes(p, "sig")
    /\ UNCHANGED <<files, sigFile, opt, idx, rc, validSig, xfer, how,
                   seen, beside, kills>>

\* Mutant: the first source is passed over although the file is there.
Unavailable_PassesFile(p) ==
    /\ At(p, "source") /\ idx[p] <= Len(Sources) /\ ~Src(p).reliable
    /\ Continue(p)
    /\ UNCHANGED <<files, sigFile, opt, rc, validSig, xfer, how,
                   seen, beside, kills>>

\* A local file that is not there, a HEAD request that fails.
Unavailable(p) ==
    /\ \/ AtSource(p, "self") /\ archive = None
       \/ AtSource(p, "local") /\ ~Src(p).reliable
       \/ AtSource(p, "remote") /\ ~Src(p).reliable
    /\ Continue(p)
    /\ UNCHANGED <<files, sigFile, opt, rc, validSig, xfer, how,
                   seen, beside, kills>>

\* shutil.copy2() onto the archive name: truncates the file that is there.
CopyLocal(p) ==
    /\ AtSource(p, "local")
    /\ \E c \in Src(p).offer, i \in Inodes :
         /\ IF archive = None THEN i \notin Live ELSE i = archive
         /\ archive' = i
         /\ xfer' = [xfer EXCEPT ![p] =
                       [to |-> i, append |-> FALSE, of |-> c, next |-> 1]]
         /\ data' = [data EXCEPT ![i] = <<>>]
    /\ Goes(p, "copy")
    /\ UNCHANGED <<part, sigFile, opt, idx, rc, validSig, how, seen, beside, kills>>

\* The copy leaves "name" at None: the caller goes on to the next source.
CopyDone(p) ==
    /\ At(p, "copy") /\ xfer[p].next > NChunks
    /\ Continue(p) /\ Closed(p)
    /\ UNCHANGED <<archive, part, sigFile, opt, rc, validSig, how,
                   seen, beside, kills>>
    /\ Stored(data)

\* Mutant: the Range header skips the byte after the end of .part.
OpenPart_SkipsOne(p) ==
    /\ AtSource(p, "remote")
    /\ \E c \in Src(p).offer, i \in Inodes :
         LET append == Src(p).ranges
             old == IF append THEN data[i] ELSE <<>>
             gap == IF old = <<>> THEN 1 ELSE 2
         IN  /\ IF part = None THEN i \notin Live ELSE i = part
             /\ part' = i
             /\ data' = [data EXCEPT ![i] = old]
             /\ xfer' = [xfer EXCEPT ![p] =
                   [to |-> i, append |-> append, of |-> c, next |-> Len(old) + gap]]
    /\ Goes(p, "get")
    /\ UNCHANGED <<archive, sigFile, opt, idx, rc, validSig, how,
                   seen, beside, kills>>

\* HEAD succeeds; .part is opened for appending or truncated.
OpenPart(p) ==
    /\ AtSource(p, "remote")
    /\ \E c \in Src(p).offer, i \in Inodes :
         LET append == Src(p).ranges
             old == IF append THEN data[i] ELSE <<>>
         IN  /\ IF part = None THEN i \notin Live ELSE i = part
             /\ part' = i
             /\ data' = [data EXCEPT ![i] = old]
             /\ xfer' = [xfer EXCEPT ![p] =
                   [to |-> i, append |-> append, of |-> c, next |-> Len(old) + 1]]
    /\ Goes(p, "get")
    /\ UNCHANGED <<archive, sigFile, opt, idx, rc, validSig, how,
                   seen, beside, kills>>

\* GET answers; with a Range header when .part held something.
GetOk(p) ==
    /\ At(p, "get") /\ xfer[p].next <= NChunks
    /\ Goes(p, "body")
    /\ UNCHANGED <<files, sigFile, opt, idx, rc, validSig, xfer, how,
                   seen, beside, kills>>

\* Mutant: another attempt is made on the closed file.
GetFail_RetriesClosed(p) ==
    /\ At(p, "get") /\ (xfer[p].next > NChunks \/ ~Src(p).reliable)
    /\ Closed(p)
    /\ UNCHANGED <<archive, part, sigFile, pc, opt, idx, rc, validSig, how,
                   seen, beside, kills>>
    /\ Stored(data)

\* Mutant: a failed GET leaves .part for a later run.
GetFail_KeepsPart(p) ==
    /\ At(p, "get") /\ (xfer[p].next > NChunks \/ ~Src(p).reliable)
    /\ Continue(p) /\ Closed(p)
    /\ UNCHANGED <<archive, part, sigFile, opt, rc, validSig, how,
                   seen, beside, kills>>
    /\ Stored(data)

\* URLError or HTTPError (416 for a .part that is already complete): the loop
\* of attempts ends and .part is renamed as it is.
GetFail(p) ==
    /\ At(p, "get") /\ (xfer[p].next > NChunks \/ ~Src(p).reliable)
    /\ Goes(p, "rename") /\ Closed(p)
    /\ UNCHANGED <<archive, part, sigFile, opt, idx, rc, validSig, how,
                   seen, beside, kills>>
    /\ Stored(data)

WriteChunk(p) ==
    /\ pc[p] \in {"body", "copy"} /\ xfer[p].next <= NChunks
    /\ data' = [data EXCEPT ![xfer[p].to] = Written(@, xfer[p])]
    /\ xfer' = [xfer EXCEPT ![p] = Advanced(@)]
    /\ UNCHANGED <<archive, part, sigFile, pc, opt, idx, rc, validSig, how,
                   seen, beside, kills>>

\* End of the body, or the server closed early: unless the body is chunked,
\* nothing tells the two apart.
BodyEnds(p) ==
    /\ At(p, "body")
    /\ xfer[p].next > NChunks \/ ~(Src(p).reliable \/ Src(p).chunked)
    /\ Goes(p, "rename") /\ Closed(p)
    /\ UNCHANGED <<archive, part, sigFile, opt, idx, rc, validSig, how,
                   seen, beside, kills>>
    /\ Stored(data)

\* An OSError while reading or writing, or Ctrl-C: download() returns None.
BodyError(p) ==
    /\ At(p, "body") /\ ~Src(p).reliable
    /\ Continue(p) /\ Closed(p)
    /\ UNCHANGED <<archive, part, sigFile, opt, rc, validSig, how,
                   seen, beside, kills>>
    /\ Stored(data)

\* An exception nothing catches: IncompleteRead of a chunked body, an OSError
\* of the copy.
Traceback(p) ==
    /\ At(p, "copy") \/ (At(p, "body") /\ Src(p).chunked)
    /\ ~Src(p).reliable
    /\ Finish(p, 1, "traceback", None)
    /\ UNCHANGED kills

\* Mutant: .part is linked to the archive name instead of renamed.
Rename_Links(p) ==
    /\ At(p, "rename") /\ part # None
    /\ archive' = part
    /\ Goes(p, "sig")
    /\ UNCHANGED <<part, sigFile, opt, idx, rc, validSig, xfer, how,
                   seen, beside, kills>>
    /\ Stored(data)

Rename(p) ==
    /\ At(p, "rename") /\ part # None
    /\ archive' = part /\ part' = None
    /\ Goes(p, "sig")
    /\ UNCHANGED <<sigFile, opt, idx, rc, validSig, xfer, how, seen, beside, kills>>
    /\ Stored(data)

\* Another run renamed .part first: FileNotFoundError, download() returns None.
RenameFails(p) ==
    /\ At(p, "rename") /\ part = None
    /\ Continue(p)
    /\ UNCHANGED <<files, sigFile, opt, rc, validSig, xfer, how,
                   seen, beside, kills>>
-----------------------------------------------------------------------------
\* A signature download may fail, bring a signature of some content, or bring
\* a truncated file; otherwise the file already on disk is used.
FetchesSignature(p) ==
    \/ opt[p].sigFrom = "sigurl" /\ ~validSig[p]
    \/ opt[p].sigFrom = "mirror" /\ Src(p).kind = "remote"

ObtainSignature(p) ==
    /\ At(p, "sig")
    /\ \/ UNCHANGED sigFile
       \/ FetchesSignature(p) /\ sigFile' \in Signed \cup {Garbage}
    /\ Goes(p, "verify")
    /\ UNCHANGED <<files, opt, idx, rc, validSig, xfer, how, seen, beside, kills>>

SignatureVerifies(p) == opt[p].gpg /\ Reading \in Contents /\ sigFile = Reading

\* valid_sig is never reset between sources.
ValidSignature(p) == validSig[p] \/ SignatureVerifies(p)

\* Mutant: a valid signature decides even where a hash is demanded.
SignatureAccepts_AnyRun(p) ==
    /\ At(p, "verify") /\ ValidSignature(p)
    /\ Finish(p, 0, "signature", Reading)
    /\ UNCHANGED kills

SignatureAccepts(p) ==
    /\ At(p, "verify") /\ ValidSignature(p) /\ ~opt[p].needHash
    /\ Finish(p, 0, "signature", Reading)
    /\ UNCHANGED kills

SignatureThenHash(p) ==
    /\ At(p, "verify") /\ ValidSignature(p) /\ opt[p].needHash
    /\ validSig' = [validSig EXCEPT ![p] = TRUE]
    /\ Goes(p, "hash")
    /\ UNCHANGED <<files, sigFile, opt, idx, rc, xfer, how, seen, beside, kills>>

\* "break": the loop over the sources ends with the exit code it had.
SignatureInvalid(p) ==
    /\ At(p, "verify") /\ ~ValidSignature(p) /\ sigFile # None
    /\ Finish(p, rc[p], "bad signature", None)
    /\ UNCHANGED kills

SignatureRequired(p) ==
    /\ At(p, "verify") /\ ~ValidSignature(p) /\ sigFile = None /\ opt[p].needSig
    /\ rc' = [rc EXCEPT ![p] = 3]
    /\ Goes(p, "discard")
    /\ UNCHANGED <<files, sigFile, opt, idx, validSig, xfer, how,
                   seen, beside, kills>>

SignatureAbsent(p) ==
    /\ At(p, "verify") /\ ~ValidSignature(p) /\ sigFile = None /\ ~opt[p].needSig
    /\ Goes(p, "hash")
    /\ UNCHANGED <<files, sigFile, opt, idx, rc, validSig, xfer, how,
                   seen, beside, kills>>

HashAccepts(p) ==
    /\ At(p, "hash") /\ ContainerMatches(opt[p], Reading)
    /\ Finish(p, 0, "hash", Reading)
    /\ UNCHANGED kills

\* The file is opened a second time to hash its payload.
HashDiffers(p) ==
    /\ At(p, "hash") /\ opt[p].hash # None /\ ~ContainerMatches(opt[p], Reading)
    /\ Goes(p, "payload")
    /\ UNCHANGED <<files, sigFile, opt, idx, rc, validSig, xfer, how,
                   seen, beside, kills>>

PayloadAccepts(p) ==
    /\ At(p, "payload") /\ PayloadMatches(opt[p], Reading)
    /\ Finish(p, 0, "payload", Reading)
    /\ UNCHANGED kills

\* Mutant: the next source is tried without removing the file.
PayloadDiffers_Leaves(p) ==
    /\ At(p, "payload") /\ ~PayloadMatches(opt[p], Reading)
    /\ rc' = [rc EXCEPT ![p] = 3]
    /\ Continue(p)
    /\ UNCHANGED <<files, sigFile, opt, validSig, xfer, how, seen, beside, kills>>

PayloadDiffers(p) ==
    /\ At(p, "payload") /\ ~PayloadMatches(opt[p], Reading)
    /\ rc' = [rc EXCEPT ![p] = 3]
    /\ Goes(p, "discard")
    /\ UNCHANGED <<files, sigFile, opt, idx, validSig, xfer, how,
                   seen, beside, kills>>

\* The end of a compressed stream is missing: EOFError, which validate() catches.
CutShort(d) == \E c \in Contents :
    Len(d) < NChunks /\ \A k \in 1 .. Len(d) : d[k] = <<c, k>>

\* Data that zlib cannot make sense of raise zlib.error, which nothing catches:
\* the file stays.
PayloadTraceback(p) ==
    /\ At(p, "payload") /\ archive # None
    /\ ~PayloadMatches(opt[p], Reading) /\ ~CutShort(data[archive])
    /\ Finish(p, 1, "traceback", None)
    /\ UNCHANGED kills

UnverifiedAccepted(p) ==
    /\ At(p, "hash") /\ opt[p].hash = None /\ opt[p].allow /\ Src(p).secure
    /\ Finish(p, 0, "unverified", Reading)
    /\ UNCHANGED kills

UnverifiedRefused(p) ==
    /\ At(p, "hash") /\ opt[p].hash = None /\ ~(opt[p].allow /\ Src(p).secure)
    /\ rc' = [rc EXCEPT ![p] = IF opt[p].allow THEN 2 ELSE 3]
    /\ Goes(p, "discard")
    /\ UNCHANGED <<files, sigFile, opt, idx, validSig, xfer, how,
                   seen, beside, kills>>

\* Mutant: --keep is ignored.
Discard_Always(p) ==
    /\ At(p, "discard")
    /\ archive' = None
    /\ Continue(p)
    /\ UNCHANGED <<part, sigFile, opt, rc, validSig, xfer, how,
                   seen, beside, kills>>
    /\ Stored(data)

\* os.remove(name), whatever the name now refers to; OSError is ignored.
Discard(p) ==
    /\ At(p, "discard")
    /\ archive' = IF opt[p].keep THEN archive ELSE None
    /\ Continue(p)
    /\ UNCHANGED <<part, sigFile, opt, rc, validSig, xfer, how,
                   seen, beside, kills>>
    /\ Stored(data)

\* SIGKILL, a power loss, Ctrl-C outside download(): nothing is cleaned up.
Kill(p) ==
    /\ Active(p) /\ kills < MaxKills
    /\ kills' = kills + 1
    /\ Finish(p, 130, "killed", None)
-----------------------------------------------------------------------------
Step(p) ==
    \/ HashRequired(p) \/ Proceed(p) \/ Exhausted(p) \/ Cached(p) \/ Unavailable(p)
    \/ CopyLocal(p) \/ CopyDone(p)
    \/ OpenPart(p) \/ GetOk(p) \/ GetFail(p) \/ WriteChunk(p)
    \/ BodyEnds(p) \/ BodyError(p) \/ Traceback(p) \/ Rename(p) \/ RenameFails(p)
    \/ ObtainSignature(p) \/ SignatureAccepts(p) \/ SignatureThenHash(p)
    \/ SignatureInvalid(p) \/ SignatureRequired(p) \/ SignatureAbsent(p)
    \/ HashAccepts(p) \/ HashDiffers(p) \/ PayloadAccepts(p) \/ PayloadDiffers(p)
    \/ PayloadTraceback(p)
    \/ UnverifiedAccepted(p) \/ UnverifiedRefused(p) \/ Discard(p)

Next == \E p \in Procs : Start(p) \/ Step(p) \/ Kill(p)

Spec == Init /\ [][Next]_vars

\* A started run is scheduled and every request of it ends, one way or the
\* other; whoever started a run that did not succeed starts it again.
Again(p) == ~(pc[p] = "done" /\ rc[p] = 0) /\ Start(p)
FairSpec == Spec /\ \A p \in Procs : WF_vars(Step(p)) /\ WF_vars(Again(p))
-----------------------------------------------------------------------------
States == {"idle", "begin", "source", "copy", "get", "body", "rename",
           "sig", "verify", "hash", "payload", "discard", "done"}
Reasons == {"running", "no hash", "exhausted", "traceback", "killed",
            "bad signature", "signature", "hash", "payload", "unverified"}
Codes == {0, 1, 2, 3, 4, 130}
Found == Contents \cup {Garbage, None}

\* Types; a run that copies or downloads has its descriptor open.
TypeOK ==
    /\ archive \in Inodes \cup {None} /\ part \in Inodes \cup {None}
    /\ data \in [Inodes -> Seq(Chunk \cup {Hole})]
    /\ sigFile \in Signed \cup {Garbage, None}
    /\ pc \in [Procs -> States]
    /\ opt \in [Procs -> Options]
    /\ idx \in [Procs -> Nat \ {0}]
    /\ rc \in [Procs -> Codes]
    /\ validSig \in [Procs -> BOOLEAN]
    /\ xfer \in [Procs -> OpenXfer \cup {NoXfer}]
    /\ \A p \in Procs : pc[p] \in {"copy", "get", "body"} => xfer[p] \in OpenXfer
    /\ how \in [Procs -> Reasons]
    /\ seen \in [Procs -> Found]
    /\ beside \in [Procs -> SUBSET Procs]
    /\ kills \in 0 .. MaxKills

\* A file this run's options accept.
Acceptable(o, c) ==
    \/ ContainerMatches(o, c) \/ PayloadMatches(o, c)
    \/ c \in Signed
    \/ o.hash = None /\ o.allow

\* Exit code 0 is given only on a file whose hash, payload hash or signature was
\* found right in this very run, or with no hash at all where the user allowed
\* it: a signature that was good for the file of an earlier source is never
\* taken for this one (valid_sig outlives the source it was computed for).
SuccessIsValidated ==
    \A p \in Procs : pc[p] = "done" /\ rc[p] = 0 =>
        \/ how[p] = "signature" /\ seen[p] \in Signed
        \/ how[p] = "hash" /\ ContainerMatches(opt[p], seen[p])
        \/ how[p] = "payload" /\ PayloadMatches(opt[p], seen[p])
        \/ how[p] = "unverified" /\ opt[p].hash = None /\ opt[p].allow
                                 /\ ~opt[p].needHash

\* The archive name and the .part name never refer to one inode, whoever
\* opens, renames, copies or removes: no download in progress is the archive
\* under its final name because two names met.
NamesApart == archive # None => archive # part

\* What README:101 says sharing is for: several workspaces, one archive
\* directory.  Every run that ended well, and did not start again, still finds
\* under the archive name the file it validated.
ValidatedFileInPlace ==
    \A p \in Procs : pc[p] = "done" /\ rc[p] = 0 => Reading = seen[p]

\* A file that a run validated while no other was under way is never disturbed
\* by runs of the same recipe that begin afterwards, however many of them
\* overlap: they find it in place, take it and download nothing.  Only a run
\* that had looked for the archive before can put another file there.
OnlyBesideSpoils ==
    \A p \in Procs :
        pc[p] = "done" /\ rc[p] = 0 /\ beside[p] = {} => Reading = seen[p]

\* A run that tried every source and failed leaves nothing under the archive
\* name, whatever earlier runs were killed or kept files, unless --keep was
\* given or a local source put its copy there.
FailureLeavesNothing ==
    \A p \in Procs : how[p] = "exhausted" /\ ~opt[p].keep =>
        \/ Reading = None
        \/ \E k \in DOMAIN Sources :
             Sources[k].kind = "local" /\ Reading \in Sources[k].offer

\* The header comment, userland-fetch:59-64: with -N a file whose signature
\* fails is deleted unless --keep is set.
BadSignatureDeletes ==
    \A p \in Procs :
        how[p] = "bad signature" /\ opt[p].needSig /\ ~opt[p].keep => Reading = None

\* A file is removed only by a run that was not told to keep it and, unless a
\* signature was demanded, only when it does not match the recipe's hash; never
\* when the signature next to it is valid and decides (userland-fetch:805).
RemovesOnlyRefused ==
    [][archive # None /\ archive' = None =>
         \E p \in Procs :
            /\ ~opt[p].keep
            /\ ~(SignatureVerifies(p) /\ ~opt[p].needHash)
            /\ \/ opt[p].needSig
               \/ ~ContainerMatches(opt[p], Reading) /\ ~PayloadMatches(opt[p], Reading)
      ]_vars

\* Where every mirror serves the same file, what .part holds is always a prefix
\* of it: a later run, or the next mirror, can resume after any interruption.
PartIsPrefix ==
    part # None => \E c \in Contents :
        /\ Len(data[part]) <= NChunks
        /\ \A k \in 1 .. Len(data[part]) : data[part][k] = <<c, k>>

\* The file in place is refused by the signature next to it, truncated or of
\* another file as either of them may be: userland-fetch:717 leaves both.
RefusedInPlace ==
    archive # None /\ sigFile # None /\ ~(Reading \in Contents /\ sigFile = Reading)

\* Runs repeated after failures and kills end well for ever again, once some
\* source stays reachable and where every mirror serves the recipe's file: no
\* .part or archive file left behind stops later runs from succeeding, with one
\* exception the code has: a file that the signature on disk refuses is never
\* removed.
EventuallyVerified ==
    \A p \in Procs : []<>(pc[p] = "done" /\ rc[p] = 0) \/ <>[]RefusedInPlace

\* A single run at a time implements the promise of FetchPromise.
Phase(p) == CASE pc[p] = "idle" -> "idle"
              [] pc[p] = "done" -> IF rc[p] = 0 THEN "ok" ELSE "failed"
              [] OTHER -> "fetching"
OneRun == CHOOSE p \in Procs : TRUE
Promise == INSTANCE FetchPromise WITH
              Files <- Contents \cup {Garbage}, Missing <- None,
              phase <- Phase(OneRun),
              want <- {c \in Contents \cup {Garbage} : Acceptable(opt[OneRun], c)},
              file <- Reading
ImplementsPromise == Promise!Spec
=============================================================================
