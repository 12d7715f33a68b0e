---------------------- MODULE UserlandFetchAloneProofs ----------------------
(***************************************************************************)
(* Proofs about UserlandFetch where runs on one archive name come one      *)
(* after the other: Procs = {p}.  What the options of a run promise about  *)
(* the file holds then for every list of sources, every option, any number *)
(* of chunks and of kills; fetch_shared_stays shows what is left of it     *)
(* when runs overlap.                                                      *)
(***************************************************************************)
EXTENDS UserlandFetchProofs, SequenceTheorems

\* The steps by what they do to the files.  The run ends.
Ends(p) ==
    \/ HashRequired(p) \/ Exhausted(p) \/ Traceback(p) \/ PayloadTraceback(p) \/ Kill(p)
    \/ SignatureAccepts(p) \/ SignatureInvalid(p)
    \/ HashAccepts(p) \/ PayloadAccepts(p) \/ UnverifiedAccepted(p)

\* The files and the descriptor stay as they are.
Decides(p) ==
    \/ Start(p) \/ Proceed(p) \/ Cached(p) \/ Unavailable(p) \/ GetOk(p)
    \/ RenameFails(p) \/ ObtainSignature(p) \/ SignatureThenHash(p)
    \/ SignatureRequired(p) \/ SignatureAbsent(p) \/ HashDiffers(p)
    \/ PayloadDiffers(p) \/ UnverifiedRefused(p)

\* The descriptor is closed and both names stay.
Closes(p) == CopyDone(p) \/ GetFail(p) \/ BodyEnds(p) \/ BodyError(p)

LEMMA EveryStep ==
    ASSUME NEW p, Procs = {p}, [Next]_vars
    PROVE  \/ UNCHANGED vars \/ Ends(p) \/ Decides(p) \/ Closes(p)
           \/ CopyLocal(p) \/ OpenPart(p) \/ WriteChunk(p) \/ Rename(p) \/ Discard(p)
  <1>1. CASE UNCHANGED vars
    BY <1>1
  <1>2. CASE Start(p) \/ Step(p) \/ Kill(p)
    BY <1>2 DEF Step, Ends, Decides, Closes
  <1> QED
    BY <1>1, <1>2 DEF Next

\* What a step that ends the run leaves behind.
LEMMA EndsFrame ==
    ASSUME TypeOK, NEW p \in Procs, Ends(p)
    PROVE  /\ pc' = [pc EXCEPT ![p] = "done"] /\ xfer' = [xfer EXCEPT ![p] = NoXfer]
           /\ UNCHANGED <<archive, part, sigFile, opt>> /\ Stored(data)
           /\ Active(p) /\ idx'[p] = 1
           /\ how'[p] # "exhausted" \/ Exhausted(p)
  <1>1. ASSUME NEW code, NEW why, NEW c, Finish(p, code, why, c)
        PROVE  /\ pc' = [pc EXCEPT ![p] = "done"]
               /\ xfer' = [xfer EXCEPT ![p] = NoXfer]
               /\ UNCHANGED <<archive, part, sigFile, opt>> /\ Stored(data)
               /\ idx'[p] = 1 /\ how'[p] = why
    BY <1>1 DEF Finish, Goes, Closed, TypeOK
  <1>2. \E code, why, c :
            Finish(p, code, why, c) /\ (why # "exhausted" \/ Exhausted(p))
    <2>1. CASE Exhausted(p)
      <3>1. Finish(p, rc[p], "exhausted", None)
        BY <2>1 DEF Exhausted
      <3> QED
        BY <2>1, <3>1
    <2>2. CASE ~Exhausted(p)
      <3>1. PICK why \in {"no hash", "traceback", "killed", "bad signature",
                          "signature", "hash", "payload", "unverified"} :
              \E code, c : Finish(p, code, why, c)
        BY <2>2 DEF Ends, HashRequired, Traceback, PayloadTraceback, Kill, SignatureAccepts,
           SignatureInvalid, HashAccepts, PayloadAccepts, UnverifiedAccepted
      <3>2. why # "exhausted"
        OBVIOUS
      <3> QED
        BY <3>1, <3>2
    <2> QED
      BY <2>1, <2>2
  <1>3. Active(p)
    BY DEF Ends, HashRequired, Exhausted, Traceback, PayloadTraceback, Kill, SignatureAccepts,
       SignatureInvalid, HashAccepts, PayloadAccepts, UnverifiedAccepted, At, Active
  <1> QED
    BY <1>1, <1>2, <1>3

LEMMA DecidesFrame ==
    ASSUME TypeOK, NEW p \in Procs, Decides(p)
    PROVE  /\ UNCHANGED <<archive, part, data, xfer>>
           /\ pc'[p] \in {"begin", "source", "sig", "body", "verify", "hash",
                          "payload", "discard"}
           /\ pc'[p] = "body" => pc[p] = "get"
           /\ pc[p] \notin {"copy", "body"}
           /\ ~Start(p) => pc[p] \notin {"idle", "done"} /\ UNCHANGED opt
           /\ pc[p] = "get" => pc'[p] = "body"
  BY DEF Decides, Start, Proceed, Cached, Unavailable, GetOk, RenameFails,
     ObtainSignature, SignatureThenHash, SignatureRequired, SignatureAbsent,
     HashDiffers, PayloadDiffers, UnverifiedRefused, files, Goes, Continue, At,
     AtSource, TypeOK, Active

LEMMA ClosesFrame ==
    ASSUME TypeOK, NEW p \in Procs, Closes(p)
    PROVE  /\ UNCHANGED <<archive, part, opt, how, sigFile>> /\ Stored(data)
           /\ xfer' = [xfer EXCEPT ![p] = NoXfer]
           /\ pc'[p] \in {"source", "rename"}
           /\ pc[p] \in {"copy", "get", "body"}
           /\ pc[p] = "copy" <=> CopyDone(p)
           /\ idx'[p] \in {idx[p], idx[p] + 1}
  BY DEF Closes, CopyDone, GetFail, BodyEnds, BodyError, Goes, Continue, Closed, At,
     TypeOK
-----------------------------------------------------------------------------
\* What a reader finds depends on the name and on what its inode holds.
LEMMA ReadingKept ==
    ASSUME UNCHANGED archive, archive # None => data'[archive] = data[archive]
    PROVE  Reading' = Reading
  <1> DEFINE Read(a, d) ==
        IF a = None THEN None
        ELSE IF \E c \in Contents : d = Whole(c)
             THEN CHOOSE c \in Contents : d = Whole(c)
             ELSE Garbage
  <1>1. Reading = Read(archive, data[archive])
    BY DEF Reading
  <1>2. Reading' = Read(archive', data'[archive'])
    BY DEF Reading
  <1>3. archive = None => Read(archive, data[archive]) = Read(archive', data'[archive'])
    OBVIOUS
  <1> HIDE DEF Read
  <1> QED
    BY <1>1, <1>2, <1>3

\* A whole content is read as that content.
LEMMA WholeIsRead ==
    ASSUME NEW c \in Contents, archive # None, data[archive] = Whole(c)
    PROVE  Reading = c
  <1>1. ASSUME NEW e \in Contents, Whole(c) = Whole(e)
        PROVE  e = c
    <2>1. 1 \in 1 .. NChunks
      BY FetchAssumption
    <2>2. Whole(c)[1] = <<c, 1>> /\ Whole(e)[1] = <<e, 1>>
      BY <2>1 DEF Whole
    <2> QED
      BY <2>2, <1>1
  <1> QED
    BY <1>1 DEF Reading
-----------------------------------------------------------------------------
\* The one run has open what its program counter says, under the name it is
\* writing to, and a file nobody refers to holds nothing.
Opened(p) ==
    /\ pc[p] \notin {"copy", "get", "body"} => xfer[p] = NoXfer
    /\ pc[p] = "copy" => xfer[p].to = archive
    /\ pc[p] \in {"get", "body"} => xfer[p].to = part
    /\ \A i \in Inodes : i \in Live \/ data[i] = <<>>

LEMMA StoredFrees ==
    ASSUME NEW d, Stored(d)
    PROVE  \A i \in Inodes : i \in Live' \/ data'[i] = <<>>
  BY DEF Stored

LEMMA LiveAlone ==
    ASSUME NEW p, Procs = {p}
    PROVE  /\ Live = {archive, part, xfer[p].to}
           /\ Live' = {archive', part', xfer'[p].to}
  BY DEF Live

LEMMA StepOpened ==
    ASSUME NEW p, Procs = {p}, TypeOK, NamesApart, Opened(p), [Next]_vars
    PROVE  Opened(p)'
  <1> USE DEF Opened
  <1>0. p \in Procs /\ None \notin Inodes
    BY FetchAssumption
  <1>1. CASE UNCHANGED vars
    BY <1>1 DEF vars, Live
  <1>2. CASE Ends(p)
    BY <1>0, <1>2, EndsFrame, StoredFrees DEF TypeOK
  <1>3. CASE Decides(p)
    BY <1>0, <1>3, DecidesFrame, LiveAlone
  <1>4. CASE Closes(p)
    BY <1>0, <1>4, ClosesFrame, StoredFrees DEF TypeOK
  <1>5. CASE CopyLocal(p)
    <2>1. PICK c \in Src(p).offer, i \in Inodes :
            /\ archive = None \/ i = archive
            /\ archive' = i
            /\ xfer' = [xfer EXCEPT ![p] =
                          [to |-> i, append |-> FALSE, of |-> c, next |-> 1]]
            /\ data' = [data EXCEPT ![i] = <<>>]
      BY <1>5 DEF CopyLocal
    <2>2. pc[p] = "source" /\ pc'[p] = "copy" /\ part' = part
      BY <1>0, <1>5 DEF CopyLocal, AtSource, At, Goes, TypeOK
    <2>3. xfer'[p].to = i
      BY <1>0, <2>1 DEF TypeOK
    <2>4. xfer[p].to = None
      BY <2>2 DEF NoXfer
    <2>5. ASSUME NEW j \in Inodes
          PROVE  j \in Live' \/ data'[j] = <<>>
      <3>1. Live = {archive, part, None} /\ Live' = {i, part, i}
        BY <1>0, <2>1, <2>2, <2>3, <2>4, LiveAlone
      <3>2. data'[i] = <<>> /\ (j # i => data'[j] = data[j])
        BY <2>1 DEF TypeOK
      <3> QED
        BY <1>0, <2>1, <3>1, <3>2
    <2> QED
      BY <2>1, <2>2, <2>3, <2>5
  <1>6. CASE OpenPart(p)
    <2> DEFINE Old(i) == IF Src(p).ranges THEN data[i] ELSE <<>>
    <2>1. PICK c \in Src(p).offer, i \in Inodes :
            /\ part = None \/ i = part
            /\ part' = i
            /\ xfer' = [xfer EXCEPT ![p] =
                   [to |-> i, append |-> Src(p).ranges, of |-> c,
                    next |-> Len(Old(i)) + 1]]
            /\ data' = [data EXCEPT ![i] = Old(i)]
      BY <1>6 DEF OpenPart
    <2>2. pc[p] = "source" /\ pc'[p] = "get" /\ archive' = archive
      BY <1>0, <1>6 DEF OpenPart, AtSource, At, Goes, TypeOK
    <2> HIDE DEF Old
    <2>3. xfer'[p].to = i
      BY <1>0, <2>1 DEF TypeOK
    <2>4. xfer[p].to = None
      BY <2>2 DEF NoXfer
    <2>5. ASSUME NEW j \in Inodes, j \notin Live'
          PROVE  data'[j] = <<>>
      <3>1. Live = {archive, part, None} /\ Live' = {archive, i}
        BY <2>1, <2>2, <2>3, <2>4, LiveAlone
      <3>2. j # i /\ j \notin Live
        BY <1>0, <2>1, <2>5, <3>1
      <3>3. data'[j] = data[j]
        BY <2>1, <3>2 DEF TypeOK
      <3> QED
        BY <3>2, <3>3
    <2> QED
      BY <2>1, <2>2, <2>3, <2>5
  <1>7. CASE WriteChunk(p)
    <2>1. xfer'[p].to = xfer[p].to /\ UNCHANGED <<archive, part, pc>>
      BY <1>0, <1>7 DEF WriteChunk, Advanced, TypeOK
    <2>2. \A j \in Inodes \ {xfer[p].to} : data'[j] = data[j]
      BY <1>7 DEF WriteChunk, TypeOK
    <2>3. pc[p] \in {"copy", "body"}
      BY <1>7 DEF WriteChunk
    <2> QED
      BY <2>1, <2>2, <2>3, LiveAlone
  <1>8. CASE Rename(p) \/ Discard(p)
    <2>1. /\ xfer' = xfer /\ pc[p] \in {"rename", "discard"}
          /\ pc'[p] \in {"sig", "source"} /\ Stored(data)
      BY <1>0, <1>8 DEF Rename, Discard, At, Goes, Continue, TypeOK
    <2> QED
      BY <2>1, StoredFrees
  <1> QED
    BY <1>1, <1>2, <1>3, <1>4, <1>5, <1>6, <1>7, <1>8, EveryStep
-----------------------------------------------------------------------------
\* What one run reads while it decides about the file it put in place stays the
\* file it decides about.
LEMMA DecidesReading ==
    ASSUME UNCHANGED <<archive, data>>
    PROVE  Reading' = Reading
  BY ReadingKept

LEMMA StoredReading ==
    ASSUME TypeOK, UNCHANGED archive, Stored(data)
    PROVE  Reading' = Reading
  <1>1. archive # None => data'[archive] = data[archive]
    BY StoredKeeps DEF TypeOK
  <1> QED
    BY <1>1, ReadingKept

\* What is known of the file when a run comes to remove it.
Judged(p) ==
    /\ pc[p] \in {"sig", "verify", "hash", "payload", "discard"} => archive # None
    /\ pc[p] \in {"hash", "payload", "discard"} =>
          ~(SignatureVerifies(p) /\ ~opt[p].needHash)
    /\ pc[p] = "payload" => ~ContainerMatches(opt[p], Reading)
    /\ pc[p] = "discard" =>
          \/ opt[p].needSig
          \/ ~ContainerMatches(opt[p], Reading) /\ ~PayloadMatches(opt[p], Reading)

\* The signature and the hashes say the same of the same file.
LEMMA SameVerdict ==
    ASSUME NEW p, UNCHANGED <<archive, data>>, opt'[p] = opt[p]
    PROVE  /\ ContainerMatches(opt[p], Reading)' <=> ContainerMatches(opt[p], Reading)
           /\ PayloadMatches(opt[p], Reading)' <=> PayloadMatches(opt[p], Reading)
           /\ UNCHANGED sigFile => (SignatureVerifies(p)' <=> SignatureVerifies(p))
  <1>1. Reading' = Reading
    BY DecidesReading
  <1>2. ContainerMatches(opt[p], Reading)' <=> ContainerMatches(opt'[p], Reading')
    BY DEF ContainerMatches
  <1>3. PayloadMatches(opt[p], Reading)' <=> PayloadMatches(opt'[p], Reading')
    BY DEF PayloadMatches
  <1>4. UNCHANGED sigFile => (SignatureVerifies(p)' <=> SignatureVerifies(p))
    BY <1>1 DEF SignatureVerifies
  <1> QED
    BY <1>1, <1>2, <1>3, <1>4

LEMMA DecidesJudged ==
    ASSUME NEW p \in Procs, TypeOK, Judged(p), Decides(p)
    PROVE  Judged(p)'
  <1>0. pc \in [Procs -> States] /\ opt \in [Procs -> Options] /\ UNCHANGED <<archive, data>>
    BY DecidesFrame DEF TypeOK
  <1>1. CASE Start(p) \/ Proceed(p) \/ Unavailable(p) \/ GetOk(p) \/ RenameFails(p)
    <2>1. pc'[p] \in {"begin", "source", "body"}
      BY <1>0, <1>1 DEF Start, Proceed, Unavailable, GetOk, RenameFails, Goes, Continue
    <2> QED
      BY <2>1 DEF Judged
  <1>2. CASE Cached(p)
    <2>1. pc'[p] = "sig" /\ archive' # None
      BY <1>0, <1>2 DEF Cached, Goes
    <2> QED
      BY <2>1 DEF Judged
  <1>3. CASE ObtainSignature(p)
    <2>1. pc[p] = "sig" /\ pc'[p] = "verify"
      BY <1>0, <1>3 DEF ObtainSignature, At, Goes
    <2> QED
      BY <1>0, <2>1 DEF Judged
  <1>4. CASE SignatureThenHash(p)
    <2>1. pc[p] = "verify" /\ pc'[p] = "hash" /\ opt' = opt /\ opt[p].needHash
      BY <1>0, <1>4 DEF SignatureThenHash, At, Goes
    <2> QED
      BY <1>0, <2>1 DEF Judged
  <1>5. CASE SignatureRequired(p)
    <2>1. /\ pc[p] = "verify" /\ pc'[p] = "discard" /\ UNCHANGED <<opt, sigFile>>
          /\ opt[p].needSig /\ ~SignatureVerifies(p)
      BY <1>0, <1>5 DEF SignatureRequired, At, Goes, ValidSignature
    <2>2. ~SignatureVerifies(p)'
      BY <1>0, <2>1, SameVerdict
    <2> QED
      BY <1>0, <2>1, <2>2 DEF Judged
  <1>6. CASE SignatureAbsent(p)
    <2>1. /\ pc[p] = "verify" /\ pc'[p] = "hash" /\ UNCHANGED <<opt, sigFile>>
          /\ ~SignatureVerifies(p)
      BY <1>0, <1>6 DEF SignatureAbsent, At, Goes, ValidSignature
    <2>2. ~SignatureVerifies(p)'
      BY <1>0, <2>1, SameVerdict
    <2> QED
      BY <1>0, <2>1, <2>2 DEF Judged
  <1>7. CASE HashDiffers(p) \/ PayloadDiffers(p) \/ UnverifiedRefused(p)
    <2>1. UNCHANGED <<opt, sigFile>> /\ pc[p] \in {"hash", "payload"}
      BY <1>7 DEF HashDiffers, PayloadDiffers, UnverifiedRefused, At
    <2>2. ~(SignatureVerifies(p)' /\ ~opt'[p].needHash) /\ archive' # None
      BY <1>0, <2>1, SameVerdict DEF Judged
    <2>3. CASE HashDiffers(p)
      <3>1. pc'[p] = "payload" /\ ~ContainerMatches(opt[p], Reading)
        BY <1>0, <2>3 DEF HashDiffers, Goes
      <3> QED
        BY <1>0, <2>1, <2>2, <3>1, SameVerdict DEF Judged
    <2>4. CASE PayloadDiffers(p)
      <3>1. /\ pc'[p] = "discard" /\ ~PayloadMatches(opt[p], Reading)
            /\ ~ContainerMatches(opt[p], Reading)
        BY <1>0, <2>4 DEF PayloadDiffers, Goes, At, Judged
      <3> QED
        BY <1>0, <2>1, <2>2, <3>1, SameVerdict DEF Judged
    <2>5. CASE UnverifiedRefused(p)
      <3>1. /\ pc'[p] = "discard" /\ ~PayloadMatches(opt[p], Reading)
            /\ ~ContainerMatches(opt[p], Reading)
        BY <1>0, <2>5 DEF UnverifiedRefused, Goes, PayloadMatches, ContainerMatches
      <3> QED
        BY <1>0, <2>1, <2>2, <3>1, SameVerdict DEF Judged
    <2> QED
      BY <1>7, <2>3, <2>4, <2>5
  <1> QED
    BY <1>1, <1>2, <1>3, <1>4, <1>5, <1>6, <1>7 DEF Decides

LEMMA StepJudged ==
    ASSUME NEW p, Procs = {p}, TypeOK, Judged(p), [Next]_vars
    PROVE  Judged(p)'
  <1>0. p \in Procs /\ None \notin Inodes /\ pc \in [Procs -> States]
    BY FetchAssumption DEF TypeOK
  <1>1. CASE UNCHANGED vars
    <2>1. /\ UNCHANGED <<archive, data, sigFile, opt, pc>> /\ opt'[p] = opt[p]
      BY <1>1 DEF vars
    <2> QED
      BY <2>1, SameVerdict DEF Judged
  <1>2. ASSUME pc'[p] \notin {"sig", "verify", "hash", "payload", "discard"}
        PROVE  Judged(p)'
    BY <1>2 DEF Judged
  <1>3. CASE Ends(p)
    BY <1>0, <1>2, <1>3, EndsFrame
  <1>4. CASE Decides(p)
    BY <1>0, <1>4, DecidesJudged
  <1>5. CASE Closes(p)
    BY <1>0, <1>2, <1>5, ClosesFrame
  <1>6. CASE CopyLocal(p) \/ OpenPart(p) \/ WriteChunk(p) \/ Discard(p)
    <2>1. pc'[p] \in {"copy", "get", "body", "source"}
      BY <1>0, <1>6 DEF CopyLocal, OpenPart, WriteChunk, Discard, Goes, Continue
    <2> QED
      BY <1>2, <2>1
  <1>7. CASE Rename(p)
    <2>1. pc'[p] = "sig" /\ archive' # None
      BY <1>0, <1>7 DEF Rename, Goes
    <2> QED
      BY <2>1 DEF Judged
  <1> QED
    BY <1>1, <1>3, <1>4, <1>5, <1>6, <1>7, EveryStep
-----------------------------------------------------------------------------
\* What RemovesOnlyRefused says of one step.
JustRemoval ==
    archive # None /\ archive' = None =>
         \E p \in Procs :
            /\ ~opt[p].keep
            /\ ~(SignatureVerifies(p) /\ ~opt[p].needHash)
            /\ \/ opt[p].needSig
               \/ ~ContainerMatches(opt[p], Reading) /\ ~PayloadMatches(opt[p], Reading)

LEMMA JustRemovals == [][JustRemoval]_vars => RemovesOnlyRefused
  BY PTL DEF RemovesOnlyRefused, JustRemoval

\* The file goes only when a run that may remove it found it wanting, and what it
\* found is still true when it removes it.
THEOREM RemovalsAreJust ==
    ASSUME NEW p, Procs = {p}
    PROVE  Spec => RemovesOnlyRefused
  <1>1. Init => Judged(p)
    BY DEF Init, Judged
  <1>2. TypeOK /\ Judged(p) /\ [Next]_vars => Judged(p)'
    BY StepJudged
  <1>3. TypeOK /\ Judged(p) /\ [Next]_vars => [JustRemoval]_vars
    <2> SUFFICES ASSUME TypeOK, Judged(p), [Next]_vars, archive # None, archive' = None
                 PROVE  JustRemoval
      BY DEF vars, JustRemoval
    <2>0. p \in Procs /\ None \notin Inodes
      BY FetchAssumption
    <2>1. ~UNCHANGED archive
      OBVIOUS
    <2>2. ~UNCHANGED vars /\ ~Ends(p) /\ ~Decides(p) /\ ~Closes(p)
      BY <2>0, <2>1, EndsFrame, DecidesFrame, ClosesFrame DEF vars
    <2>3. ~OpenPart(p) /\ ~WriteChunk(p)
      BY <2>1 DEF OpenPart, WriteChunk
    <2>4. ~CopyLocal(p)
      BY <2>0 DEF CopyLocal
    <2>5. ~Rename(p)
      BY DEF Rename
    <2>6. Discard(p)
      BY <2>2, <2>3, <2>4, <2>5, EveryStep
    <2>7. pc[p] = "discard" /\ ~opt[p].keep
      BY <2>1, <2>6 DEF Discard, At
    <2> QED
      BY <2>0, <2>7 DEF Judged, JustRemoval
  <1>4. Spec => []Judged(p)
    BY <1>1, <1>2, TypeCorrect, PTL DEF Spec
  <1>5. Spec => [][JustRemoval]_vars
    BY <1>3, <1>4, TypeCorrect, PTL DEF Spec
  <1> QED
    BY <1>5, JustRemovals
-----------------------------------------------------------------------------
LEMMA OneRunIs == ASSUME NEW p, Procs = {p} PROVE OneRun = p
  BY DEF OneRun

Wanted(o) == {c \in Contents \cup {Garbage} : Acceptable(o, c)}

\* A run that decides well has a file in place, and its options accept it.
LEMMA SuccessWanted ==
    ASSUME NEW p \in Procs, TypeOK, Honest, Judged(p),
           \/ SignatureAccepts(p) \/ HashAccepts(p) \/ PayloadAccepts(p)
           \/ UnverifiedAccepted(p)
    PROVE  Reading \in Wanted(opt[p])
  <1>1. archive # None
    BY DEF Judged, SignatureAccepts, HashAccepts, PayloadAccepts, UnverifiedAccepted, At
  <1>2. Reading \in Contents \cup {Garbage}
    BY <1>1, NoneIsNoFile, ReadingType DEF Found
  <1>3. CASE SignatureAccepts(p)
    <2>1. ~validSig[p]
      BY <1>3 DEF SignatureAccepts, Honest, Undecided
    <2>2. Reading \in Signed
      BY <1>3, <2>1, SignedOnly DEF SignatureAccepts, ValidSignature
    <2> QED
      BY <1>2, <2>2 DEF Wanted, Acceptable
  <1>4. CASE HashAccepts(p) \/ PayloadAccepts(p)
    BY <1>2, <1>4 DEF HashAccepts, PayloadAccepts, Wanted, Acceptable
  <1>5. CASE UnverifiedAccepted(p)
    BY <1>2, <1>5 DEF UnverifiedAccepted, Wanted, Acceptable
  <1> QED
    BY <1>3, <1>4, <1>5

\* A run that ends ends well on a file it wants, or fails.
LEMMA EndsPromise ==
    ASSUME NEW p \in Procs, TypeOK, Honest, Judged(p), Ends(p)
    PROVE  /\ Phase(p) = "fetching"
           /\ Phase(p)' \in {"ok", "failed"}
           /\ Phase(p)' = "ok" => Reading \in Wanted(opt[p])
           /\ Reading' = Reading /\ opt' = opt
  <1>1. Phase(p) = "fetching"
    BY EndsFrame DEF Phase, Active
  <1>2. pc'[p] = "done"
    BY EndsFrame DEF TypeOK
  <1>3. Phase(p)' = IF rc'[p] = 0 THEN "ok" ELSE "failed"
    BY <1>2 DEF Phase
  <1>4. ASSUME rc'[p] = 0
        PROVE  Reading \in Wanted(opt[p])
    <2>1. ASSUME \/ HashRequired(p) \/ Exhausted(p) \/ Traceback(p) \/ PayloadTraceback(p) \/ Kill(p)
                 \/ SignatureInvalid(p)
          PROVE  FALSE
      <3>1. rc[p] # 0
        BY EndsFrame DEF Honest, Undecided
      <3>2. PICK code \in {4, 1, 130, rc[p]} : \E why, c : Finish(p, code, why, c)
        BY <2>1 DEF HashRequired, Exhausted, Traceback, PayloadTraceback, Kill, SignatureInvalid
      <3>3. code # 0
        BY <3>1
      <3> QED
        BY <1>4, <3>2, <3>3, FinishLocals
    <2> QED
      BY <2>1, SuccessWanted DEF Ends
  <1>5. Reading' = Reading /\ opt' = opt
    BY EndsFrame, StoredReading
  <1> QED
    BY <1>1, <1>3, <1>4, <1>5

\* One run at a time keeps the promise of FetchPromise: the file changes only
\* while the run is in progress, and it ends well only with a wanted file in place.
LEMMA StepPromise ==
    ASSUME NEW p, Procs = {p}, TypeOK, Honest, Judged(p), [Next]_vars
    PROVE  [Promise!Next]_(Promise!vars)
  <1> USE OneRunIs
  <1>0. /\ p \in Procs /\ OneRun = p
        /\ pc \in [Procs -> States] /\ opt \in [Procs -> Options]
    BY DEF TypeOK
  <1>1. \A q : Wanted(opt[q]) = {c \in Contents \cup {Garbage} : Acceptable(opt[q], c)}
    BY DEF Wanted
  <1>2. Wanted(opt[p])' = Wanted(opt'[p])
    BY DEF Wanted, Acceptable, ContainerMatches, PayloadMatches
  <1>3. ASSUME opt' = opt
        PROVE  Wanted(opt[p])' = Wanted(opt[p])
    BY <1>2, <1>3
  <1>4. Reading \in Contents \cup {Garbage} \cup {None} /\ Reading' \in Contents \cup {Garbage} \cup {None}
    BY DEF Reading
  <1>5. /\ Promise!vars = <<Phase(p), Wanted(opt[p]), Reading>>
        /\ Promise!vars' = <<Phase(p)', Wanted(opt[p])', Reading'>>
    BY <1>0 DEF Promise!vars, Wanted
  <1>6. CASE UNCHANGED vars
    <2>1. UNCHANGED <<pc, rc, opt, archive, data>>
      BY <1>6 DEF vars
    <2>2. Phase(p)' = Phase(p)
      BY <2>1 DEF Phase
    <2> QED
      BY <1>3, <1>5, <2>1, <2>2, DecidesReading
  <1>7. CASE Start(p)
    <2>1. Phase(p) # "fetching" /\ Phase(p)' = "fetching"
      BY <1>0, <1>7 DEF Start, Phase, Active, Goes
    <2>2. Wanted(opt'[p]) \in SUBSET (Contents \cup {Garbage})
      BY DEF Wanted
    <2>3. Reading' = Reading
      BY <1>7, DecidesReading DEF Start, files
    <2> QED
      BY <1>0, <1>2, <2>1, <2>2, <2>3 DEF Promise!Next, Promise!Begin, Wanted
  <1>8. ASSUME Phase(p) = "fetching", Phase(p)' = "fetching", opt' = opt
        PROVE  Promise!Next
    BY <1>0, <1>3, <1>4, <1>8 DEF Promise!Next, Promise!Change, Wanted
  <1>9. CASE Ends(p)
    <2>1. CASE Phase(p)' = "ok"
      BY <1>0, <1>3, <1>9, <2>1, EndsPromise DEF Promise!Next, Promise!Succeed, Wanted
    <2>2. CASE Phase(p)' = "failed"
      BY <1>0, <1>3, <1>9, <2>2, EndsPromise DEF Promise!Next, Promise!Fail, Wanted
    <2> QED
      BY <1>9, <2>1, <2>2, EndsPromise
  <1>10. ASSUME pc[p] \notin {"idle", "done"}, pc'[p] \notin {"idle", "done"}
         PROVE  Phase(p) = "fetching" /\ Phase(p)' = "fetching"
    BY <1>10 DEF Phase
  <1>11. CASE Decides(p) /\ ~Start(p)
    BY <1>0, <1>8, <1>10, <1>11, DecidesFrame
  <1>12. CASE Closes(p)
    BY <1>0, <1>8, <1>10, <1>12, ClosesFrame
  <1>13. CASE CopyLocal(p) \/ OpenPart(p) \/ WriteChunk(p) \/ Rename(p) \/ Discard(p)
    <2>1. /\ opt' = opt
          /\ pc[p] \in {"source", "copy", "body", "rename", "discard"}
          /\ pc'[p] \in {"source", "copy", "body", "get", "sig"}
      BY <1>0, <1>13 DEF CopyLocal, OpenPart, WriteChunk, Rename, Discard, At, AtSource,
         Goes, Continue
    <2> QED
      BY <1>8, <1>10, <2>1
  <1> QED
    BY <1>6, <1>7, <1>9, <1>11, <1>12, <1>13, EveryStep

\* A run that is alone implements the promise of FetchPromise: whatever mirrors,
\* signatures, kills and earlier runs did, the archive changes only while it is
\* in progress, and it ends well only on a file its options accept.
THEOREM PromiseImplemented ==
    ASSUME NEW p, Procs = {p}
    PROVE  Spec => ImplementsPromise
  <1>1. Init => Judged(p) /\ Honest
    BY DEF Init, Judged, Honest, Validated, Undecided, Active
  <1>2. Init => Promise!Init
    <2> SUFFICES ASSUME Init PROVE Promise!Init
      OBVIOUS
    <2>1. OneRun = p
      BY OneRunIs
    <2>2. Phase(p) = "idle"
      BY DEF Init, Phase
    <2>3. Reading \in (Contents \cup {Garbage}) \cup {None}
      BY DEF Reading
    <2> QED
      BY <2>1, <2>2, <2>3 DEF Promise!Init
  <1>3. TypeOK /\ Judged(p) /\ [Next]_vars => Judged(p)'
    BY StepJudged
  <1>4. Spec => []Honest
    BY <1>1, TypeCorrect, StepHonest, PTL DEF Spec
  <1>5. Spec => []Judged(p)
    BY <1>1, <1>3, TypeCorrect, PTL DEF Spec
  <1>6. TypeOK /\ Honest /\ Judged(p) /\ [Next]_vars => [Promise!Next]_(Promise!vars)
    BY StepPromise
  <1> QED
    BY <1>2, <1>4, <1>5, <1>6, TypeCorrect, PTL DEF Spec, Promise!Spec, ImplementsPromise
-----------------------------------------------------------------------------
\* What a copy has written so far, and what a download leaves for the next one.
FirstChunks(c, n) == [k \in 1 .. n |-> <<c, k>>]

LEMMA FirstChunksType ==
    ASSUME NEW c, NEW n \in Nat
    PROVE  Len(FirstChunks(c, n)) = n /\ FirstChunks(c, 0) = <<>>
  BY DEF FirstChunks

\* A chunk written at the end, by either way to open the file, is one more.
LEMMA WrittenNext ==
    ASSUME NEW x \in OpenXfer, NEW n \in Nat, x.next = n + 1
    PROVE  Written(FirstChunks(x.of, n), x) = FirstChunks(x.of, n + 1)
  <1> DEFINE S == {x.of} \X Nat
             d == FirstChunks(x.of, n)
             longer == IF x.next > Len(d) THEN x.next ELSE Len(d)
             e == <<x.of, n + 1>>
  <1>1. /\ Len(d) = n /\ longer = n + 1 /\ d \in Seq(S) /\ e \in S
        /\ \A k \in 1 .. n : d[k] = <<x.of, k>>
    BY DEF FirstChunks
  <1>2. /\ FirstChunks(x.of, n + 1) \in Seq(S)
        /\ Len(FirstChunks(x.of, n + 1)) = n + 1
        /\ \A k \in 1 .. n + 1 : FirstChunks(x.of, n + 1)[k] = <<x.of, k>>
    BY DEF FirstChunks
  <1>3. CASE ~x.append
    <2> DEFINE Val(k) == IF k = x.next THEN <<x.of, x.next>>
                         ELSE IF k <= Len(d) THEN d[k] ELSE Hole
    <2>1. Written(d, x) = [k \in 1 .. longer |-> Val(k)]
      BY <1>3 DEF Written
    <2> HIDE DEF d, longer, S, e
    <2>2. \A k \in 1 .. n + 1 : Val(k) = <<x.of, k>>
      <3> TAKE k \in 1 .. n + 1
      <3>1. CASE k = n + 1
        BY <3>1
      <3>2. CASE k # n + 1
        <4>1. k \in 1 .. n
          BY <3>2
        <4> QED
          BY <1>1, <3>2, <4>1
      <3> QED
        BY <3>1, <3>2
    <2> HIDE DEF Val
    <2> QED
      <3>1. Written(d, x) = FirstChunks(x.of, n + 1)
        BY <1>1, <2>1, <2>2 DEF FirstChunks
      <3> QED
        BY <3>1 DEF d
  <1>4. CASE x.append
    <2>1. Written(d, x) = Append(d, e)
      BY <1>4 DEF Written
    <2> HIDE DEF d, longer, S, e
    <2>2. /\ Append(d, e) \in Seq(S) /\ Len(Append(d, e)) = n + 1
          /\ \A k \in 1 .. n : Append(d, e)[k] = d[k]
          /\ Append(d, e)[n + 1] = e
      BY <1>1, AppendProperties
    <2>3. \A k \in 1 .. n + 1 : Append(d, e)[k] = FirstChunks(x.of, n + 1)[k]
      <3> TAKE k \in 1 .. n + 1
      <3>1. CASE k = n + 1
        BY <1>2, <2>2, <3>1 DEF e
      <3>2. CASE k # n + 1
        <4>1. k \in 1 .. n
          BY <3>2
        <4> QED
          BY <1>1, <1>2, <2>2, <4>1
      <3> QED
        BY <3>1, <3>2
    <2> QED
      <3>1. Append(d, e) = FirstChunks(x.of, n + 1)
        BY <1>2, <2>2, <2>3, SeqEqual
      <3> QED
        BY <2>1, <3>1 DEF d
  <1> QED
    BY <1>3, <1>4
-----------------------------------------------------------------------------
\* Nothing under the archive name, or what a local source put there.
Clean ==
    \/ Reading = None
    \/ \E k \in DOMAIN Sources : Sources[k].kind = "local" /\ Reading \in Sources[k].offer

\* How far the copy from a local source is.
Copying(p) ==
    /\ idx[p] \in DOMAIN Sources /\ Src(p).kind = "local"
    /\ archive # None
    /\ xfer[p].of \in Src(p).offer
    /\ xfer[p].next - 1 \in 0 .. NChunks
    /\ data[archive] = FirstChunks(xfer[p].of, xfer[p].next - 1)

\* From the second source on, a run without --keep has cleared away what it
\* found or was sent.
Cleared(p) ==
    /\ pc[p] = "copy" => Copying(p)
    /\ pc[p] \in {"idle", "begin", "done"} => idx[p] = 1
    /\ pc[p] \in {"get", "body", "rename"} => idx[p] > 1
    /\ pc[p] \in {"source", "get", "body", "rename"} /\ idx[p] > 1 /\ ~opt[p].keep => Clean
    /\ how[p] = "exhausted" => pc[p] = "done" /\ (~opt[p].keep => Clean)

LEMMA CleanKept == ASSUME Reading' = Reading PROVE Clean' <=> Clean
  BY DEF Clean

\* The list has the archive itself first, so there is a source to clear it.
LEMMA SourcesLength == Len(Sources) \in Nat /\ Len(Sources) >= 1 /\ DOMAIN Sources = 1 .. Len(Sources)
  BY FetchAssumption, FileComesFirst

\* Of the steps that decide, the ones that go on with the next source do so with
\* nothing new under the archive name.
LEMMA DecidesCleared ==
    ASSUME NEW p \in Procs, TypeOK, Cleared(p), Decides(p)
    PROVE  Cleared(p)'
  <1>0. /\ pc \in [Procs -> States] /\ opt \in [Procs -> Options] /\ idx \in [Procs -> Nat \ {0}]
        /\ how \in [Procs -> Reasons]
    BY DEF TypeOK
  <1>1. Clean' <=> Clean
    BY DecidesFrame, DecidesReading, CleanKept
  <1>2. CASE Start(p)
    <2>1. /\ pc[p] \in {"idle", "done"} /\ pc'[p] = "begin" /\ idx' = idx
          /\ how'[p] = "running"
      BY <1>0, <1>2 DEF Start, Goes, Active
    <2> QED
      BY <2>1 DEF Cleared
  <1>3. CASE Proceed(p) \/ GetOk(p)
    <2>1. /\ UNCHANGED <<idx, opt, how>>
          /\ \/ pc[p] = "begin" /\ pc'[p] = "source"
             \/ pc[p] = "get" /\ pc'[p] = "body"
      BY <1>0, <1>3 DEF Proceed, GetOk, At, Goes
    <2> QED
      BY <1>1, <2>1 DEF Cleared
  <1>4. CASE Unavailable(p)
    <2>1. /\ pc[p] = "source" /\ pc'[p] = "source" /\ UNCHANGED <<opt, how>>
          /\ idx'[p] = idx[p] + 1 /\ idx[p] <= Len(Sources)
          /\ archive = None \/ Src(p).kind # "self"
      BY <1>0, <1>4 DEF Unavailable, At, AtSource, Goes, Continue
    <2>2. idx[p] > 1 \/ archive = None
      BY <1>0, <2>1, FileComesFirst DEF Src
    <2>3. ~opt[p].keep => Clean
      BY <2>1, <2>2, NoneIsNoFile DEF Cleared, Clean
    <2> QED
      BY <1>0, <1>1, <2>1, <2>3 DEF Cleared
  <1>5. CASE RenameFails(p)
    <2>1. /\ pc[p] = "rename" /\ pc'[p] = "source" /\ UNCHANGED <<opt, how>>
          /\ idx'[p] = idx[p] + 1
      BY <1>0, <1>5 DEF RenameFails, At, Goes, Continue
    <2> QED
      BY <1>0, <1>1, <2>1 DEF Cleared
  <1>6. CASE \/ Cached(p) \/ ObtainSignature(p) \/ SignatureThenHash(p)
             \/ SignatureRequired(p) \/ SignatureAbsent(p) \/ HashDiffers(p)
             \/ PayloadDiffers(p) \/ UnverifiedRefused(p)
    <2>1. /\ pc'[p] \in {"sig", "verify", "hash", "payload", "discard"}
          /\ pc[p] # "done" /\ how' = how
      BY <1>0, <1>6 DEF Cached, ObtainSignature, SignatureThenHash, SignatureRequired,
         SignatureAbsent, HashDiffers, PayloadDiffers, UnverifiedRefused, At, AtSource,
         Goes
    <2> QED
      BY <2>1 DEF Cleared
  <1> QED
    BY <1>2, <1>3, <1>4, <1>5, <1>6 DEF Decides

\* A copy that is complete is read as the file of its source.
LEMMA CopyIsClean ==
    ASSUME NEW p \in Procs, TypeOK, pc[p] = "copy", Copying(p), xfer[p].next > NChunks
    PROVE  Clean
  <1>1. xfer[p].next - 1 = NChunks
    <2>1. xfer[p].next \in Nat
      BY DEF TypeOK, OpenXfer
    <2> QED
      BY <2>1, FetchAssumption DEF Copying
  <1>2. xfer[p].of \in Contents
    <2>1. Src(p) \in Source
      BY SourcesLength, SrcType DEF Copying
    <2> QED
      BY <2>1 DEF Copying, Source
  <1>3. data[archive] = Whole(xfer[p].of) /\ archive # None
    BY <1>1 DEF Copying, FirstChunks, Whole
  <1>4. Reading = xfer[p].of
    BY <1>2, <1>3, WholeIsRead
  <1> QED
    BY <1>4 DEF Copying, Clean, Src

\* Closing a copy leaves the local file, closing a download leaves the archive.
LEMMA ClosesCleared ==
    ASSUME NEW p \in Procs, TypeOK, Cleared(p), Closes(p)
    PROVE  Cleared(p)'
  <1>0. /\ pc \in [Procs -> States] /\ opt \in [Procs -> Options] /\ idx \in [Procs -> Nat \ {0}]
        /\ UNCHANGED <<opt, how>> /\ pc'[p] \in {"source", "rename"}
        /\ pc[p] \in {"copy", "get", "body"} /\ idx'[p] \in {idx[p], idx[p] + 1}
    BY ClosesFrame DEF TypeOK
  <1>1. Clean' <=> Clean
    BY ClosesFrame, StoredReading, CleanKept
  <1>2. CASE pc[p] = "copy"
    <2>1. CopyDone(p)
      BY <1>2, ClosesFrame
    <2>2. Clean
      BY <1>2, <2>1, CopyIsClean DEF CopyDone, Cleared
    <2>3. pc'[p] = "source"
      BY <1>0, <2>1 DEF CopyDone, Continue, Goes
    <2> QED
      BY <1>0, <1>1, <1>2, <2>2, <2>3 DEF Cleared
  <1>3. CASE pc[p] # "copy"
    BY <1>0, <1>1, <1>3 DEF Cleared
  <1> QED
    BY <1>2, <1>3

\* A local source is never the first of the list.
LEMMA NotFirst ==
    ASSUME NEW p \in Procs, TypeOK, NEW kind, kind # "self", AtSource(p, kind)
    PROVE  idx[p] > 1 /\ idx[p] \in DOMAIN Sources /\ Src(p).kind = kind
  BY SourcesLength, FileComesFirst DEF AtSource, Src, TypeOK

LEMMA CopyCleared ==
    ASSUME NEW p \in Procs, TypeOK, Cleared(p), CopyLocal(p)
    PROVE  Cleared(p)'
  <1>0. /\ pc \in [Procs -> States] /\ xfer \in [Procs -> OpenXfer \cup {NoXfer}]
        /\ data \in [Inodes -> Seq(Chunk \cup {Hole})] /\ None \notin Inodes
    BY FetchAssumption DEF TypeOK
  <1>1. PICK c \in Src(p).offer, i \in Inodes :
            /\ archive' = i
            /\ xfer' = [xfer EXCEPT ![p] =
                          [to |-> i, append |-> FALSE, of |-> c, next |-> 1]]
            /\ data' = [data EXCEPT ![i] = <<>>]
    BY DEF CopyLocal
  <1>2. /\ pc[p] = "source" /\ pc'[p] = "copy" /\ UNCHANGED <<idx, opt, how>>
        /\ idx[p] \in DOMAIN Sources /\ Src(p).kind = "local"
    BY <1>0, NotFirst DEF CopyLocal, AtSource, At, Goes
  <1>3. xfer'[p].of = c /\ xfer'[p].next = 1 /\ data'[archive'] = <<>>
    BY <1>0, <1>1
  <1>4. data'[archive'] = FirstChunks(c, 0)
    BY <1>3, FirstChunksType
  <1>5. 1 - 1 = 0 /\ 0 \in 0 .. NChunks
    BY FetchAssumption
  <1>6. Copying(p)'
    BY <1>0, <1>1, <1>2, <1>3, <1>4, <1>5 DEF Copying, Src
  <1> QED
    BY <1>2, <1>6 DEF Cleared

LEMMA OpenCleared ==
    ASSUME NEW p \in Procs, TypeOK, NamesApart, Cleared(p), OpenPart(p)
    PROVE  Cleared(p)'
  <1>0. /\ pc \in [Procs -> States] /\ data \in [Inodes -> Seq(Chunk \cup {Hole})]
        /\ archive \in Inodes \cup {None} /\ None \notin Inodes
    BY FetchAssumption DEF TypeOK
  <1>1. /\ pc[p] = "source" /\ pc'[p] = "get" /\ UNCHANGED <<idx, opt, how, archive>>
        /\ idx[p] > 1
    BY <1>0, NotFirst DEF OpenPart, AtSource, At, Goes
  <1>2. PICK i \in Inodes : /\ archive # None => i # archive
                            /\ \A j \in Inodes \ {i} : data'[j] = data[j]
    BY <1>0 DEF OpenPart, Live, NamesApart
  <1>3. Reading' = Reading
    BY <1>0, <1>1, <1>2, ReadingKept
  <1> QED
    BY <1>1, <1>3, CleanKept DEF Cleared

\* A copy grows the archive by the next chunk of its source; a download writes
\* to the other file.
LEMMA WriteCleared ==
    ASSUME NEW p \in Procs, TypeOK, NamesApart, Opened(p), Cleared(p), WriteChunk(p)
    PROVE  Cleared(p)'
  <1>0. /\ xfer \in [Procs -> OpenXfer \cup {NoXfer}] /\ xfer[p] \in OpenXfer
        /\ data \in [Inodes -> Seq(Chunk \cup {Hole})]
        /\ archive \in Inodes \cup {None} /\ None \notin Inodes
        /\ pc[p] \in {"body", "copy"} /\ xfer[p].next <= NChunks
        /\ UNCHANGED <<archive, part, pc, opt, idx, how>>
    BY FetchAssumption DEF TypeOK, WriteChunk
  <1>1. xfer[p].to \in Inodes /\ xfer[p].next \in Nat \ {0}
    BY <1>0 DEF OpenXfer
  <1>2. /\ data' = [data EXCEPT ![xfer[p].to] = Written(data[xfer[p].to], xfer[p])]
        /\ xfer' = [xfer EXCEPT ![p] = Advanced(xfer[p])]
    BY DEF WriteChunk
  <1>3. CASE pc[p] = "copy"
    <2> DEFINE n == xfer[p].next - 1
    <2>1. /\ Copying(p) /\ n \in Nat /\ xfer[p].next = n + 1 /\ n + 1 \in 0 .. NChunks
          /\ xfer[p].to = archive /\ data[archive] = FirstChunks(xfer[p].of, n)
      BY <1>0, <1>1, <1>3, FetchAssumption DEF Cleared, Opened, Copying
    <2>2. /\ xfer'[p].of = xfer[p].of /\ xfer'[p].next - 1 = n + 1
      BY <1>0, <1>1, <1>2 DEF Advanced
    <2> HIDE DEF n
    <2>3. data'[archive'] = FirstChunks(xfer[p].of, n + 1)
      BY <1>0, <1>1, <1>2, <2>1, WrittenNext
    <2>4. Copying(p)'
      BY <1>0, <2>1, <2>2, <2>3 DEF Copying, Src
    <2> QED
      BY <1>0, <1>3, <2>4 DEF Cleared
  <1>4. CASE pc[p] = "body"
    <2>1. archive # None => archive # xfer[p].to
      BY <1>4 DEF Opened, NamesApart
    <2>2. archive # None => data'[archive] = data[archive]
      BY <1>0, <1>1, <1>2, <2>1
    <2>3. Reading' = Reading
      BY <1>0, <2>2, ReadingKept
    <2> QED
      BY <1>0, <1>4, <2>3, CleanKept DEF Cleared
  <1> QED
    BY <1>0, <1>3, <1>4

LEMMA StepCleared ==
    ASSUME NEW p, Procs = {p}, TypeOK, NamesApart, Opened(p), Cleared(p), [Next]_vars
    PROVE  Cleared(p)'
  <1>0. /\ p \in Procs /\ pc \in [Procs -> States] /\ idx \in [Procs -> Nat \ {0}]
        /\ how \in [Procs -> Reasons] /\ opt \in [Procs -> Options]
    BY DEF TypeOK
  <1>1. CASE UNCHANGED vars
    <2>1. UNCHANGED <<archive, data, pc, opt, idx, how, xfer>>
      BY <1>1 DEF vars
    <2> QED
      BY <2>1, DecidesReading, CleanKept DEF Cleared, Copying, Src
  <1>2. CASE Ends(p)
    <2>1. pc'[p] = "done" /\ idx'[p] = 1 /\ opt' = opt
      BY <1>0, <1>2, EndsFrame
    <2>2. Clean' <=> Clean
      BY <1>0, <1>2, EndsFrame, StoredReading, CleanKept
    <2>3. how'[p] = "exhausted" /\ ~opt[p].keep => Clean
      <3>1. Exhausted(p) => pc[p] = "source" /\ idx[p] > 1
        BY <1>0, SourcesLength DEF Exhausted, At
      <3> QED
        BY <1>0, <1>2, <3>1, EndsFrame DEF Cleared
    <2> QED
      BY <2>1, <2>2, <2>3 DEF Cleared
  <1>3. CASE Decides(p) \/ Closes(p) \/ CopyLocal(p) \/ OpenPart(p) \/ WriteChunk(p)
    BY <1>0, <1>3, DecidesCleared, ClosesCleared, CopyCleared, OpenCleared, WriteCleared
  <1>4. CASE Rename(p)
    <2>1. pc[p] = "rename" /\ pc'[p] = "sig" /\ UNCHANGED how
      BY <1>0, <1>4 DEF Rename, At, Goes
    <2> QED
      BY <2>1 DEF Cleared
  <1>5. CASE Discard(p)
    <2>1. /\ pc[p] = "discard" /\ pc'[p] = "source" /\ UNCHANGED <<how, opt>>
          /\ opt[p].keep \/ archive' = None
      BY <1>0, <1>5 DEF Discard, At, Goes, Continue
    <2>2. opt[p].keep \/ Reading' = None
      BY <2>1 DEF Reading
    <2> QED
      BY <2>1, <2>2 DEF Cleared, Clean
  <1> QED
    BY <1>1, <1>2, <1>3, <1>4, <1>5, EveryStep

\* A run that is alone, tried every source and failed leaves no file behind that
\* a later run would take as cached, whatever it found and whoever was killed:
\* only --keep or a local source explains what is there.
THEOREM FailuresClearAway ==
    ASSUME NEW p, Procs = {p}
    PROVE  Spec => []FailureLeavesNothing
  <1>1. Init => Opened(p) /\ Cleared(p)
    BY DEF Init, Opened, Cleared
  <1>2. TypeOK /\ NamesApart /\ Opened(p) /\ [Next]_vars => Opened(p)'
    BY StepOpened
  <1>3. Spec => []Opened(p)
    BY <1>1, <1>2, TypeCorrect, NamesStayApart, PTL DEF Spec
  <1>4. TypeOK /\ NamesApart /\ Opened(p) /\ Cleared(p) /\ [Next]_vars => Cleared(p)'
    BY StepCleared
  <1>5. Spec => []Cleared(p)
    BY <1>1, <1>3, <1>4, TypeCorrect, NamesStayApart, PTL DEF Spec
  <1>6. Cleared(p) => FailureLeavesNothing
    BY DEF Cleared, Clean, FailureLeavesNothing
  <1> QED
    BY <1>5, <1>6, PTL
-----------------------------------------------------------------------------
\* Every mirror serves one file.
OneFile(c) == \A k \in DOMAIN Sources :
    Sources[k].kind = "remote" => Sources[k].offer \subseteq {c}

\* .part holds the first chunks of it, and a download goes on right after them.
Resumable(p, c) ==
    /\ part # None => \E n \in 0 .. NChunks : data[part] = FirstChunks(c, n)
    /\ pc[p] \in {"get", "body"} => xfer[p].of = c /\ xfer[p].next = Len(data[part]) + 1

\* A step that leaves .part alone leaves it resumable.
LEMMA PartKept ==
    ASSUME NEW p, NEW c, Resumable(p, c), UNCHANGED part,
           part # None => data'[part] = data[part], pc'[p] \notin {"get", "body"}
    PROVE  Resumable(p, c)'
  BY DEF Resumable

LEMMA OpenResumable ==
    ASSUME NEW p \in Procs, NEW c \in Contents, OneFile(c), TypeOK, Opened(p),
           Resumable(p, c), OpenPart(p)
    PROVE  Resumable(p, c)'
  <1>0. /\ xfer \in [Procs -> OpenXfer \cup {NoXfer}] /\ pc \in [Procs -> States]
        /\ data \in [Inodes -> Seq(Chunk \cup {Hole})]
        /\ part \in Inodes \cup {None} /\ None \notin Inodes /\ NChunks \in Nat
    BY FetchAssumption DEF TypeOK
  <1> DEFINE Old(i) == IF Src(p).ranges THEN data[i] ELSE <<>>
  <1>1. PICK e \in Src(p).offer, i \in Inodes :
            /\ IF part = None THEN i \notin Live ELSE i = part
            /\ part' = i
            /\ data' = [data EXCEPT ![i] = Old(i)]
            /\ xfer' = [xfer EXCEPT ![p] =
                   [to |-> i, append |-> Src(p).ranges, of |-> e, next |-> Len(Old(i)) + 1]]
    BY DEF OpenPart
  <1>2. e = c
    <2>1. idx[p] \in DOMAIN Sources /\ Src(p).kind = "remote"
      BY NotFirst DEF OpenPart
    <2> QED
      BY <1>1, <2>1 DEF OneFile, Src
  <1>3. \E n \in 0 .. NChunks : Old(i) = FirstChunks(c, n)
    <2>1. 0 \in 0 .. NChunks /\ <<>> = FirstChunks(c, 0)
      BY <1>0, FirstChunksType
    <2>2. CASE Src(p).ranges
      <3>1. CASE part = None
        BY <1>1, <2>1, <2>2, <3>1 DEF Opened
      <3>2. CASE part # None
        BY <1>1, <2>2, <3>2 DEF Resumable
      <3> QED
        BY <3>1, <3>2
    <2>3. CASE ~Src(p).ranges
      BY <2>1, <2>3
    <2> QED
      BY <2>2, <2>3
  <1> HIDE DEF Old
  <1>4. data'[part'] = Old(i) /\ xfer'[p].of = c /\ xfer'[p].next = Len(Old(i)) + 1
    BY <1>0, <1>1, <1>2
  <1> QED
    BY <1>3, <1>4 DEF Resumable

LEMMA WriteResumable ==
    ASSUME NEW p \in Procs, NEW c \in Contents, TypeOK, NamesApart, Opened(p),
           Resumable(p, c), WriteChunk(p)
    PROVE  Resumable(p, c)'
  <1>0. /\ xfer \in [Procs -> OpenXfer \cup {NoXfer}] /\ xfer[p] \in OpenXfer
        /\ data \in [Inodes -> Seq(Chunk \cup {Hole})] /\ NChunks \in Nat
        /\ part \in Inodes \cup {None} /\ None \notin Inodes
        /\ pc[p] \in {"body", "copy"} /\ xfer[p].next <= NChunks
        /\ UNCHANGED <<archive, part, pc>>
    BY FetchAssumption DEF TypeOK, WriteChunk
  <1>1. xfer[p].to \in Inodes /\ xfer[p].next \in Nat \ {0}
    BY <1>0 DEF OpenXfer
  <1>2. /\ data' = [data EXCEPT ![xfer[p].to] = Written(data[xfer[p].to], xfer[p])]
        /\ xfer' = [xfer EXCEPT ![p] = Advanced(xfer[p])]
    BY DEF WriteChunk
  <1>3. CASE pc[p] = "copy"
    <2>1. part # None => part # xfer[p].to
      BY <1>1, <1>3 DEF Opened, NamesApart
    <2>2. part # None => data'[part] = data[part]
      BY <1>0, <1>2, <2>1
    <2> QED
      BY <1>0, <1>3, <2>2, PartKept
  <1>4. CASE pc[p] = "body"
    <2>1. xfer[p].to = part /\ xfer[p].of = c /\ xfer[p].next = Len(data[part]) + 1
      BY <1>4 DEF Opened, Resumable
    <2>2. PICK n \in 0 .. NChunks : data[part] = FirstChunks(c, n)
      BY <1>0, <1>1, <2>1 DEF Resumable
    <2>3. n \in Nat /\ n + 1 \in 0 .. NChunks /\ xfer[p].next = n + 1
      BY <1>0, <2>1, <2>2, FirstChunksType
    <2>4. data'[part'] = FirstChunks(c, n + 1)
      BY <1>0, <1>1, <1>2, <2>1, <2>2, <2>3, WrittenNext
    <2>5. xfer'[p].of = c /\ xfer'[p].next = (n + 1) + 1
      BY <1>0, <1>2, <2>1, <2>3 DEF Advanced
    <2>6. Len(FirstChunks(c, n + 1)) = n + 1
      BY <2>3, FirstChunksType
    <2> QED
      BY <2>3, <2>4, <2>5, <2>6 DEF Resumable
  <1> QED
    BY <1>0, <1>3, <1>4

LEMMA StepResumable ==
    ASSUME NEW p, Procs = {p}, NEW c \in Contents, OneFile(c), TypeOK, NamesApart,
           Opened(p), Resumable(p, c), [Next]_vars
    PROVE  Resumable(p, c)'
  <1>0. /\ p \in Procs /\ pc \in [Procs -> States] /\ part \in Inodes \cup {None}
        /\ data \in [Inodes -> Seq(Chunk \cup {Hole})] /\ None \notin Inodes
    BY FetchAssumption DEF TypeOK
  <1>1. CASE UNCHANGED vars
    BY <1>1 DEF vars, Resumable
  <1>2. CASE Ends(p)
    <2>1. part # None => data'[part] = data[part]
      BY <1>0, <1>2, EndsFrame, StoredKeeps
    <2> QED
      BY <1>0, <1>2, <2>1, EndsFrame, PartKept
  <1>3. CASE Closes(p)
    <2>1. part # None => data'[part] = data[part]
      BY <1>0, <1>3, ClosesFrame, StoredKeeps
    <2> QED
      BY <1>0, <1>3, <2>1, ClosesFrame, PartKept
  <1>4. CASE Decides(p)
    BY <1>0, <1>4, DecidesFrame DEF Resumable
  <1>5. CASE CopyLocal(p)
    <2>1. pc'[p] = "copy" /\ UNCHANGED part
      BY <1>0, <1>5 DEF CopyLocal, Goes
    <2>2. part # None => data'[part] = data[part]
      BY <1>0, <1>5 DEF CopyLocal, Live, NamesApart
    <2> QED
      BY <2>1, <2>2, PartKept
  <1>6. CASE OpenPart(p) \/ WriteChunk(p)
    BY <1>0, <1>6, OpenResumable, WriteResumable
  <1>7. CASE Rename(p)
    <2>1. part' = None /\ pc'[p] = "sig"
      BY <1>0, <1>7 DEF Rename, Goes
    <2> QED
      BY <2>1 DEF Resumable
  <1>8. CASE Discard(p)
    <2>1. UNCHANGED part /\ pc'[p] = "source" /\ Stored(data)
      BY <1>0, <1>8 DEF Discard, Goes, Continue
    <2>2. part # None => data'[part] = data[part]
      BY <1>0, <2>1, StoredKeeps
    <2> QED
      BY <2>1, <2>2, PartKept
  <1> QED
    BY <1>1, <1>2, <1>3, <1>4, <1>5, <1>6, <1>7, <1>8, EveryStep

\* Where the mirrors serve one file, .part is always a beginning of it, whether
\* the server takes ranges or not and however many runs were cut off: resuming
\* never leaves a hole, doubles a chunk or goes past the end.
THEOREM PartResumes ==
    ASSUME NEW p, Procs = {p}, NEW c \in Contents, OneFile(c)
    PROVE  Spec => []PartIsPrefix
  <1>1. Init => Opened(p) /\ Resumable(p, c)
    BY DEF Init, Opened, Resumable
  <1>2. TypeOK /\ NamesApart /\ Opened(p) /\ [Next]_vars => Opened(p)'
    BY StepOpened
  <1>3. Spec => []Opened(p)
    BY <1>1, <1>2, TypeCorrect, NamesStayApart, PTL DEF Spec
  <1>4. TypeOK /\ NamesApart /\ Opened(p) /\ Resumable(p, c) /\ [Next]_vars
            => Resumable(p, c)'
    BY StepResumable
  <1>5. Spec => []Resumable(p, c)
    BY <1>1, <1>3, <1>4, TypeCorrect, NamesStayApart, PTL DEF Spec
  <1>6. Resumable(p, c) => PartIsPrefix
    <2> SUFFICES ASSUME Resumable(p, c), part # None
                 PROVE  /\ Len(data[part]) <= NChunks
                        /\ \A k \in 1 .. Len(data[part]) : data[part][k] = <<c, k>>
      BY DEF PartIsPrefix
    <2>1. PICK n \in 0 .. NChunks : data[part] = FirstChunks(c, n)
      BY DEF Resumable
    <2>2. n \in Nat /\ n <= NChunks /\ Len(FirstChunks(c, n)) = n
      BY FetchAssumption, FirstChunksType
    <2>3. \A k \in 1 .. n : FirstChunks(c, n)[k] = <<c, k>>
      BY DEF FirstChunks
    <2> QED
      BY <2>1, <2>2, <2>3
  <1> QED
    BY <1>5, <1>6, PTL
=============================================================================
