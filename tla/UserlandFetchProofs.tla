------------------------ MODULE UserlandFetchProofs ------------------------
(***************************************************************************)
(* Proofs about UserlandFetch, for any number of runs, sources, options,   *)
(* chunks and kills.                                                       *)
(***************************************************************************)
EXTENDS UserlandFetch, TLAPS

\* A reader of the archive name finds a content, garbage or nothing.
LEMMA ReadingType == Reading \in Found
  BY DEF Reading, Found

\* A write leaves a sequence of chunks, holes included.
LEMMA WrittenType ==
    ASSUME NEW d \in Seq(Chunk \cup {Hole}), NEW x \in OpenXfer, x.next <= NChunks
    PROVE  Written(d, x) \in Seq(Chunk \cup {Hole})
  <1> DEFINE chunk == <<x.of, x.next>>
             longer == IF x.next > Len(d) THEN x.next ELSE Len(d)
             patched == [k \in 1 .. longer |->
                IF k = x.next THEN chunk ELSE IF k <= Len(d) THEN d[k] ELSE Hole]
  <1>1. chunk \in Chunk
    BY FetchAssumption DEF Chunk, OpenXfer
  <1>2. Append(d, chunk) \in Seq(Chunk \cup {Hole})
    BY <1>1
  <1>3. longer \in Nat
    BY DEF OpenXfer
  <1>4. ASSUME NEW k \in 1 .. longer
        PROVE  patched[k] \in Chunk \cup {Hole}
    <2> HIDE DEF chunk, longer
    <2>1. k <= Len(d) => d[k] \in Chunk \cup {Hole}
      BY <1>3
    <2> QED
      BY <2>1, <1>1, <1>3
  <1>5. patched \in Seq(Chunk \cup {Hole})
    <2> HIDE DEF chunk, longer, patched
    <2>1. patched \in [1 .. longer -> Chunk \cup {Hole}]
      BY <1>4 DEF patched
    <2> QED
      BY <2>1, <1>3
  <1> QED
    BY <1>2, <1>5 DEF Written

\* Freeing the inodes nobody refers to keeps the rest well-formed.
LEMMA StoredType ==
    ASSUME NEW d \in [Inodes -> Seq(Chunk \cup {Hole})], Stored(d)
    PROVE  data' \in [Inodes -> Seq(Chunk \cup {Hole})]
  <1>1. <<>> \in Seq(Chunk \cup {Hole})
    OBVIOUS
  <1> QED
    BY <1>1 DEF Stored

\* The end of a process is well-typed whatever ended it.
LEMMA FinishType ==
    ASSUME TypeOK, NEW p \in Procs, NEW code \in Codes, NEW why \in Reasons,
           NEW c \in Found, Finish(p, code, why, c), kills' \in 0 .. MaxKills
    PROVE  TypeOK'
  <1>1. data' \in [Inodes -> Seq(Chunk \cup {Hole})]
    BY StoredType DEF Finish, TypeOK
  <1>2. /\ archive' \in Inodes \cup {None} /\ part' \in Inodes \cup {None}
        /\ sigFile' \in Signed \cup {Garbage, None}
        /\ opt' \in [Procs -> Options]
    BY DEF Finish, TypeOK
  <1>3. /\ pc' \in [Procs -> States] /\ idx' \in [Procs -> Nat \ {0}]
        /\ rc' \in [Procs -> Codes] /\ validSig' \in [Procs -> BOOLEAN]
        /\ how' \in [Procs -> Reasons] /\ seen' \in [Procs -> Found]
    <2>1. "done" \in States /\ 1 \in Nat \ {0} /\ FALSE \in BOOLEAN
      BY DEF States
    <2> QED
      BY <2>1 DEF Finish, Goes, TypeOK
  <1>6. beside' \in [Procs -> SUBSET Procs]
    <2>1. Others(p) \in SUBSET Procs
      BY DEF Others
    <2>2. beside' = [beside EXCEPT ![p] = Others(p)]
      BY DEF Finish
    <2> QED
      BY <2>1, <2>2 DEF TypeOK
  <1>4. xfer' \in [Procs -> OpenXfer \cup {NoXfer}]
    BY DEF Finish, Closed, TypeOK
  <1>5. \A q \in Procs : pc'[q] \in {"copy", "get", "body"} => xfer'[q] \in OpenXfer
    BY DEF Finish, Goes, Closed, TypeOK
  <1> QED
    BY <1>1, <1>2, <1>3, <1>4, <1>5, <1>6 DEF TypeOK
-----------------------------------------------------------------------------
LEMMA InitType == Init => TypeOK
  <1>1. 1 \in Codes /\ "idle" \in States /\ "running" \in Reasons /\ None \in Found
    BY DEF Codes, States, Reasons, Found
  <1>2. 0 \in 0 .. MaxKills
    BY FetchAssumption
  <1>3. <<>> \in Seq(Chunk \cup {Hole})
    OBVIOUS
  <1> QED
    BY <1>1, <1>2, <1>3 DEF Init, TypeOK

\* Every step of a run that ends it.
LEMMA EndingType ==
    ASSUME TypeOK, NEW p \in Procs,
           \/ HashRequired(p) \/ Exhausted(p) \/ Traceback(p) \/ PayloadTraceback(p)
           \/ SignatureAccepts(p) \/ SignatureInvalid(p)
           \/ HashAccepts(p) \/ PayloadAccepts(p) \/ UnverifiedAccepted(p)
    PROVE  TypeOK'
  <1>1. {0, 1, 4, rc[p]} \subseteq Codes /\ {None, Reading} \subseteq Found
    BY ReadingType DEF TypeOK, Codes, Found
  <1>2. {"no hash", "exhausted", "traceback", "bad signature", "signature", "hash",
         "payload", "unverified"} \subseteq Reasons
    BY DEF Reasons
  <1>3. PICK code \in Codes, why \in Reasons, c \in Found : Finish(p, code, why, c)
    BY <1>1, <1>2 DEF HashRequired, Exhausted, Traceback, PayloadTraceback, SignatureAccepts,
       SignatureInvalid, HashAccepts, PayloadAccepts, UnverifiedAccepted
  <1>4. kills' \in 0 .. MaxKills
    BY DEF TypeOK, HashRequired, Exhausted, Traceback, PayloadTraceback, SignatureAccepts,
       SignatureInvalid, HashAccepts, PayloadAccepts, UnverifiedAccepted
  <1> QED
    BY <1>3, <1>4, FinishType

LEMMA KillType ==
    ASSUME TypeOK, NEW p \in Procs, Kill(p)
    PROVE  TypeOK'
  <1>1. 130 \in Codes /\ "killed" \in Reasons /\ None \in Found
    BY DEF Codes, Reasons, Found
  <1>2. kills' \in 0 .. MaxKills
    BY FetchAssumption DEF Kill, TypeOK
  <1> QED
    BY <1>1, <1>2, FinishType DEF Kill

\* Steps that move the program counter, the exit code or valid_sig and leave
\* the files and the descriptors alone.
LEMMA LocalType ==
    ASSUME TypeOK, NEW p \in Procs,
           \/ Start(p) \/ Proceed(p) \/ Cached(p) \/ GetOk(p)
           \/ ObtainSignature(p) \/ SignatureThenHash(p)
           \/ SignatureRequired(p) \/ SignatureAbsent(p) \/ HashDiffers(p)
           \/ PayloadDiffers(p) \/ UnverifiedRefused(p)
    PROVE  TypeOK'
  <1>1. {"begin", "source", "sig", "body", "verify", "hash", "discard", "payload"}
            \subseteq States
    BY DEF States
  <1>2. {1, 2, 3} \subseteq Codes /\ "running" \in Reasons /\ None \in Found
    BY DEF Codes, Reasons, Found
  <1>3. CASE Start(p)
    BY <1>1, <1>2, <1>3 DEF Start, TypeOK, Goes, files
  <1>4. CASE Proceed(p) \/ Cached(p) \/ GetOk(p)
    BY <1>1, <1>4 DEF Proceed, Cached, GetOk, TypeOK, Goes, At, files
  <1>5. CASE ObtainSignature(p)
    BY <1>1, <1>5 DEF ObtainSignature, TypeOK, Goes, files
  <1>6. CASE SignatureThenHash(p)
    BY <1>1, <1>6 DEF SignatureThenHash, TypeOK, Goes, files
  <1>7. CASE SignatureRequired(p)
    BY <1>1, <1>2, <1>7 DEF SignatureRequired, TypeOK, Goes, files
  <1>10. CASE PayloadDiffers(p)
    BY <1>1, <1>2, <1>10 DEF PayloadDiffers, TypeOK, Goes, files
  <1>8. CASE UnverifiedRefused(p)
    BY <1>1, <1>2, <1>8 DEF UnverifiedRefused, TypeOK, Goes, files
  <1>9. CASE SignatureAbsent(p) \/ HashDiffers(p)
    BY <1>1, <1>9 DEF SignatureAbsent, HashDiffers, TypeOK, Goes, files
  <1> QED
    BY <1>3, <1>4, <1>5, <1>6, <1>7, <1>8, <1>9, <1>10

\* Steps that go on with the next source and leave the files alone.
LEMMA NextSourceType ==
    ASSUME TypeOK, NEW p \in Procs, Unavailable(p) \/ RenameFails(p)
    PROVE  TypeOK'
  <1>1. "source" \in States /\ idx[p] + 1 \in Nat \ {0}
    BY DEF States, TypeOK
  <1>2. CASE Unavailable(p)
    BY <1>1, <1>2 DEF Unavailable, Continue, Goes, TypeOK, files
  <1>3. CASE RenameFails(p)
    BY <1>1, <1>3 DEF RenameFails, Continue, Goes, TypeOK, files
  <1> QED
    BY <1>2, <1>3

\* Steps that close a descriptor or change a name: an inode may be freed.
LEMMA FilesType ==
    ASSUME TypeOK, NEW p \in Procs,
           \/ CopyDone(p) \/ GetFail(p) \/ BodyEnds(p) \/ BodyError(p)
           \/ Rename(p) \/ Discard(p)
    PROVE  TypeOK'
  <1>1. {"source", "rename", "sig"} \subseteq States /\ idx[p] + 1 \in Nat \ {0}
    BY DEF States, TypeOK
  <1>2. data' \in [Inodes -> Seq(Chunk \cup {Hole})]
    BY StoredType DEF CopyDone, GetFail, BodyEnds, BodyError, Rename, Discard, TypeOK
  <1>3. CASE CopyDone(p)
    BY <1>1, <1>2, <1>3 DEF CopyDone, Continue, Goes, Closed, TypeOK
  <1>7. CASE BodyError(p)
    BY <1>1, <1>2, <1>7 DEF BodyError, Continue, Goes, Closed, TypeOK
  <1>4. CASE GetFail(p)
    BY <1>1, <1>2, <1>4 DEF GetFail, Goes, Closed, TypeOK
  <1>8. CASE BodyEnds(p)
    BY <1>1, <1>2, <1>8 DEF BodyEnds, Goes, Closed, TypeOK
  <1>5. CASE Rename(p)
    BY <1>1, <1>2, <1>5 DEF Rename, Goes, TypeOK
  <1>6. CASE Discard(p)
    BY <1>1, <1>2, <1>6 DEF Discard, Continue, Goes, TypeOK
  <1> QED
    BY <1>3, <1>4, <1>5, <1>6, <1>7, <1>8

\* The source a run is at is an entry of the list.
LEMMA SrcType ==
    ASSUME TypeOK, NEW p \in Procs, idx[p] <= Len(Sources)
    PROVE  Src(p) \in Source
  <1>1. idx[p] \in 1 .. Len(Sources)
    BY DEF TypeOK
  <1> QED
    BY <1>1, FetchAssumption DEF Src

\* A copy or a download opens its descriptor.
LEMMA OpenType ==
    ASSUME TypeOK, NEW p \in Procs, CopyLocal(p) \/ OpenPart(p)
    PROVE  TypeOK'
  <1> DEFINE AllChunks == Seq(Chunk \cup {Hole})
  <1>1. {"copy", "get"} \subseteq States
    BY DEF States
  <1>2. <<>> \in AllChunks
    OBVIOUS
  <1>3. CASE CopyLocal(p)
    <2>1. PICK c \in Src(p).offer, i \in Inodes :
            /\ archive' = i
            /\ xfer' = [xfer EXCEPT ![p] =
                          [to |-> i, append |-> FALSE, of |-> c, next |-> 1]]
            /\ data' = [data EXCEPT ![i] = <<>>]
      BY <1>3 DEF CopyLocal
    <2>2. c \in Contents
      <3>1. Src(p) \in Source
        BY <1>3, SrcType DEF CopyLocal, AtSource
      <3> QED
        BY <3>1 DEF Source
    <2>3. [to |-> i, append |-> FALSE, of |-> c, next |-> 1] \in OpenXfer
      BY <2>2 DEF OpenXfer
    <2>4. xfer' \in [Procs -> OpenXfer \cup {NoXfer}] /\ xfer'[p] \in OpenXfer
      BY <2>1, <2>3 DEF TypeOK
    <2>5. data' \in [Inodes -> AllChunks]
      BY <2>1, <1>2 DEF TypeOK
    <2> QED
      BY <1>1, <1>3, <2>1, <2>4, <2>5 DEF CopyLocal, Goes, TypeOK
  <1>4. CASE OpenPart(p)
    <2> DEFINE Old(i) == IF Src(p).ranges THEN data[i] ELSE <<>>
               New(c, i) == [to |-> i, append |-> Src(p).ranges, of |-> c,
                             next |-> Len(Old(i)) + 1]
    <2>1. PICK c \in Src(p).offer, i \in Inodes :
            /\ part' = i
            /\ xfer' = [xfer EXCEPT ![p] = New(c, i)]
            /\ data' = [data EXCEPT ![i] = Old(i)]
      BY <1>4 DEF OpenPart
    <2>2. Src(p).ranges \in BOOLEAN /\ c \in Contents
      <3>1. Src(p) \in Source
        BY <1>4, SrcType DEF OpenPart, AtSource
      <3> QED
        BY <3>1 DEF Source
    <2>3. Old(i) \in AllChunks
      BY <1>2 DEF TypeOK
    <2>4. Len(Old(i)) + 1 \in Nat \ {0}
      <3> HIDE DEF Old
      <3> QED
        BY <2>3
    <2>5. New(c, i) \in OpenXfer
      <3> HIDE DEF Old
      <3> QED
        BY <2>2, <2>4 DEF OpenXfer
    <2>6. xfer' \in [Procs -> OpenXfer \cup {NoXfer}] /\ xfer'[p] \in OpenXfer
      <3> HIDE DEF New
      <3> QED
        BY <2>1, <2>5 DEF TypeOK
    <2>7. data' \in [Inodes -> AllChunks]
      <3> HIDE DEF Old
      <3> QED
        BY <2>1, <2>3 DEF TypeOK
    <2>8. \A q \in Procs : pc'[q] \in {"copy", "get", "body"} => xfer'[q] \in OpenXfer
      <3> HIDE DEF New
      <3> QED
        BY <1>4, <2>1, <2>6 DEF OpenPart, Goes, TypeOK
    <2> QED
      <3> HIDE DEF New, Old
      <3> QED
        BY <1>1, <1>4, <2>1, <2>6, <2>7, <2>8 DEF OpenPart, Goes, TypeOK
  <1> QED
    BY <1>3, <1>4

LEMMA WriteType ==
    ASSUME TypeOK, NEW p \in Procs, WriteChunk(p)
    PROVE  TypeOK'
  <1>1. xfer[p] \in OpenXfer /\ xfer[p].to \in Inodes /\ xfer[p].next <= NChunks
    BY DEF WriteChunk, TypeOK, OpenXfer
  <1>2. Written(data[xfer[p].to], xfer[p]) \in Seq(Chunk \cup {Hole})
    BY <1>1, WrittenType DEF TypeOK
  <1>3. data' \in [Inodes -> Seq(Chunk \cup {Hole})]
    BY <1>1, <1>2 DEF WriteChunk, TypeOK
  <1>4. Advanced(xfer[p]) \in OpenXfer
    BY <1>1 DEF OpenXfer, Advanced
  <1>5. xfer' = [xfer EXCEPT ![p] = Advanced(xfer[p])]
    BY DEF WriteChunk
  <1>6. /\ xfer' \in [Procs -> OpenXfer \cup {NoXfer}]
        /\ \A q \in Procs : xfer'[q] \in OpenXfer \/ xfer'[q] = xfer[q]
    BY <1>4, <1>5 DEF TypeOK
  <1> QED
    BY <1>3, <1>6 DEF WriteChunk, TypeOK

LEMMA StepType == TypeOK /\ [Next]_vars => TypeOK'
  <1> SUFFICES ASSUME TypeOK, [Next]_vars PROVE TypeOK'
    OBVIOUS
  <1>1. CASE UNCHANGED vars
    BY <1>1 DEF vars, TypeOK
  <1>2. ASSUME NEW p \in Procs, Start(p) \/ Step(p) \/ Kill(p)
        PROVE  TypeOK'
    BY <1>2, EndingType, KillType, LocalType, NextSourceType, FilesType, OpenType,
       WriteType DEF Step
  <1> QED
    BY <1>1, <1>2 DEF Next

\* Whatever the sources, the options and the number of runs, every variable
\* keeps its type and every run that copies or downloads has its descriptor.
THEOREM TypeCorrect == Spec => []TypeOK
  BY InitType, StepType, PTL DEF Spec
-----------------------------------------------------------------------------
\* A copy and a download take a new inode only where no name is in use.
LEMMA StepApart == TypeOK /\ NamesApart /\ [Next]_vars => NamesApart'
  <1> SUFFICES ASSUME TypeOK, NamesApart, [Next]_vars PROVE NamesApart'
    OBVIOUS
  <1>1. CASE UNCHANGED vars
    BY <1>1 DEF vars, NamesApart
  <1>2. ASSUME NEW p \in Procs, Start(p) \/ Step(p) \/ Kill(p)
        PROVE  NamesApart'
    <2>1. CASE CopyLocal(p)
      BY <2>1, FetchAssumption DEF CopyLocal, NamesApart, Live
    <2>2. CASE OpenPart(p)
      BY <2>2, FetchAssumption DEF OpenPart, NamesApart, Live
    <2>3. CASE Rename(p)
      BY <2>3 DEF Rename, NamesApart
    <2>4. CASE Discard(p)
      BY <2>4 DEF Discard, NamesApart
    <2>5. CASE Start(p)
      BY <2>5 DEF Start, NamesApart, files
    <2>6. CASE Kill(p)
      BY <2>6 DEF Kill, Finish, NamesApart
    <2>7. ASSUME Step(p), ~CopyLocal(p), ~OpenPart(p), ~Rename(p), ~Discard(p)
          PROVE  UNCHANGED <<archive, part>>
      BY <2>7 DEF Step, HashRequired, Proceed, Exhausted, Cached, Unavailable,
         CopyDone, GetOk, GetFail, WriteChunk, BodyEnds, BodyError, Traceback, PayloadTraceback,
         RenameFails, ObtainSignature, SignatureAccepts, SignatureThenHash,
         SignatureInvalid, SignatureRequired, SignatureAbsent, HashAccepts,
         HashDiffers, PayloadAccepts, PayloadDiffers, UnverifiedAccepted,
         UnverifiedRefused, Finish, files
    <2> QED
      BY <1>2, <2>1, <2>2, <2>3, <2>4, <2>5, <2>6, <2>7 DEF NamesApart
  <1> QED
    BY <1>1, <1>2 DEF Next

\* The archive is never the file a download in progress has open by the name
\* of .part, however many runs open, rename, copy and remove at once.
THEOREM NamesStayApart == Spec => []NamesApart
  <1>1. Init => NamesApart
    BY DEF Init, NamesApart
  <1> QED
    BY <1>1, TypeCorrect, StepApart, PTL DEF Spec
-----------------------------------------------------------------------------
\* What one run says of its own success.
Validated(p) == pc[p] = "done" /\ rc[p] = 0 =>
    \/ how[p] = "signature" /\ seen[p] \in Signed
    \/ how[p] = "hash" /\ ContainerMatches(opt[p], seen[p])
    \/ how[p] = "payload" /\ PayloadMatches(opt[p], seen[p])
    \/ how[p] = "unverified" /\ opt[p].hash = None /\ opt[p].allow /\ ~opt[p].needHash

\* Why it holds: a run has no exit code 0 before it decides, a signature is
\* carried to another source only by a run that still demands a hash, and a
\* run that demands a hash has one.
Undecided(p) ==
    /\ Active(p) => rc[p] # 0
    /\ validSig[p] => Active(p) /\ opt[p].needHash
    /\ pc[p] \notin {"idle", "begin", "done"} => ~(opt[p].needHash /\ opt[p].hash = None)

Honest == \A p \in Procs : Validated(p) /\ Undecided(p)

Locals(p) == <<pc[p], opt[p], rc[p], validSig[p], how[p], seen[p], beside[p]>>

\* A signature verifies only for a content upstream has signed.
LEMMA SignedOnly ==
    ASSUME TypeOK, NEW p \in Procs, SignatureVerifies(p)
    PROVE  Reading \in Signed
  <1>1. None \notin Contents /\ Garbage \notin Contents
    BY FetchAssumption DEF Digests
  <1> QED
    BY <1>1 DEF SignatureVerifies, TypeOK

\* A run that ends is honest when it had no right to exit code 0.
LEMMA FinishFails ==
    ASSUME TypeOK, NEW p \in Procs, NEW code, NEW why, NEW c,
           Finish(p, code, why, c), code # 0
    PROVE  Validated(p)' /\ Undecided(p)'
  <1>1. pc'[p] = "done" /\ rc'[p] = code /\ validSig'[p] = FALSE
    BY DEF Finish, Goes, TypeOK
  <1> QED
    BY <1>1 DEF Validated, Undecided, Active

\* A run that ends well leaves what it decided on.
LEMMA FinishLocals ==
    ASSUME TypeOK, NEW p \in Procs, NEW code, NEW why, NEW c, Finish(p, code, why, c)
    PROVE  /\ pc'[p] = "done" /\ rc'[p] = code /\ how'[p] = why /\ seen'[p] = c
           /\ beside'[p] = Others(p)
           /\ validSig'[p] = FALSE /\ opt'[p] = opt[p]
           /\ \A q \in Procs \ {p} : Locals(q)' = Locals(q)
  BY DEF Finish, Goes, TypeOK, Locals

\* The runs that end: with an exit code they are entitled to.
LEMMA EndingHonest ==
    ASSUME TypeOK, Honest, NEW p \in Procs,
           \/ HashRequired(p) \/ Exhausted(p) \/ Traceback(p) \/ PayloadTraceback(p) \/ Kill(p)
           \/ SignatureAccepts(p) \/ SignatureInvalid(p)
           \/ HashAccepts(p) \/ PayloadAccepts(p) \/ UnverifiedAccepted(p)
    PROVE  Validated(p)' /\ Undecided(p)'
  <1>1. CASE \/ HashRequired(p) \/ Exhausted(p) \/ Traceback(p) \/ PayloadTraceback(p) \/ Kill(p)
             \/ SignatureInvalid(p)
    <2>1. Active(p) => rc[p] # 0
      BY DEF Honest, Undecided
    <2>2. Exhausted(p) \/ SignatureInvalid(p) => rc[p] # 0
      BY <2>1 DEF Exhausted, SignatureInvalid, At, Active
    <2>3. CASE Exhausted(p)
      BY <2>2, <2>3, FinishFails DEF Exhausted
    <2>4. CASE SignatureInvalid(p)
      BY <2>2, <2>4, FinishFails DEF SignatureInvalid
    <2>5. CASE HashRequired(p)
      <3>1. Finish(p, 4, "no hash", None)
        BY <2>5 DEF HashRequired
      <3>2. 4 # 0
        OBVIOUS
      <3> QED
        BY <3>1, <3>2, FinishFails
    <2>6. CASE Traceback(p) \/ PayloadTraceback(p)
      BY <2>6, FinishFails DEF Traceback, PayloadTraceback
    <2>7. CASE Kill(p)
      BY <2>7, FinishFails DEF Kill
    <2> QED
      BY <1>1, <2>3, <2>4, <2>5, <2>6, <2>7
  <1>2. CASE SignatureAccepts(p)
    <2>1. ~validSig[p]
      BY <1>2 DEF SignatureAccepts, Honest, Undecided
    <2>2. Reading \in Signed
      BY <1>2, <2>1, SignedOnly DEF SignatureAccepts, ValidSignature
    <2> QED
      BY <1>2, <2>2, FinishLocals DEF SignatureAccepts, Validated, Undecided, Active
  <1>3. CASE HashAccepts(p)
    <2>1. /\ pc'[p] = "done" /\ how'[p] = "hash" /\ seen'[p] = Reading
          /\ validSig'[p] = FALSE /\ opt'[p] = opt[p]
      BY <1>3, FinishLocals DEF HashAccepts
    <2>2. ContainerMatches(opt[p], Reading)'
            <=> ContainerMatches(opt'[p], Reading')
      OBVIOUS
    <2>3. ContainerMatches(opt'[p], seen'[p])
      BY <1>3, <2>1 DEF HashAccepts
    <2> QED
      BY <2>1, <2>3 DEF Validated, Undecided, Active
  <1>4. CASE PayloadAccepts(p)
    <2>1. /\ pc'[p] = "done" /\ how'[p] = "payload" /\ seen'[p] = Reading
          /\ validSig'[p] = FALSE /\ opt'[p] = opt[p]
      BY <1>4, FinishLocals DEF PayloadAccepts
    <2>2. PayloadMatches(opt'[p], seen'[p])
      BY <1>4, <2>1 DEF PayloadAccepts
    <2> QED
      BY <2>1, <2>2 DEF Validated, Undecided, Active
  <1>5. CASE UnverifiedAccepted(p)
    <2>3. Finish(p, 0, "unverified", Reading)
      BY <1>5 DEF UnverifiedAccepted
    <2>1. /\ pc'[p] = "done" /\ how'[p] = "unverified"
          /\ validSig'[p] = FALSE /\ opt'[p] = opt[p]
      BY <2>3, FinishLocals
    <2>2. opt[p].hash = None /\ opt[p].allow /\ ~opt[p].needHash
      BY <1>5 DEF UnverifiedAccepted, At, Honest, Undecided
    <2> QED
      BY <2>1, <2>2 DEF Validated, Undecided, Active
  <1> QED
    BY <1>1, <1>2, <1>3, <1>4, <1>5

\* The other steps of a run keep it undecided.
LEMMA RunningHonest ==
    ASSUME TypeOK, Honest, NEW p \in Procs,
           \/ Start(p) \/ Proceed(p) \/ Cached(p) \/ Unavailable(p) \/ CopyLocal(p)
           \/ CopyDone(p) \/ OpenPart(p) \/ GetOk(p) \/ GetFail(p) \/ WriteChunk(p)
           \/ BodyEnds(p) \/ BodyError(p) \/ Rename(p) \/ RenameFails(p)
           \/ ObtainSignature(p) \/ SignatureThenHash(p) \/ SignatureRequired(p)
           \/ SignatureAbsent(p) \/ HashDiffers(p) \/ PayloadDiffers(p)
           \/ UnverifiedRefused(p) \/ Discard(p)
    PROVE  Validated(p)' /\ Undecided(p)'
  <1> USE DEF Honest, Validated, Undecided, Active, TypeOK, Goes, At, Continue
  <1>1. CASE Start(p)
    BY <1>1 DEF Start
  <1>2. CASE Proceed(p)
    BY <1>2 DEF Proceed
  <1>3. CASE Cached(p) \/ Unavailable(p) \/ CopyLocal(p) \/ CopyDone(p) \/ OpenPart(p)
    BY <1>3 DEF Cached, Unavailable, CopyLocal, CopyDone, OpenPart, AtSource
  <1>4. CASE GetOk(p) \/ GetFail(p) \/ WriteChunk(p) \/ BodyEnds(p) \/ BodyError(p)
    BY <1>4 DEF GetOk, GetFail, WriteChunk, BodyEnds, BodyError
  <1>5. CASE Rename(p) \/ RenameFails(p) \/ ObtainSignature(p) \/ Discard(p)
    BY <1>5 DEF Rename, RenameFails, ObtainSignature, Discard
  <1>6. CASE SignatureThenHash(p)
    BY <1>6 DEF SignatureThenHash
  <1>7. CASE SignatureRequired(p) \/ SignatureAbsent(p) \/ HashDiffers(p)
    BY <1>7 DEF SignatureRequired, SignatureAbsent, HashDiffers
  <1>8. CASE PayloadDiffers(p)
    BY <1>8 DEF PayloadDiffers
  <1>9. CASE UnverifiedRefused(p)
    <2>1. rc'[p] # 0
      BY <1>9 DEF UnverifiedRefused
    <2>2. pc[p] = "hash" /\ pc'[p] = "discard" /\ UNCHANGED <<opt, validSig>>
      BY <1>9 DEF UnverifiedRefused
    <2> QED
      BY <2>1, <2>2
  <1> QED
    BY <1>1, <1>2, <1>3, <1>4, <1>5, <1>6, <1>7, <1>8, <1>9

\* A step of one run leaves the locals of the others alone.
LEMMA OthersAlone ==
    ASSUME TypeOK, NEW p \in Procs, Start(p) \/ Step(p) \/ Kill(p),
           NEW q \in Procs, q # p
    PROVE  Locals(q)' = Locals(q)
  <1> USE DEF Locals, TypeOK, Goes, Continue
  <1>1. ASSUME NEW code, NEW why, NEW c, Finish(p, code, why, c)
        PROVE  Locals(q)' = Locals(q)
    BY <1>1, FinishLocals DEF Finish
  <1>2. CASE \/ HashRequired(p) \/ Exhausted(p) \/ Traceback(p) \/ PayloadTraceback(p) \/ Kill(p)
             \/ SignatureAccepts(p) \/ SignatureInvalid(p)
             \/ HashAccepts(p) \/ PayloadAccepts(p) \/ UnverifiedAccepted(p)
    <2>1. \E code, why, c : Finish(p, code, why, c)
      BY <1>2 DEF HashRequired, Exhausted, Traceback, PayloadTraceback, Kill, SignatureAccepts,
         SignatureInvalid, HashAccepts, PayloadAccepts, UnverifiedAccepted
    <2> QED
      BY <1>1, <2>1
  <1>3. CASE Start(p) \/ Proceed(p) \/ Cached(p) \/ Unavailable(p) \/ CopyLocal(p)
             \/ CopyDone(p) \/ OpenPart(p) \/ GetOk(p) \/ GetFail(p) \/ WriteChunk(p)
    BY <1>3 DEF Start, Proceed, Cached, Unavailable, CopyLocal, CopyDone, OpenPart,
       GetOk, GetFail, WriteChunk
  <1>4. CASE BodyEnds(p) \/ BodyError(p) \/ Rename(p) \/ RenameFails(p)
             \/ ObtainSignature(p) \/ SignatureThenHash(p) \/ SignatureRequired(p)
             \/ SignatureAbsent(p) \/ HashDiffers(p) \/ PayloadDiffers(p)
             \/ UnverifiedRefused(p) \/ Discard(p)
    BY <1>4 DEF BodyEnds, BodyError, Rename, RenameFails, ObtainSignature,
       SignatureThenHash, SignatureRequired, SignatureAbsent, HashDiffers,
       PayloadDiffers, UnverifiedRefused, Discard
  <1> QED
    BY <1>2, <1>3, <1>4 DEF Step

LEMMA StepHonest == TypeOK /\ Honest /\ [Next]_vars => Honest'
  <1> SUFFICES ASSUME TypeOK, Honest, [Next]_vars PROVE Honest'
    OBVIOUS
  <1>1. ASSUME NEW q \in Procs, Locals(q)' = Locals(q)
        PROVE  Validated(q)' /\ Undecided(q)'
    BY <1>1 DEF Honest, Locals, Validated, Undecided, Active, ContainerMatches,
       PayloadMatches
  <1>2. CASE UNCHANGED vars
    BY <1>1, <1>2 DEF vars, Locals, Honest
  <1>3. ASSUME NEW p \in Procs, Start(p) \/ Step(p) \/ Kill(p)
        PROVE  Honest'
    <2>1. Validated(p)' /\ Undecided(p)'
      BY <1>3, EndingHonest, RunningHonest DEF Step
    <2>2. \A q \in Procs : q # p => Validated(q)' /\ Undecided(q)'
      BY <1>1, <1>3, OthersAlone
    <2> QED
      BY <2>1, <2>2 DEF Honest
  <1> QED
    BY <1>2, <1>3 DEF Next

\* However many runs overlap on the archive, whatever the mirrors serve and
\* whoever is killed, exit code 0 is given only after a check of this run, on
\* the file of the source it is at.
THEOREM SuccessMeansValidated == Spec => []SuccessIsValidated
  <1>1. Init => Honest
    BY DEF Init, Honest, Validated, Undecided, Active
  <1>2. Honest => SuccessIsValidated
    BY DEF Honest, Validated, SuccessIsValidated
  <1> QED
    BY <1>1, <1>2, TypeCorrect, StepHonest, PTL DEF Spec
-----------------------------------------------------------------------------
\* Blocks are freed only of files without a name or a descriptor.
LEMMA StoredKeeps ==
    ASSUME NEW d, Stored(d), NEW i \in Inodes, i \in {archive', part'}
    PROVE  data'[i] = d[i]
  BY DEF Stored, Live

\* Nothing at all is found only where there is no file.
LEMMA NoneIsNoFile == Reading = None <=> archive = None
  <1>1. None \notin Contents \cup {Garbage}
    BY FetchAssumption DEF Digests
  <1> QED
    BY <1>1 DEF Reading


\* A run that ends leaves the archive name and what it refers to.
LEMMA EndReads ==
    ASSUME TypeOK, archive # None, NEW p \in Procs, NEW code, NEW why, NEW c,
           Finish(p, code, why, c)
    PROVE  archive' = archive /\ Reading' = Reading
  <1>1. archive' = archive /\ Stored(data) /\ archive \in Inodes
    BY DEF Finish, TypeOK
  <1>2. data'[archive] = data[archive]
    BY <1>1, StoredKeeps
  <1> QED
    BY <1>1, <1>2 DEF Reading

\* A signature that was found valid is on disk, and a run that demands one
\* looks at hashes only then.
SignatureThere == \A q \in Procs :
    validSig[q] \/ (pc[q] \in {"hash", "payload"} /\ opt[q].needSig) => sigFile # None

\* A run that is not under way has nothing open and starts at the first source.
Resting(q) == ~Active(q) => idx[q] = 1 /\ xfer[q] = NoXfer

\* The file in place has the hash all runs ask for.
Fits(o) == ContainerMatches(o, Reading) \/ PayloadMatches(o, Reading)

\* A run at the file that is there, which has no reason to go further.
AtFirst(o, q) ==
    /\ idx[q] = 1 /\ xfer[q] = NoXfer
    /\ pc[q] \in {"begin", "source", "sig", "verify", "hash", "payload"}
    /\ pc[q] = "hash" => Fits(o)
    /\ pc[q] = "payload" => PayloadMatches(o, Reading)

\* The step ends the run.
Over(p) == Active(p) /\ pc'[p] = "done"

Settled(p) == pc[p] = "done" /\ rc[p] = 0 /\ beside[p] = {}

\* What a run that ended well, alone, leaves for the ones that follow.
Kept(o) ==
    /\ archive # None
    /\ Fits(o) \/ (~o.needHash /\ sigFile # None)
    /\ o.needSig => sigFile # None
    /\ \A q \in Procs : Active(q) => AtFirst(o, q)

SettledInv(o) ==
    /\ SignatureThere
    /\ \A q \in Procs : Resting(q)
    /\ \A p \in Procs : Settled(p) => Reading = seen[p] /\ Kept(o)

\* A signature on disk is replaced, never removed.
LEMMA SignatureStays ==
    ASSUME TypeOK, NEW p \in Procs, Start(p) \/ Step(p) \/ Kill(p), sigFile # None
    PROVE  sigFile' # None
  <1>1. None \notin Signed \cup {Garbage}
    BY FetchAssumption DEF Digests
  <1>2. CASE ObtainSignature(p)
    BY <1>1, <1>2 DEF ObtainSignature
  <1>3. ASSUME ~ObtainSignature(p)
        PROVE  sigFile' = sigFile
    BY <1>3 DEF Step, Start, Kill, HashRequired, Proceed, Exhausted, Cached, Unavailable,
       CopyLocal, CopyDone, OpenPart, GetOk, GetFail, WriteChunk, BodyEnds, BodyError,
       Traceback, PayloadTraceback, Rename, RenameFails, SignatureAccepts,
       SignatureThenHash, SignatureInvalid, SignatureRequired, SignatureAbsent,
       HashAccepts, HashDiffers, PayloadAccepts, PayloadDiffers, UnverifiedAccepted,
       UnverifiedRefused, Discard, Finish, files
  <1> QED
    BY <1>2, <1>3

\* Nor does a step of one run move another one.
LEMMA OthersStay ==
    ASSUME TypeOK, NEW p \in Procs, Start(p) \/ Step(p) \/ Kill(p), NEW q \in Procs, q # p
    PROVE  idx'[q] = idx[q] /\ xfer'[q] = xfer[q]
  BY DEF TypeOK, Step, Start, Kill, HashRequired, Proceed, Exhausted, Cached, Unavailable,
     CopyLocal, CopyDone, OpenPart, GetOk, GetFail, WriteChunk, BodyEnds, BodyError,
     Traceback, PayloadTraceback, Rename, RenameFails, ObtainSignature, SignatureAccepts,
     SignatureThenHash, SignatureInvalid, SignatureRequired, SignatureAbsent,
     HashAccepts, HashDiffers, PayloadAccepts, PayloadDiffers, UnverifiedAccepted,
     UnverifiedRefused, Discard, Finish, Continue, Closed, files

\* What a run finds first, and where it goes: it never leaves a file that fits.
LEMMA FirstStays ==
    ASSUME TypeOK, TypeOK', NEW o \in Option, Options = {o}, o.hash # None,
           Kept(o), NEW q \in Procs, Resting(q), Start(q) \/ Step(q) \/ Kill(q)
    PROVE  /\ archive' = archive /\ Reading' = Reading
           /\ Active(q)' => AtFirst(o, q)'
  <1>1. opt[q] = o /\ archive # None
    BY DEF TypeOK, Kept
  <1>2. Len(Sources) >= 1 /\ Sources[1].kind = "self"
    BY FileComesFirst, FetchAssumption
  <1>3. ASSUME NEW code, NEW why, NEW c, Finish(q, code, why, c)
        PROVE  /\ archive' = archive /\ Reading' = Reading
               /\ ~Active(q)'
    <2>1. pc'[q] = "done"
      BY <1>3, FinishLocals
    <2> QED
      BY <1>1, <1>3, <2>1, EndReads DEF Active
  <1>4. ASSUME UNCHANGED files, idx'[q] = 1, xfer'[q] = NoXfer,
               pc'[q] \in {"begin", "source", "sig", "verify"}
                 \/ (pc'[q] = "hash" /\ Fits(o))
                 \/ (pc'[q] = "payload" /\ PayloadMatches(o, Reading))
        PROVE  /\ archive' = archive /\ Reading' = Reading
               /\ Active(q)' => AtFirst(o, q)'
    <2>1. archive' = archive /\ Reading' = Reading
      BY <1>4 DEF files, Reading
    <2>2. Fits(o)' <=> Fits(o)
      BY <2>1 DEF Fits, ContainerMatches, PayloadMatches
    <2>3. PayloadMatches(o, Reading)' <=> PayloadMatches(o, Reading)
      BY <2>1 DEF PayloadMatches
    <2> QED
      BY <1>4, <2>1, <2>2, <2>3 DEF AtFirst
  <1>5. CASE Start(q)
    BY <1>4, <1>5 DEF Start, Resting, Goes, TypeOK
  <1>6. CASE Kill(q)
    BY <1>3, <1>6 DEF Kill
  <1>7. CASE Step(q)
    <2>1. Active(q)
      BY <1>7 DEF Step, Active, At, AtSource, HashRequired, Proceed, Exhausted, Cached,
         Unavailable, CopyLocal, CopyDone, OpenPart, GetOk, GetFail, WriteChunk, BodyEnds,
         BodyError, Traceback, PayloadTraceback, Rename, RenameFails, ObtainSignature,
         SignatureAccepts, SignatureThenHash, SignatureInvalid, SignatureRequired,
         SignatureAbsent, HashAccepts, HashDiffers, PayloadAccepts, PayloadDiffers,
         UnverifiedAccepted, UnverifiedRefused, Discard
    <2>2. AtFirst(o, q)
      BY <2>1 DEF Kept
    <2>3. CASE \/ HashRequired(q) \/ Exhausted(q) \/ Traceback(q) \/ PayloadTraceback(q)
               \/ SignatureAccepts(q) \/ SignatureInvalid(q)
               \/ HashAccepts(q) \/ PayloadAccepts(q) \/ UnverifiedAccepted(q)
      <3>1. \E code, why, c : Finish(q, code, why, c)
        BY <2>3 DEF HashRequired, Exhausted, Traceback, PayloadTraceback,
           SignatureAccepts, SignatureInvalid, HashAccepts, PayloadAccepts,
           UnverifiedAccepted
      <3> QED
        BY <1>3, <3>1
    <2>4. CASE Proceed(q) \/ Cached(q) \/ ObtainSignature(q)
      BY <1>4, <2>2, <2>4 DEF Proceed, Cached, ObtainSignature, Goes, TypeOK, AtFirst
    <2>5. CASE SignatureThenHash(q) \/ SignatureAbsent(q)
      <3>1. Fits(o)
        BY <1>1, <2>5 DEF SignatureThenHash, SignatureAbsent, Kept
      <3> QED
        BY <1>4, <2>2, <2>5, <3>1
           DEF SignatureThenHash, SignatureAbsent, Goes, TypeOK, AtFirst
    <2>6. CASE HashDiffers(q)
      <3>1. PayloadMatches(o, Reading)
        BY <1>1, <2>2, <2>6 DEF HashDiffers, At, AtFirst, Fits
      <3> QED
        BY <1>4, <2>2, <2>6, <3>1 DEF HashDiffers, Goes, TypeOK, AtFirst
    <2>7. ASSUME \/ Unavailable(q) \/ CopyLocal(q) \/ OpenPart(q) \/ SignatureRequired(q)
                 \/ PayloadDiffers(q) \/ UnverifiedRefused(q)
          PROVE  FALSE
      BY <1>1, <1>2, <2>2, <2>7 DEF Unavailable, CopyLocal, OpenPart, SignatureRequired,
         PayloadDiffers, UnverifiedRefused, At, AtSource, Src, AtFirst, Kept
    <2>8. ASSUME \/ CopyDone(q) \/ GetOk(q) \/ GetFail(q) \/ WriteChunk(q) \/ BodyEnds(q)
                 \/ BodyError(q) \/ Rename(q) \/ RenameFails(q) \/ Discard(q)
          PROVE  FALSE
      BY <2>2, <2>8 DEF CopyDone, GetOk, GetFail, WriteChunk, BodyEnds, BodyError, Rename,
         RenameFails, Discard, At, AtFirst
    <2> QED
      BY <1>7, <2>3, <2>4, <2>5, <2>6, <2>7, <2>8 DEF Step
  <1> QED
    BY <1>5, <1>6, <1>7

\* A run that ends well with no other under way leaves what it was content with.
LEMMA EndSettles ==
    ASSUME TypeOK, Honest, SignatureThere, NEW o \in Option, Options = {o},
           o.hash # None, NEW p \in Procs, Active(p), Step(p) \/ Kill(p),
           pc'[p] = "done", rc'[p] = 0
    PROVE  /\ archive' = archive /\ archive # None
           /\ Reading' = Reading /\ seen'[p] = Reading
           /\ Fits(o) \/ (~o.needHash /\ sigFile # None)
           /\ o.needSig => sigFile # None
           /\ sigFile' = sigFile
           /\ beside'[p] = Others(p)
  <1>1. opt[p] = o /\ rc[p] # 0
    BY DEF TypeOK, Honest, Undecided
  <1>2. None \notin Contents \cup {Garbage}
    BY FetchAssumption DEF Digests
  <1>3. CASE SignatureAccepts(p) \/ HashAccepts(p) \/ PayloadAccepts(p)
    <2>1. PICK why : Finish(p, 0, why, Reading)
      BY <1>3 DEF SignatureAccepts, HashAccepts, PayloadAccepts
    <2>2. Reading # None
      <3>1. CASE SignatureAccepts(p)
        BY <1>2, <3>1 DEF SignatureAccepts, ValidSignature, SignatureVerifies, Honest,
           Undecided
      <3>2. CASE HashAccepts(p) \/ PayloadAccepts(p)
        BY <1>1, <1>2, <3>2 DEF HashAccepts, PayloadAccepts, ContainerMatches,
           PayloadMatches
      <3> QED
        BY <1>3, <3>1, <3>2
    <2>3. archive # None /\ archive' = archive /\ Reading' = Reading
      BY <2>1, <2>2, NoneIsNoFile, EndReads
    <2>4. seen'[p] = Reading /\ sigFile' = sigFile /\ beside'[p] = Others(p)
      <3>1. sigFile' = sigFile
        BY <2>1 DEF Finish
      <3>2. seen'[p] = Reading
        BY <2>1 DEF Finish, TypeOK
      <3>3. beside'[p] = Others(p)
        BY <2>1, FinishLocals
      <3> QED
        BY <3>1, <3>2, <3>3
    <2>5. CASE SignatureAccepts(p)
      <3>1. sigFile # None
        BY <1>2, <2>5 DEF SignatureAccepts, ValidSignature, SignatureVerifies,
           SignatureThere
      <3> QED
        BY <1>1, <2>3, <2>4, <2>5, <3>1 DEF SignatureAccepts
    <2>6. CASE HashAccepts(p) \/ PayloadAccepts(p)
      BY <1>1, <2>3, <2>4, <2>6 DEF HashAccepts, PayloadAccepts, Fits, At, SignatureThere
    <2> QED
      BY <1>3, <2>5, <2>6
  <1>4. CASE UnverifiedAccepted(p)
    BY <1>1, <1>4 DEF UnverifiedAccepted
  <1>5. CASE \/ HashRequired(p) \/ Exhausted(p) \/ Traceback(p) \/ PayloadTraceback(p)
             \/ SignatureInvalid(p) \/ Kill(p)
    <2>1. PICK code \in {4, 1, 130, rc[p]} : \E why, c : Finish(p, code, why, c)
      BY <1>5 DEF HashRequired, Exhausted, Traceback, PayloadTraceback, SignatureInvalid,
         Kill
    <2>2. rc'[p] = code
      BY <2>1, FinishLocals
    <2>3. code # 0
      BY <1>1, <2>1
    <2> QED
      BY <2>2, <2>3
  <1>6. ASSUME \/ Proceed(p) \/ Cached(p) \/ Unavailable(p) \/ CopyLocal(p)
               \/ CopyDone(p) \/ OpenPart(p) \/ GetOk(p) \/ GetFail(p) \/ WriteChunk(p)
               \/ BodyEnds(p) \/ BodyError(p) \/ Rename(p) \/ RenameFails(p)
               \/ ObtainSignature(p) \/ SignatureThenHash(p) \/ SignatureRequired(p)
               \/ SignatureAbsent(p) \/ HashDiffers(p) \/ PayloadDiffers(p)
               \/ UnverifiedRefused(p) \/ Discard(p)
        PROVE  FALSE
    BY <1>6 DEF Proceed, Cached, Unavailable, CopyLocal, CopyDone, OpenPart, GetOk,
       GetFail, WriteChunk, BodyEnds, BodyError, Rename, RenameFails, ObtainSignature,
       SignatureThenHash, SignatureRequired, SignatureAbsent, HashDiffers, PayloadDiffers,
       UnverifiedRefused, Discard, Continue, Goes, TypeOK, Active
  <1> QED
    BY <1>3, <1>4, <1>5, <1>6 DEF Step

\* The signature on disk is there when a run relies on it.
LEMMA SignatureStep == TypeOK /\ SignatureThere /\ [Next]_vars => SignatureThere'
  <1> SUFFICES ASSUME TypeOK, SignatureThere, [Next]_vars PROVE SignatureThere'
    OBVIOUS
  <1>1. CASE UNCHANGED vars
    BY <1>1 DEF vars, SignatureThere
  <1>2. ASSUME NEW p \in Procs, Start(p) \/ Step(p) \/ Kill(p)
        PROVE  SignatureThere'
    <2>1. ASSUME NEW q \in Procs, q # p
          PROVE  Locals(q)' = Locals(q)
      BY <1>2, <2>1, OthersAlone
    <2>2. sigFile # None => sigFile' # None
      BY <1>2, SignatureStays
    <2>3. validSig'[p] \/ (pc'[p] \in {"hash", "payload"} /\ opt'[p].needSig)
            => sigFile' # None
      <3>1. ASSUME NEW code, NEW why, NEW c, Finish(p, code, why, c)
            PROVE  ~validSig'[p] /\ pc'[p] = "done"
        BY <3>1, FinishLocals
      <3>2. CASE \/ HashRequired(p) \/ Exhausted(p) \/ Traceback(p) \/ Kill(p)
                 \/ PayloadTraceback(p)
                 \/ SignatureAccepts(p) \/ SignatureInvalid(p)
                 \/ HashAccepts(p) \/ PayloadAccepts(p) \/ UnverifiedAccepted(p)
        <4>1. \E code, why, c : Finish(p, code, why, c)
          BY <3>2 DEF HashRequired, Exhausted, Traceback, PayloadTraceback, Kill,
             SignatureAccepts, SignatureInvalid, HashAccepts, PayloadAccepts,
             UnverifiedAccepted
        <4> QED
          BY <3>1, <4>1
      <3>3. CASE SignatureThenHash(p)
        <4>1. None \notin Contents
          BY FetchAssumption DEF Digests
        <4>2. sigFile # None
          BY <3>3, <4>1 DEF SignatureThenHash, ValidSignature, SignatureVerifies,
             SignatureThere
        <4> QED
          BY <2>2, <4>2
      <3>4. CASE SignatureAbsent(p)
        BY <3>4 DEF SignatureAbsent, ValidSignature, Goes, TypeOK, SignatureThere
      <3>5. CASE HashDiffers(p)
        BY <2>2, <3>5 DEF HashDiffers, At, Goes, TypeOK, SignatureThere
      <3>6. CASE \/ Start(p) \/ Proceed(p) \/ Cached(p) \/ Unavailable(p)
                 \/ CopyLocal(p) \/ CopyDone(p) \/ OpenPart(p) \/ GetOk(p) \/ GetFail(p)
                 \/ WriteChunk(p) \/ BodyEnds(p) \/ BodyError(p) \/ Rename(p)
                 \/ RenameFails(p) \/ ObtainSignature(p) \/ SignatureRequired(p)
                 \/ PayloadDiffers(p) \/ UnverifiedRefused(p) \/ Discard(p)
        <4>1. validSig'[p] = validSig[p] /\ pc'[p] \notin {"hash", "payload"}
          BY <3>6 DEF Start, Proceed, Cached, Unavailable, CopyLocal, CopyDone, OpenPart,
             GetOk, GetFail, WriteChunk, BodyEnds, BodyError, Rename, RenameFails,
             ObtainSignature, SignatureRequired, PayloadDiffers, UnverifiedRefused,
             Discard, Continue, Goes, TypeOK
        <4> QED
          BY <2>2, <4>1 DEF SignatureThere
      <3> QED
        BY <1>2, <3>2, <3>3, <3>4, <3>5, <3>6 DEF Step
    <2> QED
      BY <2>1, <2>2, <2>3 DEF SignatureThere, Locals
  <1> QED
    BY <1>1, <1>2 DEF Next

\* Between two runs a process has nothing open.
LEMMA RestingStep ==
    ASSUME TypeOK, \A q \in Procs : Resting(q), [Next]_vars
    PROVE  \A q \in Procs : Resting(q)'
  <1>1. CASE UNCHANGED vars
    BY <1>1 DEF vars, Resting, Active
  <1>2. ASSUME NEW p \in Procs, Start(p) \/ Step(p) \/ Kill(p)
        PROVE  \A q \in Procs : Resting(q)'
    <2>1. ASSUME NEW q \in Procs, q # p
          PROVE  Resting(q)'
      BY <1>2, <2>1, OthersAlone, OthersStay DEF Locals, Resting, Active
    <2>2. Resting(p)'
      <3>1. ASSUME NEW code, NEW why, NEW c, Finish(p, code, why, c)
            PROVE  Resting(p)'
        BY <3>1 DEF Finish, Closed, Resting, TypeOK
      <3>2. CASE \/ HashRequired(p) \/ Exhausted(p) \/ Traceback(p) \/ Kill(p)
                 \/ PayloadTraceback(p)
                 \/ SignatureAccepts(p) \/ SignatureInvalid(p)
                 \/ HashAccepts(p) \/ PayloadAccepts(p) \/ UnverifiedAccepted(p)
        <4>1. \E code, why, c : Finish(p, code, why, c)
          BY <3>2 DEF HashRequired, Exhausted, Traceback, PayloadTraceback, Kill,
             SignatureAccepts, SignatureInvalid, HashAccepts, PayloadAccepts,
             UnverifiedAccepted
        <4> QED
          BY <3>1, <4>1
      <3>3. ASSUME ~(\/ HashRequired(p) \/ Exhausted(p) \/ Traceback(p) \/ Kill(p)
                     \/ PayloadTraceback(p)
                     \/ SignatureAccepts(p) \/ SignatureInvalid(p)
                     \/ HashAccepts(p) \/ PayloadAccepts(p) \/ UnverifiedAccepted(p))
            PROVE  Active(p)'
        BY <1>2, <3>3 DEF Start, Step, Proceed, Cached, Unavailable, CopyLocal, CopyDone,
           OpenPart, GetOk, GetFail, WriteChunk, BodyEnds, BodyError, Rename, RenameFails,
           ObtainSignature, SignatureThenHash, SignatureRequired, SignatureAbsent,
           HashDiffers, PayloadDiffers, UnverifiedRefused, Discard, Continue, Goes,
           TypeOK, Active
      <3> QED
        BY <3>2, <3>3 DEF Resting
    <2> QED
      BY <2>1, <2>2
  <1> QED
    BY <1>1, <1>2 DEF Next

LEMMA SettledStep ==
    ASSUME TypeOK, TypeOK', Honest, NEW o \in Option, Options = {o}, o.hash # None,
           SettledInv(o), [Next]_vars
    PROVE  SettledInv(o)'
  <1>1. SignatureThere' /\ \A q \in Procs : Resting(q)'
    BY SignatureStep, RestingStep DEF SettledInv
  <1>2. CASE UNCHANGED vars
    <2>1. ASSUME NEW p \in Procs, Settled(p)'
          PROVE  (Reading = seen[p] /\ Kept(o))'
      <3>1. Reading = seen[p] /\ Kept(o)
        BY <1>2, <2>1 DEF vars, Settled, SettledInv
      <3> QED
        BY <1>2, <3>1 DEF vars, Kept, Fits, AtFirst, Active, Reading, ContainerMatches,
           PayloadMatches
    <2> QED
      BY <1>1, <2>1 DEF SettledInv
  <1>3. ASSUME NEW q \in Procs, Start(q) \/ Step(q) \/ Kill(q)
        PROVE  SettledInv(o)'
    <2>1. ASSUME NEW r \in Procs, r # q
          PROVE  Locals(r)' = Locals(r) /\ idx'[r] = idx[r] /\ xfer'[r] = xfer[r]
      BY <1>3, <2>1, OthersAlone, OthersStay
    <2>2. ASSUME NEW p \in Procs, Settled(p)', ~Over(p)
          PROVE  (Reading = seen[p] /\ Kept(o))'
      <3>1. p # q
        <4>1. ~Start(q) => Active(q)
          BY <1>3 DEF Step, Kill, Active, At, AtSource, HashRequired, Proceed, Exhausted,
             Cached, Unavailable, CopyLocal, CopyDone, OpenPart, GetOk, GetFail,
             WriteChunk, BodyEnds, BodyError, Traceback, PayloadTraceback, Rename,
             RenameFails, ObtainSignature, SignatureAccepts, SignatureThenHash,
             SignatureInvalid, SignatureRequired, SignatureAbsent, HashAccepts,
             HashDiffers, PayloadAccepts, PayloadDiffers, UnverifiedAccepted,
             UnverifiedRefused, Discard
        <4>2. Start(q) => pc'[q] # "done"
          BY DEF Start, Goes, TypeOK
        <4> QED
          BY <2>2, <4>1, <4>2 DEF Over, Settled
      <3>2. Settled(p) /\ seen'[p] = seen[p]
        BY <1>3, <2>1, <2>2, <3>1 DEF Settled, Locals
      <3>3. Reading = seen[p] /\ Kept(o)
        BY <3>2 DEF SettledInv
      <3>4. /\ archive' = archive /\ Reading' = Reading
            /\ Active(q)' => AtFirst(o, q)'
        BY <1>3, <3>3, FirstStays DEF SettledInv
      <3>5. Fits(o)' <=> Fits(o)
        BY <3>4 DEF Fits, ContainerMatches, PayloadMatches
      <3>6. PayloadMatches(o, Reading)' <=> PayloadMatches(o, Reading)
        BY <3>4 DEF PayloadMatches
      <3>7. sigFile # None => sigFile' # None
        BY <1>3, SignatureStays
      <3>8. ASSUME NEW r \in Procs, r # q, Active(r)'
            PROVE  AtFirst(o, r)'
        <4>1. Active(r) /\ pc'[r] = pc[r]
          BY <2>1, <3>8 DEF Locals, Active
        <4>2. AtFirst(o, r)
          BY <3>3, <4>1 DEF Kept
        <4> QED
          BY <2>1, <3>5, <3>6, <3>8, <4>1, <4>2 DEF AtFirst
      <3>9. \A r \in Procs : Active(r)' => AtFirst(o, r)'
        BY <3>4, <3>8
      <3> QED
        BY <3>2, <3>3, <3>4, <3>5, <3>7, <3>9 DEF Kept
    <2>3. ASSUME NEW p \in Procs, Settled(p)', Over(p)
          PROVE  (Reading = seen[p] /\ Kept(o))'
      <3>1. p = q
        BY <2>1, <2>3 DEF Over, Locals, Active
      <3>2. Step(p) \/ Kill(p)
        BY <1>3, <2>3, <3>1 DEF Over, Start
      <3>3. Others(p) = {}
        BY <2>3, <3>2, EndSettles DEF SettledInv, Settled, Over
      <3>4. /\ archive' = archive /\ archive # None
            /\ Reading' = Reading /\ seen'[p] = Reading
            /\ Fits(o) \/ (~o.needHash /\ sigFile # None)
            /\ o.needSig => sigFile # None
            /\ sigFile' = sigFile
        BY <2>3, <3>2, EndSettles DEF SettledInv, Settled, Over
      <3>5. Fits(o)' <=> Fits(o)
        BY <3>4 DEF Fits, ContainerMatches, PayloadMatches
      <3>6. ASSUME NEW r \in Procs, Active(r)'
            PROVE  FALSE
        <4>1. r # p
          BY <3>6, <2>3 DEF Over, Active
        <4>2. Active(r)
          BY <2>1, <3>1, <3>6, <4>1 DEF Locals, Active
        <4> QED
          BY <3>3, <4>1, <4>2 DEF Others
      <3> QED
        BY <3>4, <3>5, <3>6 DEF Kept
    <2> QED
      BY <1>1, <2>2, <2>3 DEF SettledInv
  <1> QED
    BY <1>2, <1>3 DEF Next

\* Any number of runs of one recipe that has a hash, overlapping, killed and
\* repeated at will, whatever signatures it asks for: a file that was validated
\* by a run alone stays in place, as it was validated, for as long as that run is
\* not repeated.
THEOREM LaterRunsSpareIt ==
    ASSUME NEW o \in Option, Options = {o}, o.hash # None
    PROVE  Spec => []OnlyBesideSpoils
  <1>1. Init => TypeOK /\ Honest /\ SettledInv(o)
    <2>1. Init => TypeOK
      BY InitType
    <2>2. Init => Honest
      BY DEF Init, Honest, Validated, Undecided, Active
    <2>3. Init => SettledInv(o)
      BY DEF Init, SettledInv, SignatureThere, Resting, Settled, Active
    <2> QED
      BY <2>1, <2>2, <2>3
  <1>2. TypeOK /\ Honest /\ SettledInv(o) /\ [Next]_vars
            => (TypeOK /\ Honest /\ SettledInv(o))'
    <2> SUFFICES ASSUME TypeOK, Honest, SettledInv(o), [Next]_vars
                 PROVE  (TypeOK /\ Honest /\ SettledInv(o))'
      OBVIOUS
    <2>1. TypeOK' /\ Honest'
      BY StepType, StepHonest
    <2> QED
      BY <2>1, SettledStep
  <1>3. SettledInv(o) => OnlyBesideSpoils
    BY DEF SettledInv, Settled, OnlyBesideSpoils
  <1> QED
    BY <1>1, <1>2, <1>3, PTL DEF Spec
=============================================================================
