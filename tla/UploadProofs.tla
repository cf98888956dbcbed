---------------------------- MODULE UploadProofs ----------------------------
(***************************************************************************)
(* Proofs about module Upload, for any files, cut into any number of       *)
(* parts, sent as often and in any order, with failures of the storage and *)
(* restarts.                                                               *)
(*                                                                         *)
(* Parts are counted by size only, so what is complete by its size may     *)
(* lack a part.  The objects are whole files all the same: the list that   *)
(* is handed to S3 has as many entries as the file has parts (Counted),    *)
(* S3 takes it only if the numbers ascend, and the chunks of a multipart   *)
(* upload are of one file (Owned).  As the size of an upload only grows,   *)
(* one handler at most gets past its completion (OneFinisher), and what    *)
(* that handler has done stays done (RequestSound).                        *)
(***************************************************************************)
EXTENDS UploadProperties, FiniteSetTheorems, TLAPS

\* The request has a multipart upload that it will use.
HasUpload(r) ==
    r.op = "addFilePart" /\ r.at \in {"setId", "push", "store", "complete", "finish"}

\* The part is listed but its size is not counted yet.
Uncounted(r) == r.op = "addFilePart" /\ r.at \in {"store", "complete"}

\* The handler has found the upload complete.
Finisher(r) ==
    r.op = "analyzeUpload" \/ (r.op = "addFilePart" /\ r.at \in {"finish", "mark"})

UncountedOf(S, f) == {r \in S : r.file = f /\ Uncounted(r)}

\* The multipart upload is in the document of file f or in the hands of one of
\* its handlers.
Uses(f, id) ==
    \/ s3UploadId[f] # None /\ s3UploadId[f] = id
    \/ \E r \in requests : HasUpload(r) /\ r.file = f /\ r.s3 = id

ChunkOf(c, f) == c.number \in Part(f) /\ c.etag = <<f, c.number>>

\* The multipart upload is one of file f and of no other.
Belongs(id, f) ==
    /\ multipart[id].path = NameOf[f]
    /\ \A c \in multipart[id].chunks : ChunkOf(c, f)
    /\ \A g \in File : Uses(g, id) => g = f

Owned == \A id \in 1..Len(multipart) : \E f \in File : Belongs(id, f)

Counted ==
    /\ IsFiniteSet(requests)
    /\ \A f \in File : uploadedSize[f] + Cardinality(UncountedOf(requests, f)) <= Len(parts[f])

RequestSound(r) ==
    /\ r.op # "addFile" => r.part \in Part(r.file)
    /\ HasUpload(r) => r.s3 \in 1..Len(multipart)
    /\ r.op = "addFilePart" /\ r.at = "finish" => Len(r.list) >= NumParts[r.file]
    /\ Finisher(r) => uploadedSize[r.file] >= NumParts[r.file]
    /\ Finisher(r) => metadata[r.file] = None
    /\ Finisher(r) /\ r.at # "finish" => object[NameOf[r.file]] # None
    /\ r.op = "analyzeUpload" => finished[r.file]
    /\ r.op = "analyzeUpload" /\ r.at = "describe" => r.metadata \in Allowed(r.file)

OneFinisher ==
    \A r, q \in requests : Finisher(r) /\ Finisher(q) /\ r.file = q.file => r = q

EntriesSound ==
    \A f \in File :
        /\ finished[f] => object[NameOf[f]] # None
        /\ metadata[f] # None => uploadedSize[f] >= NumParts[f]

\* The inductive invariant.
UploadInv ==
    /\ UploadTypeOK
    /\ Owned
    /\ Counted
    /\ \A r \in requests : RequestSound(r)
    /\ OneFinisher
    /\ EntriesSound
    /\ ObjectsAreWholeFiles

\* s[1], ..., s[m] ascend from 1 to n at most.
Ascends(s, m, n) ==
    /\ \A i \in 1..m : s[i] \in 1..n
    /\ \A i \in 1..m : \A j \in 1..(i - 1) : s[j] < s[i]

\* At least n numbers that ascend from 1 to n at most are 1, 2, ..., n.
LEMMA AscendingNumbers ==
    ASSUME NEW n \in Nat, NEW m \in Nat, NEW s, m >= n, Ascends(s, m, n)
    PROVE  m = n /\ \A i \in 1..m : s[i] = i
<1> USE DEF Ascends
<1>1. ASSUME NEW i \in 1..m PROVE i <= s[i] /\ s[i] <= i + (n - m)
  <2> DEFINE low == [j \in 1..i |-> s[j]]
  <2> DEFINE high == [j \in i..m |-> s[j]]
  <2>1. low \in Injection(1..i, 1..s[i])
    <3>1. low \in [1..i -> 1..s[i]]
      OBVIOUS
    <3>2. \A a, b \in 1..i : low[a] = low[b] => a = b
      <4>1. \A a, b \in 1..i : a < b => s[a] < s[b]
        OBVIOUS
      <4>2. \A a \in 1..i : low[a] = s[a] /\ s[a] \in Nat
        OBVIOUS
      <4> HIDE DEF low
      <4>3. QED BY <4>1, <4>2
    <3> HIDE DEF low
    <3>3. QED BY <3>1, <3>2 DEF Injection, IsInjective
  <2>2. high \in Injection(i..m, s[i]..n)
    <3>1. high \in [i..m -> s[i]..n]
      OBVIOUS
    <3>2. \A a, b \in i..m : high[a] = high[b] => a = b
      <4>1. \A a, b \in i..m : a < b => s[a] < s[b]
        OBVIOUS
      <4>2. \A a \in i..m : high[a] = s[a] /\ s[a] \in Nat
        OBVIOUS
      <4> HIDE DEF high
      <4>3. QED BY <4>1, <4>2
    <3> HIDE DEF high
    <3>3. QED BY <3>1, <3>2 DEF Injection, IsInjective
  <2> HIDE DEF low, high
  <2>3. Cardinality(1..i) <= Cardinality(1..s[i])
    BY <2>1, FS_Injection, FS_Interval
  <2>4. Cardinality(i..m) <= Cardinality(s[i]..n)
    BY <2>2, FS_Injection, FS_Interval
  <2>5. Cardinality(1..i) = i /\ Cardinality(1..s[i]) = s[i]
    BY FS_Interval
  <2>6. Cardinality(i..m) = m - i + 1 /\ Cardinality(s[i]..n) = n - s[i] + 1
    BY FS_Interval
  <2>7. QED BY <2>3, <2>4, <2>5, <2>6
<1>2. m = n
  <2>1. CASE m = 0 BY <2>1
  <2>2. CASE m # 0
    <3>1. 1 \in 1..m BY <2>2
    <3>2. QED BY <3>1, <1>1
  <2>3. QED BY <2>1, <2>2
<1>3. QED BY <1>1, <1>2

\* A part of a file and what is known of it.
LEMMA PartFacts ==
    ASSUME NEW f \in File, NEW k \in Part(f)
    PROVE  /\ k \in Number /\ k \in Nat
           /\ <<f, k>> \in Chunk
           /\ Chunks(f)[k] = <<f, k>>
<1>1. k \in Number
  BY DEF Number
<1>2. k \in Nat /\ Chunks(f)[k] = <<f, k>>
  BY UploadAssumption DEF Part, Chunks
<1>3. QED BY <1>1, <1>2 DEF Chunk

\* A set that may lose r and may gain q.
LEMMA CardinalityMoves ==
    ASSUME NEW A, IsFiniteSet(A), NEW r, NEW q, NEW B, B \subseteq (A \ {r}) \cup {q}
    PROVE  /\ IsFiniteSet(B)
           /\ Cardinality(A) \in Nat /\ Cardinality(B) \in Nat
           /\ Cardinality(B) <= Cardinality(A) + 1
           /\ (q \in B => r \in A) => Cardinality(B) <= Cardinality(A)
           /\ r \in A /\ q \notin B => Cardinality(B) + 1 <= Cardinality(A)
<1>1. /\ IsFiniteSet(A \ {r})
      /\ Cardinality(A \ {r}) = IF r \in A THEN Cardinality(A) - 1 ELSE Cardinality(A)
  BY FS_RemoveElement
<1>2. /\ IsFiniteSet((A \ {r}) \cup {q})
      /\ Cardinality((A \ {r}) \cup {q}) =
           IF q \in A \ {r} THEN Cardinality(A \ {r}) ELSE Cardinality(A \ {r}) + 1
  BY <1>1, FS_AddElement
<1>3. IsFiniteSet(B) /\ Cardinality(B) <= Cardinality((A \ {r}) \cup {q})
  BY <1>2, FS_Subset
<1>4. /\ Cardinality(A) \in Nat /\ Cardinality(B) \in Nat /\ Cardinality(A \ {r}) \in Nat
      /\ Cardinality((A \ {r}) \cup {q}) \in Nat
  BY <1>1, <1>2, <1>3, FS_CardinalityType
<1>5. q \notin B => Cardinality(B) <= Cardinality(A \ {r})
  <2>1. q \notin B => B \subseteq A \ {r}
    OBVIOUS
  <2>2. QED BY <1>1, <2>1, FS_Subset
<1>6. Cardinality(B) <= Cardinality(A) + 1
  BY <1>1, <1>2, <1>3, <1>4
<1>7. ASSUME q \in B => r \in A PROVE Cardinality(B) <= Cardinality(A)
  <2>1. CASE q \in B
    BY <1>1, <1>2, <1>3, <1>4, <1>7, <2>1
  <2>2. CASE q \notin B
    BY <1>1, <1>4, <1>5, <2>2
  <2>3. QED BY <2>1, <2>2
<1>8. r \in A /\ q \notin B => Cardinality(B) + 1 <= Cardinality(A)
  BY <1>1, <1>4, <1>5
<1>9. QED BY <1>3, <1>4, <1>6, <1>7, <1>8

\* The requests whose part is not counted, when r becomes q or ends.
LEMMA UncountedMoves ==
    ASSUME NEW S, IsFiniteSet(S), NEW r \in S, NEW q, NEW f,
           NEW T, T \subseteq (S \ {r}) \cup {q}
    PROVE  /\ IsFiniteSet(T)
           /\ Cardinality(UncountedOf(S, f)) \in Nat
           /\ Cardinality(UncountedOf(T, f)) \in Nat
           /\ Cardinality(UncountedOf(T, f)) <= Cardinality(UncountedOf(S, f)) + 1
           /\ (q.file = f /\ Uncounted(q) => r.file = f /\ Uncounted(r))
                 => Cardinality(UncountedOf(T, f)) <= Cardinality(UncountedOf(S, f))
           /\ r.file = f /\ Uncounted(r) /\ ~Uncounted(q)
                 => Cardinality(UncountedOf(T, f)) + 1 <= Cardinality(UncountedOf(S, f))
<1>1. IsFiniteSet(T)
  BY CardinalityMoves
<1>2. IsFiniteSet(UncountedOf(S, f))
  BY FS_Subset DEF UncountedOf
<1>3. UncountedOf(T, f) \subseteq (UncountedOf(S, f) \ {r}) \cup {q}
  BY DEF UncountedOf
<1>4. /\ r \in UncountedOf(S, f) <=> r.file = f /\ Uncounted(r)
      /\ q \in UncountedOf(T, f) => q.file = f /\ Uncounted(q)
  BY DEF UncountedOf
<1>5. QED BY <1>1, <1>2, <1>3, <1>4, CardinalityMoves

-----------------------------------------------------------------------------

\* What no step takes back.
Grows ==
    /\ Len(multipart) <= Len(multipart')
    /\ \A f \in File : uploadedSize[f] <= uploadedSize'[f]
    /\ \A f \in File : object[NameOf[f]] # None => object'[NameOf[f]] # None
    /\ \A f \in File : finished[f] => finished'[f]

\* A request that takes no part in a step stays sound.
LEMMA RequestStaysSound ==
    ASSUME UploadTypeOK, UploadTypeOK', Grows, NEW r \in requests, RequestSound(r),
           Finisher(r) => metadata'[r.file] = metadata[r.file]
    PROVE  RequestSound(r)'
<1>1. r.file \in File
  BY DEF UploadTypeOK, RequestType
<1>2. NumParts[r.file] \in Nat
  BY <1>1, UploadAssumption
<1>3. uploadedSize[r.file] \in Nat /\ uploadedSize'[r.file] \in Nat
  BY <1>1 DEF UploadTypeOK
<1>4. Len(multipart) \in Nat /\ Len(multipart') \in Nat
  BY DEF UploadTypeOK
<1>5. HasUpload(r) => r.s3 \in 1..Len(multipart')
  BY <1>4 DEF RequestSound, Grows
<1>6. Finisher(r) => uploadedSize'[r.file] >= NumParts[r.file]
  BY <1>1, <1>2, <1>3 DEF RequestSound, Grows
<1>7. QED BY <1>1, <1>5, <1>6 DEF RequestSound, Grows, HasUpload, Finisher

\* A multipart upload keeps its file when it gets chunks of it only and no other
\* file begins to use it.
LEMMA OwnedStays ==
    ASSUME Owned, Len(multipart') = Len(multipart),
           \A id \in 1..Len(multipart) : multipart'[id].path = multipart[id].path,
           \A id \in 1..Len(multipart) : \A c \in multipart'[id].chunks :
               c \in multipart[id].chunks \/ \E f \in File : Uses(f, id) /\ ChunkOf(c, f),
           \A id \in 1..Len(multipart) : \A f \in File : Uses(f, id)' => Uses(f, id)
    PROVE  Owned'
<1>1. SUFFICES ASSUME NEW id \in 1..Len(multipart), NEW f \in File, Belongs(id, f)
               PROVE  Belongs(id, f)'
  BY DEF Owned
<1>2. (multipart[id].path = NameOf[f])'
  BY <1>1 DEF Belongs
<1>3. (\A c \in multipart[id].chunks : ChunkOf(c, f))'
  BY <1>1 DEF Belongs, ChunkOf
<1>4. (\A g \in File : Uses(g, id) => g = f)'
  BY <1>1 DEF Belongs
<1>5. QED BY <1>2, <1>3, <1>4 DEF Belongs

\* Where no other request becomes a finisher there is still one at most.
LEMMA OneFinisherStays ==
    ASSUME OneFinisher, NEW r \in requests, NEW q,
           requests' \subseteq (requests \ {r}) \cup {q},
           q.file = r.file, Finisher(q) => Finisher(r)
    PROVE  OneFinisher'
BY DEF OneFinisher, Finisher

\* The upload a request has is used by its file.
LEMMA RequestUses ==
    ASSUME NEW r \in requests, HasUpload(r)
    PROVE  Uses(r.file, r.s3)
BY DEF Uses

\* The sizes stay counted when no part is counted and none needs to be.
LEMMA CountedStays ==
    ASSUME Counted, UploadTypeOK, UploadTypeOK', NEW r \in requests, NEW q,
           requests' \subseteq (requests \ {r}) \cup {q},
           uploadedSize' = uploadedSize,
           \A f \in File : Len(parts'[f]) = Len(parts[f]),
           q.file = r.file, Uncounted(q) => Uncounted(r)
    PROVE  Counted'
<1>1. IsFiniteSet(requests')
  BY UncountedMoves DEF Counted
<1>2. ASSUME NEW f \in File
      PROVE  uploadedSize[f] + Cardinality(UncountedOf(requests', f)) <= Len(parts[f])
  <2>1. /\ Cardinality(UncountedOf(requests, f)) \in Nat
        /\ Cardinality(UncountedOf(requests', f)) \in Nat
        /\ Cardinality(UncountedOf(requests', f)) <= Cardinality(UncountedOf(requests, f))
    BY UncountedMoves DEF Counted
  <2>2. uploadedSize[f] \in Nat /\ Len(parts[f]) \in Nat
    BY DEF UploadTypeOK
  <2>3. uploadedSize[f] + Cardinality(UncountedOf(requests, f)) <= Len(parts[f])
    BY DEF Counted
  <2>4. QED BY <2>1, <2>2, <2>3
<1>3. QED BY <1>1, <1>2 DEF Counted, UncountedOf

\* A handler that goes on without a change to what the invariant is about.
LEMMA HandlerMoves ==
    ASSUME UploadInv, UploadTypeOK', NEW r \in requests, NEW q,
           requests' \subseteq (requests \ {r}) \cup {q},
           UNCHANGED <<storageVars, finished, metadata, uploadVars>>,
           q.file = r.file, RequestSound(q),
           HasUpload(q) => Uses(q.file, q.s3),
           Uncounted(q) => Uncounted(r),
           Finisher(q) => Finisher(r)
    PROVE  UploadInv'
<1> USE DEF storageVars, uploadVars
<1>1. Owned'
  <2>1. \A id \in 1..Len(multipart) : \A f \in File : Uses(f, id)' => Uses(f, id)
    BY DEF Uses, HasUpload
  <2>2. QED BY <2>1, OwnedStays DEF UploadInv
<1>2. Counted'
  BY CountedStays DEF UploadInv
<1>3. (\A p \in requests : RequestSound(p))'
  <2>1. ASSUME NEW p, RequestSound(p) PROVE RequestSound(p)'
    BY <2>1 DEF RequestSound
  <2>2. QED BY <2>1 DEF UploadInv
<1>4. OneFinisher'
  BY OneFinisherStays DEF UploadInv
<1>5. EntriesSound' /\ ObjectsAreWholeFiles'
  BY DEF UploadInv, EntriesSound, ObjectsAreWholeFiles
<1>6. QED BY <1>1, <1>2, <1>3, <1>4, <1>5 DEF UploadInv

\* A handler that ends.
LEMMA HandlerEnds ==
    ASSUME UploadInv, UploadTypeOK', NEW r \in requests, Ends(r),
           UNCHANGED <<storageVars, finished, metadata, uploadVars>>
    PROVE  UploadInv'
<1>1. requests' \subseteq (requests \ {r}) \cup {r}
  BY DEF Ends
<1>2. RequestSound(r)
  BY DEF UploadInv
<1>3. HasUpload(r) => Uses(r.file, r.s3)
  BY RequestUses
<1>4. QED BY <1>1, <1>2, <1>3, HandlerMoves

-----------------------------------------------------------------------------

\* At first there is nothing that could be wrong.
LEMMA InitSound == Init => UploadInv
<1> SUFFICES ASSUME Init PROVE UploadInv
  OBVIOUS
<1> USE DEF Init, StorageInit
<1>1. UploadTypeOK
  <2>1. multipart \in Seq([path : Path, chunks : SUBSET [number : Number, etag : Chunk], open : BOOLEAN])
    OBVIOUS
  <2>2. parts \in [File -> Seq(PartType)]
    OBVIOUS
  <2>3. object \in [Path -> Seq(Chunk) \cup {None}]
    OBVIOUS
  <2>4. DOMAIN sent = File /\ \A f \in File : sent[f] \in [Part(f) -> Nat]
    OBVIOUS
  <2>5. QED BY <2>1, <2>2, <2>3, <2>4 DEF UploadTypeOK
<1>2. Owned /\ OneFinisher /\ EntriesSound /\ ObjectsAreWholeFiles
  BY UploadAssumption DEF Owned, OneFinisher, EntriesSound, ObjectsAreWholeFiles
<1>3. Counted
  <2>1. \A f \in File : UncountedOf(requests, f) = {}
    BY DEF UncountedOf
  <2>2. \A f \in File : uploadedSize[f] = 0 /\ Len(parts[f]) = 0
    OBVIOUS
  <2>3. \A f \in File : Cardinality(UncountedOf(requests, f)) = 0
    BY <2>1, FS_EmptySet
  <2>4. IsFiniteSet(requests)
    BY FS_EmptySet
  <2>5. QED BY <2>2, <2>3, <2>4 DEF Counted
<1>4. QED BY <1>1, <1>2, <1>3 DEF UploadInv

\* A request that arrives.
LEMMA RequestArrives ==
    ASSUME UploadInv, UploadTypeOK', NEW op \in {"addFile", "addFilePart"}, NEW f \in File, NEW k, NEW try,
           op = "addFilePart" => k \in Part(f),
           requests' = requests \cup {Request(op, f, k, try)},
           UNCHANGED <<storageVars, finished, metadata, uploadVars>>
    PROVE  UploadInv'
<1> DEFINE q == Request(op, f, k, try)
<1> USE DEF storageVars, uploadVars
<1>1. q.op = op /\ q.at = "find" /\ q.file = f /\ q.part = k
  BY DEF Request
<1>2. ~HasUpload(q) /\ ~Uncounted(q) /\ ~Finisher(q)
  BY <1>1 DEF HasUpload, Uncounted, Finisher
<1> HIDE DEF q
<1>3. Owned'
  <2>1. \A id \in 1..Len(multipart) : \A g \in File : Uses(g, id)' => Uses(g, id)
    BY <1>2 DEF Uses, HasUpload, q
  <2>2. QED BY <2>1, OwnedStays DEF UploadInv
<1>4. Counted'
  <2>1. IsFiniteSet(requests')
    BY FS_AddElement DEF UploadInv, Counted
  <2>2. \A g \in File : UncountedOf(requests', g) = UncountedOf(requests, g)
    BY <1>2 DEF UncountedOf, q
  <2>3. QED BY <2>1, <2>2 DEF UploadInv, Counted, UncountedOf
<1>5. (\A p \in requests : RequestSound(p))'
  <2>1. RequestSound(q)
    BY <1>1, <1>2 DEF RequestSound
  <2>2. ASSUME NEW p, RequestSound(p) PROVE RequestSound(p)'
    BY <2>2 DEF RequestSound
  <2>3. QED BY <2>1, <2>2 DEF UploadInv, q
<1>6. OneFinisher' /\ EntriesSound' /\ ObjectsAreWholeFiles'
  BY <1>2 DEF UploadInv, OneFinisher, EntriesSound, ObjectsAreWholeFiles, Finisher, q
<1>7. QED BY <1>3, <1>4, <1>5, <1>6 DEF UploadInv

\* A file is to be added.
LEMMA SendAddFileSound ==
    ASSUME UploadInv, NEW f \in File, SendAddFile(f)
    PROVE  UploadInv'
<1> USE DEF SendAddFile
<1>1. Request("addFile", f, None, 1) \in RequestType
  BY DEF Request, RequestType
<1>2. UploadTypeOK'
  BY <1>1 DEF UploadInv, UploadTypeOK, storageVars, uploadVars, clientVars
<1>3. QED BY <1>2, RequestArrives

\* A part is sent.
LEMMA SendPartSound ==
    ASSUME UploadInv, NEW f \in File, NEW k \in Part(f), SendPart(f, k)
    PROVE  UploadInv'
<1> USE DEF SendPart
<1>1. k \in Number
  BY PartFacts
<1>2. sent[f][k] + 1 \in Nat
  BY DEF UploadInv, UploadTypeOK
<1>3. Request("addFilePart", f, k, sent[f][k] + 1) \in RequestType
  BY <1>1, <1>2 DEF Request, RequestType
<1>4. DOMAIN sent' = File /\ \A g \in File : sent'[g] \in [Part(g) -> Nat]
  BY <1>2 DEF UploadInv, UploadTypeOK
<1>5. UploadTypeOK'
  BY <1>3, <1>4 DEF UploadInv, UploadTypeOK, storageVars, uploadVars, entryVars
<1>6. QED BY <1>5, RequestArrives DEF entryVars

\* addFile has read the workspace.
LEMMA FindWorkspaceSound ==
    ASSUME UploadInv, NEW r \in requests, FindWorkspace(r)
    PROVE  UploadInv'
<1> USE DEF FindWorkspace
<1>1. CASE Ends(r)
  <2>1. UploadTypeOK'
    BY <1>1 DEF Ends, UploadInv, UploadTypeOK, RequestType, storageVars, uploadVars, clientVars
  <2>2. QED BY <1>1, <2>1, HandlerEnds
<1>2. CASE Becomes(r, [r EXCEPT !.at = "push"])
  <2> DEFINE q == [r EXCEPT !.at = "push"]
  <2>1. q \in RequestType /\ q.file = r.file /\ q.op = "addFile"
    BY DEF UploadInv, UploadTypeOK, RequestType
  <2>2. UploadTypeOK'
    BY <1>2, <2>1 DEF Becomes, UploadInv, UploadTypeOK, storageVars, uploadVars, clientVars
  <2>3. ~HasUpload(q) /\ ~Uncounted(q) /\ ~Finisher(q)
    BY <2>1 DEF HasUpload, Uncounted, Finisher
  <2>4. RequestSound(q)
    BY <2>1, <2>3 DEF RequestSound
  <2> HIDE DEF q
  <2>5. QED BY <1>2, <2>1, <2>2, <2>3, <2>4, HandlerMoves DEF Becomes, q
<1>3. QED BY <1>1, <1>2

\* addFile has pushed the entry.
LEMMA PushFileSound ==
    ASSUME UploadInv, NEW r \in requests, PushFile(r)
    PROVE  UploadInv'
<1> USE DEF PushFile
<1>1. UploadTypeOK'
  BY DEF Ends, UploadInv, UploadTypeOK, RequestType, storageVars, uploadVars, clientVars
<1>2. QED BY <1>1, HandlerEnds

\* A multipart upload is started for the file of the request.
LEMMA UploadStarts ==
    ASSUME UploadInv, UploadTypeOK', NEW r \in requests, NEW q,
           startMultiPartUpload(NameOf[r.file]),
           Becomes(r, q),
           UNCHANGED <<object, entryVars, uploadVars>>,
           q.op = "addFilePart", q.at = "setId", q.s3 = Len(multipart) + 1,
           q.file = r.file, q.part = r.part, r.op = "addFilePart"
    PROVE  UploadInv'
<1> USE DEF uploadVars, entryVars
<1> DEFINE new == Len(multipart) + 1
<1>1. r.file \in File /\ r.part \in Part(r.file)
  BY DEF UploadInv, UploadTypeOK, RequestType, RequestSound
<1>2. /\ Len(multipart) \in Nat /\ Len(multipart') = new
      /\ \A id \in 1..Len(multipart) : multipart'[id] = multipart[id]
      /\ multipart'[new].path = NameOf[r.file] /\ multipart'[new].chunks = {}
  BY DEF UploadInv, UploadTypeOK, startMultiPartUpload
<1>3. \A g \in File : \A id : Uses(g, id)' => Uses(g, id) \/ (id = new /\ g = r.file)
  BY DEF Uses, Becomes, HasUpload
<1>4. \A g \in File : \A id : Uses(g, id) => id \in 1..Len(multipart)
  BY DEF Uses, UploadInv, UploadTypeOK, RequestSound
<1>5. Owned'
  <2>1. SUFFICES ASSUME NEW id \in 1..new PROVE (\E f \in File : Belongs(id, f))'
    BY <1>2 DEF Owned
  <2>2. CASE id \in 1..Len(multipart)
    <3>1. PICK f \in File : Belongs(id, f)
      BY <2>2 DEF UploadInv, Owned
    <3>2. (multipart[id].path = NameOf[f])' /\ (\A c \in multipart[id].chunks : ChunkOf(c, f))'
      BY <1>2, <2>2, <3>1 DEF Belongs, ChunkOf
    <3>3. id # new
      BY <1>2, <2>2
    <3>4. (\A g \in File : Uses(g, id) => g = f)'
      BY <1>3, <3>1, <3>3 DEF Belongs
    <3>5. QED BY <3>2, <3>4 DEF Belongs
  <2>3. CASE id = new
    <3>1. (multipart[id].path = NameOf[r.file])' /\ (\A c \in multipart[id].chunks : ChunkOf(c, r.file))'
      BY <1>2, <2>3
    <3>2. new \notin 1..Len(multipart)
      BY <1>2
    <3>3. (\A g \in File : Uses(g, id) => g = r.file)'
      BY <1>3, <1>4, <2>3, <3>2
    <3>4. Belongs(id, r.file)'
      BY <3>1, <3>3 DEF Belongs
    <3>5. QED BY <3>4, <1>1
  <2>4. QED BY <1>2, <2>2, <2>3
<1>6. Counted'
  <2>1. ~Uncounted(q)
    BY DEF Uncounted
  <2>2. QED BY <2>1, CountedStays DEF UploadInv, Becomes
<1>7. (\A p \in requests : RequestSound(p))'
  <2>1. Grows
    BY <1>2 DEF Grows, UploadInv, UploadTypeOK
  <2>2. ASSUME NEW p \in requests PROVE RequestSound(p)'
    BY <2>1, RequestStaysSound DEF UploadInv
  <2>3. RequestSound(q)'
    BY <1>1, <1>2 DEF RequestSound, HasUpload, Finisher
  <2>4. QED BY <2>2, <2>3 DEF Becomes
<1>8. OneFinisher'
  <2>1. ~Finisher(q)
    BY DEF Finisher
  <2>2. QED BY <2>1, OneFinisherStays DEF UploadInv, Becomes
<1>9. EntriesSound' /\ ObjectsAreWholeFiles'
  BY DEF UploadInv, EntriesSound, ObjectsAreWholeFiles
<1>10. QED BY <1>5, <1>6, <1>7, <1>8, <1>9 DEF UploadInv

\* The request has read the upload: it starts a multipart upload or uses the one
\* it has found, which is of its file.
LEMMA FindUploadSound ==
    ASSUME UploadInv, NEW r \in requests, FindUpload(r)
    PROVE  UploadInv'
<1>0. /\ r.op = "addFilePart" /\ r.at = "find"
      /\ UNCHANGED <<object, entryVars, uploadVars, clientVars, disturbed>>
  BY DEF FindUpload
<1>1. r \in RequestType /\ r.file \in File /\ r.part \in Part(r.file)
  BY <1>0 DEF UploadInv, UploadTypeOK, RequestType, RequestSound
<1>2. Len(multipart) \in Nat
  BY DEF UploadInv, UploadTypeOK
<1>3. CASE /\ startMultiPartUpload(NameOf[r.file])
           /\ Becomes(r, [r EXCEPT !.at = "setId", !.s3 = Len(multipart) + 1])
  <2> DEFINE q == [r EXCEPT !.at = "setId", !.s3 = Len(multipart) + 1]
  <2>1. /\ q \in RequestType /\ q.file = r.file /\ q.op = "addFilePart" /\ q.at = "setId"
        /\ q.s3 = Len(multipart) + 1 /\ q.part = r.part
    <3>1. PICK id \in Nat : id = Len(multipart) + 1
      BY <1>2
    <3>2. q = [r EXCEPT !.at = "setId", !.s3 = id]
      BY <3>1
    <3> HIDE DEF q
    <3>3. QED BY <1>0, <1>1, <3>1, <3>2 DEF RequestType
  <2> HIDE DEF q
  <2>2. /\ multipart' \in Seq([path : Path, chunks : SUBSET [number : Number, etag : Chunk], open : BOOLEAN])
        /\ Len(multipart') = Len(multipart) + 1
    <3>1. [path |-> NameOf[r.file], chunks |-> {}, open |-> TRUE]
            \in [path : Path, chunks : SUBSET [number : Number, etag : Chunk], open : BOOLEAN]
      BY <1>1, UploadAssumption
    <3>2. QED BY <1>3, <3>1 DEF UploadInv, UploadTypeOK, startMultiPartUpload
  <2>3. s3UploadId' \in [File -> (1..Len(multipart')) \cup {None}]
    BY <1>0, <1>2, <2>2 DEF UploadInv, UploadTypeOK, uploadVars
  <2>4. UploadTypeOK'
    BY <1>0, <1>3, <2>1, <2>2, <2>3
       DEF Becomes, UploadInv, UploadTypeOK, entryVars, uploadVars, clientVars, q
  <2>5. QED BY <1>0, <1>3, <2>1, <2>4, UploadStarts DEF q
<1>4. CASE /\ s3UploadId[r.file] # None
           /\ Becomes(r, [r EXCEPT !.at = "push", !.s3 = s3UploadId[r.file]])
           /\ UNCHANGED multipart
  <2> DEFINE q == [r EXCEPT !.at = "push", !.s3 = s3UploadId[r.file]]
  <2>1. s3UploadId[r.file] \in 1..Len(multipart)
    BY <1>1, <1>4 DEF UploadInv, UploadTypeOK
  <2>2. /\ q \in RequestType /\ q.file = r.file /\ q.op = "addFilePart" /\ q.at = "push"
        /\ q.s3 = s3UploadId[r.file] /\ q.part = r.part
    <3>1. PICK id \in Nat : id = s3UploadId[r.file]
      BY <2>1
    <3>2. q = [r EXCEPT !.at = "push", !.s3 = id]
      BY <3>1
    <3> HIDE DEF q
    <3>3. QED BY <1>0, <1>1, <3>1, <3>2 DEF RequestType
  <2> HIDE DEF q
  <2>3. UploadTypeOK'
    BY <1>0, <1>4, <2>2 DEF Becomes, UploadInv, UploadTypeOK, entryVars, uploadVars, clientVars, q
  <2>4. ~Uncounted(q) /\ ~Finisher(q)
    BY <2>2 DEF Uncounted, Finisher
  <2>5. Uses(q.file, q.s3)
    BY <1>4, <2>2 DEF Uses
  <2>6. RequestSound(q)
    BY <1>1, <2>1, <2>2, <2>4 DEF RequestSound
  <2>7. QED BY <1>0, <1>4, <2>2, <2>3, <2>4, <2>5, <2>6, HandlerMoves DEF Becomes, entryVars, storageVars, q
<1>5. QED BY <1>3, <1>4 DEF FindUpload

\* The id that is stored is one the request uses already.
LEMMA CreateS3MultipartUploadSound ==
    ASSUME UploadInv, NEW r \in requests, CreateS3MultipartUpload(r)
    PROVE  UploadInv'
<1> DEFINE q == [r EXCEPT !.at = "push"]
<1> USE DEF CreateS3MultipartUpload, storageVars, entryVars
<1>1. /\ r \in RequestType /\ r.file \in File /\ RequestSound(r)
      /\ HasUpload(r) /\ r.s3 \in 1..Len(multipart)
  BY DEF UploadInv, UploadTypeOK, RequestType, RequestSound, HasUpload
<1>2. /\ q \in RequestType /\ q.file = r.file /\ q.op = "addFilePart" /\ q.at = "push"
      /\ q.s3 = r.s3 /\ q.part = r.part
  BY <1>1 DEF RequestType
<1>3. Becomes(r, q)
  OBVIOUS
<1> HIDE DEF q
<1>4. s3UploadId' \in [File -> (1..Len(multipart)) \cup {None}]
  BY <1>1 DEF UploadInv, UploadTypeOK
<1>5. UploadTypeOK'
  BY <1>2, <1>3, <1>4 DEF Becomes, UploadInv, UploadTypeOK, clientVars
<1>6. ~Uncounted(q) /\ ~Finisher(q)
  BY <1>2 DEF Uncounted, Finisher
<1>7. Owned'
  <2>1. Uses(r.file, r.s3)
    BY <1>1, RequestUses
  <2>2. \A g \in File : s3UploadId'[g] = s3UploadId[g] \/ (g = r.file /\ s3UploadId'[g] = r.s3)
    BY DEF UploadInv, UploadTypeOK
  <2>3. \A id \in 1..Len(multipart) : \A g \in File : Uses(g, id)' => Uses(g, id)
    BY <1>2, <1>3, <2>1, <2>2 DEF Uses, HasUpload, Becomes
  <2>4. QED BY <2>3, OwnedStays DEF UploadInv
<1>8. Counted'
  BY <1>2, <1>3, <1>5, <1>6, CountedStays DEF UploadInv, Becomes
<1>9. (\A p \in requests : RequestSound(p))'
  <2>1. ASSUME NEW p, RequestSound(p) PROVE RequestSound(p)'
    BY <2>1 DEF RequestSound
  <2>2. RequestSound(q)
    BY <1>1, <1>2, <1>6 DEF RequestSound
  <2>3. QED BY <1>3, <2>1, <2>2 DEF UploadInv, Becomes
<1>10. OneFinisher'
  BY <1>2, <1>3, <1>6, OneFinisherStays DEF UploadInv, Becomes
<1>11. EntriesSound' /\ ObjectsAreWholeFiles'
  BY DEF UploadInv, EntriesSound, ObjectsAreWholeFiles
<1>12. QED BY <1>5, <1>7, <1>8, <1>9, <1>10, <1>11 DEF UploadInv

\* One part more is listed and one more waits to be counted.
LEMMA AddPartToUploadSound ==
    ASSUME UploadInv, NEW r \in requests, AddPartToUpload(r)
    PROVE  UploadInv'
<1> DEFINE q == [r EXCEPT !.at = "store"]
<1> USE DEF AddPartToUpload, storageVars, entryVars
<1>1. /\ r \in RequestType /\ r.file \in File /\ r.part \in Part(r.file) /\ RequestSound(r)
      /\ HasUpload(r)
  BY DEF UploadInv, UploadTypeOK, RequestType, RequestSound, HasUpload
<1>2. /\ q \in RequestType /\ q.file = r.file /\ q.op = "addFilePart" /\ q.at = "store"
      /\ q.s3 = r.s3 /\ q.part = r.part
  BY <1>1 DEF RequestType
<1>3. Becomes(r, q)
  OBVIOUS
<1> HIDE DEF q
<1>4. /\ parts' \in [File -> Seq(PartType)]
      /\ \A f \in File : Len(parts'[f]) = IF f = r.file THEN Len(parts[f]) + 1 ELSE Len(parts[f])
  <2>1. NewPart(r.part) \in PartType
    BY <1>1, PartFacts DEF NewPart, PartType
  <2>2. parts \in [File -> Seq(PartType)]
    BY DEF UploadInv, UploadTypeOK
  <2>3. Append(parts[r.file], NewPart(r.part)) \in Seq(PartType)
    BY <1>1, <2>1, <2>2
  <2>4. Len(Append(parts[r.file], NewPart(r.part))) = Len(parts[r.file]) + 1
    BY <1>1, <2>2
  <2>5. QED BY <1>1, <2>2, <2>3, <2>4
<1>5. UploadTypeOK'
  BY <1>2, <1>3, <1>4 DEF Becomes, UploadInv, UploadTypeOK, clientVars
<1>6. ~Finisher(q)
  BY <1>2 DEF Finisher
<1>7. Owned'
  <2>1. Uses(r.file, r.s3)
    BY <1>1, RequestUses
  <2>2. \A id \in 1..Len(multipart) : \A g \in File : Uses(g, id)' => Uses(g, id)
    BY <1>2, <1>3, <2>1 DEF Uses, HasUpload, Becomes
  <2>3. QED BY <2>2, OwnedStays DEF UploadInv
<1>8. Counted'
  <2>1. IsFiniteSet(requests')
    BY <1>3, UncountedMoves DEF UploadInv, Counted, Becomes
  <2>2. ASSUME NEW f \in File
        PROVE  uploadedSize[f] + Cardinality(UncountedOf(requests', f)) <= Len(parts'[f])
    <3>1. /\ Cardinality(UncountedOf(requests, f)) \in Nat
          /\ Cardinality(UncountedOf(requests', f)) \in Nat
          /\ Cardinality(UncountedOf(requests', f)) <= Cardinality(UncountedOf(requests, f)) + 1
          /\ f # r.file
               => Cardinality(UncountedOf(requests', f)) <= Cardinality(UncountedOf(requests, f))
      BY <1>2, <1>3, UncountedMoves DEF UploadInv, Counted, Becomes
    <3>2. uploadedSize[f] \in Nat /\ Len(parts[f]) \in Nat
      BY DEF UploadInv, UploadTypeOK
    <3>3. uploadedSize[f] + Cardinality(UncountedOf(requests, f)) <= Len(parts[f])
      BY DEF UploadInv, Counted
    <3>4. QED BY <1>4, <3>1, <3>2, <3>3
  <2>3. QED BY <2>1, <2>2 DEF Counted, UncountedOf
<1>9. (\A p \in requests : RequestSound(p))'
  <2>1. ASSUME NEW p, RequestSound(p) PROVE RequestSound(p)'
    BY <2>1 DEF RequestSound
  <2>2. RequestSound(q)
    BY <1>1, <1>2, <1>6 DEF RequestSound
  <2>3. QED BY <1>3, <2>1, <2>2 DEF UploadInv, Becomes
<1>10. OneFinisher'
  BY <1>2, <1>3, <1>6, OneFinisherStays DEF UploadInv, Becomes
<1>11. EntriesSound' /\ ObjectsAreWholeFiles'
  BY DEF UploadInv, EntriesSound, ObjectsAreWholeFiles
<1>12. QED BY <1>5, <1>7, <1>8, <1>9, <1>10, <1>11 DEF UploadInv

\* A multipart upload gets a chunk of the file that uses it.
LEMMA StorePartSound ==
    ASSUME UploadInv, NEW r \in requests, StorePart(r)
    PROVE  UploadInv'
<1> DEFINE q == [r EXCEPT !.at = "complete"]
<1> DEFINE c == [number |-> r.part, etag |-> Chunks(r.file)[r.part]]
<1> DEFINE Multipart == [path : Path, chunks : SUBSET [number : Number, etag : Chunk], open : BOOLEAN]
<1> USE DEF StorePart, entryVars, uploadVars
<1>1. /\ r \in RequestType /\ r.file \in File /\ r.part \in Part(r.file) /\ RequestSound(r)
      /\ HasUpload(r) /\ Uncounted(r) /\ r.s3 \in 1..Len(multipart)
  BY DEF UploadInv, UploadTypeOK, RequestType, RequestSound, HasUpload, Uncounted
<1>2. /\ q \in RequestType /\ q.file = r.file /\ q.op = "addFilePart" /\ q.at = "complete"
      /\ q.s3 = r.s3 /\ q.part = r.part
  BY <1>1 DEF RequestType
<1>3. Becomes(r, q)
  OBVIOUS
<1> HIDE DEF q
<1>4. c \in [number : Number, etag : Chunk] /\ ChunkOf(c, r.file)
  BY <1>1, PartFacts DEF ChunkOf
<1>5. multipart' = [multipart EXCEPT ![r.s3].chunks = {d \in @ : d.number # r.part} \cup {c}]
  BY DEF uplaodPart
<1> HIDE DEF c
<1>6. /\ multipart' \in Seq(Multipart) /\ Len(multipart') = Len(multipart)
      /\ \A id \in 1..Len(multipart) :
           /\ multipart'[id].path = multipart[id].path
           /\ \A d \in multipart'[id].chunks : d \in multipart[id].chunks \/ (id = r.s3 /\ d = c)
  <2>1. multipart \in Seq(Multipart) /\ \A id \in 1..Len(multipart) : multipart[id] \in Multipart
    <3>1. multipart \in Seq(Multipart)
      BY DEF UploadInv, UploadTypeOK
    <3> HIDE DEF Multipart
    <3>2. QED BY <3>1
  <2> DEFINE new == [multipart[r.s3] EXCEPT !.chunks = {d \in @ : d.number # r.part} \cup {c}]
  <2>2. /\ new \in Multipart /\ new.path = multipart[r.s3].path
        /\ new.chunks = {d \in multipart[r.s3].chunks : d.number # r.part} \cup {c}
    <3>1. multipart[r.s3] \in Multipart
      BY <1>1, <2>1
    <3>2. PICK C : C = {d \in multipart[r.s3].chunks : d.number # r.part} \cup {c}
      OBVIOUS
    <3>3. C \in SUBSET [number : Number, etag : Chunk]
      BY <1>4, <3>1, <3>2
    <3>4. new = [multipart[r.s3] EXCEPT !.chunks = C]
      BY <3>2
    <3> HIDE DEF new
    <3>5. QED BY <3>1, <3>2, <3>3, <3>4
  <2>3. multipart' = [multipart EXCEPT ![r.s3] = new]
    BY <1>5
  <2> HIDE DEF new, Multipart
  <2>4. /\ multipart' \in Seq(Multipart) /\ Len(multipart') = Len(multipart)
        /\ \A id \in 1..Len(multipart) : multipart'[id] = IF id = r.s3 THEN new ELSE multipart[id]
    BY <1>1, <2>1, <2>2, <2>3
  <2>5. QED BY <2>2, <2>4
<1>7. UploadTypeOK'
  BY <1>2, <1>3, <1>6 DEF Becomes, UploadInv, UploadTypeOK, clientVars
<1>8. ~Finisher(q)
  BY <1>2 DEF Finisher
<1>9. Owned'
  <2>1. Uses(r.file, r.s3)
    BY <1>1, RequestUses
  <2>2. \A id \in 1..Len(multipart) : \A g \in File : Uses(g, id)' => Uses(g, id)
    BY <1>2, <1>3, <2>1 DEF Uses, HasUpload, Becomes
  <2>3. QED BY <1>1, <1>4, <1>6, <2>1, <2>2, OwnedStays DEF UploadInv
<1>10. Counted'
  BY <1>1, <1>2, <1>3, <1>7, CountedStays DEF UploadInv, Becomes
<1>11. (\A p \in requests : RequestSound(p))'
  <2>1. ASSUME NEW p, RequestSound(p) PROVE RequestSound(p)'
    BY <2>1, <1>6 DEF RequestSound
  <2>2. RequestSound(q)
    BY <1>1, <1>2, <1>8 DEF RequestSound
  <2>3. QED BY <1>3, <2>1, <2>2 DEF UploadInv, Becomes
<1>12. OneFinisher'
  BY <1>2, <1>3, <1>8, OneFinisherStays DEF UploadInv, Becomes
<1>13. EntriesSound' /\ ObjectsAreWholeFiles'
  BY DEF UploadInv, EntriesSound, ObjectsAreWholeFiles
<1>14. QED BY <1>7, <1>9, <1>10, <1>11, <1>12, <1>13 DEF UploadInv

\* The storage refuses a part.
LEMMA StorePartFailsSound ==
    ASSUME UploadInv, NEW r \in requests, StorePartFails(r)
    PROVE  UploadInv'
<1> DEFINE q == [r EXCEPT !.at = "fail"]
<1> USE DEF StorePartFails, entryVars
<1>1. /\ r \in RequestType /\ r.part \in Part(r.file) /\ disturbed' \in BOOLEAN
  BY DEF UploadInv, UploadTypeOK, RequestSound
<1>2. /\ q \in RequestType /\ q.file = r.file /\ q.op = "addFilePart" /\ q.at = "fail"
      /\ q.part = r.part
  BY <1>1 DEF RequestType
<1>3. Becomes(r, q)
  OBVIOUS
<1> HIDE DEF q
<1>4. UploadTypeOK'
  BY <1>1, <1>2, <1>3 DEF Becomes, UploadInv, UploadTypeOK, storageVars, uploadVars, clientVars
<1>5. ~HasUpload(q) /\ ~Uncounted(q) /\ ~Finisher(q)
  BY <1>2 DEF HasUpload, Uncounted, Finisher
<1>6. RequestSound(q)
  BY <1>1, <1>2, <1>5 DEF RequestSound
<1>7. QED BY <1>2, <1>3, <1>4, <1>5, <1>6, HandlerMoves DEF Becomes

\* Marking a part changes no list of parts in length.
LEMMA MarkedList ==
    ASSUME NEW list \in Seq(PartType), NEW k,
           NEW state \in {"uploading", "completed", "failed"}, NEW etag \in Chunk \cup {None}
    PROVE  /\ WithFirst(list, k, state, etag) \in Seq(PartType)
           /\ Len(WithFirst(list, k, state, etag)) = Len(list)
<1> DEFINE W == WithFirst(list, k, state, etag)
<1> DEFINE First(i) == list[i].number = k /\ \A j \in 1..(i - 1) : list[j].number # k
<1> DEFINE Marked(i) == [list[i] EXCEPT !.status = state, !.etag = IF etag = None THEN @ ELSE etag]
<1>1. W = [i \in DOMAIN list |-> IF First(i) THEN Marked(i) ELSE list[i]]
  BY DEF WithFirst
<1>2. \A i \in 1..Len(list) : Marked(i) \in PartType
  <2>1. SUFFICES ASSUME NEW i \in 1..Len(list) PROVE Marked(i) \in PartType
    OBVIOUS
  <2>2. list[i] \in PartType /\ list[i].etag \in Chunk \cup {None}
    <3>1. list[i] \in PartType
      OBVIOUS
    <3>2. QED BY <3>1 DEF PartType
  <2>3. PICK e \in Chunk \cup {None} : e = IF etag = None THEN list[i].etag ELSE etag
    BY <2>2
  <2>4. Marked(i) = [list[i] EXCEPT !.status = state, !.etag = e]
    BY <2>3
  <2> HIDE DEF Marked
  <2>5. QED BY <2>2, <2>4 DEF PartType
<1> HIDE DEF W, First, Marked
<1>3. W \in Seq(PartType) /\ Len(W) = Len(list)
  BY <1>1, <1>2
<1>4. QED BY <1>3 DEF W

\* A part is marked as failed and its request ends.
LEMMA SetUploadPartFailedSound ==
    ASSUME UploadInv, NEW r \in requests, SetUploadPartFailed(r)
    PROVE  UploadInv'
<1> DEFINE list == WithFirst(parts[r.file], r.part, "failed", None)
<1> USE DEF SetUploadPartFailed, Ends, storageVars, entryVars
<1>1. parts \in [File -> Seq(PartType)] /\ r.file \in File
  BY DEF UploadInv, UploadTypeOK, RequestType
<1>2. list \in Seq(PartType) /\ Len(list) = Len(parts[r.file])
  BY <1>1, MarkedList
<1>3. parts' = [parts EXCEPT ![r.file] = list]
  OBVIOUS
<1> HIDE DEF list
<1>4. parts' \in [File -> Seq(PartType)] /\ \A f \in File : Len(parts'[f]) = Len(parts[f])
  BY <1>1, <1>2, <1>3
<1>5. UploadTypeOK'
  BY <1>4 DEF UploadInv, UploadTypeOK, clientVars
<1>6. requests' \subseteq (requests \ {r}) \cup {r}
  OBVIOUS
<1>7. Owned'
  <2>1. \A id \in 1..Len(multipart) : \A g \in File : Uses(g, id)' => Uses(g, id)
    BY DEF Uses, HasUpload
  <2>2. QED BY <2>1, OwnedStays DEF UploadInv
<1>8. Counted'
  BY <1>4, <1>5, <1>6, CountedStays DEF UploadInv
<1>9. (\A p \in requests : RequestSound(p))'
  <2>1. ASSUME NEW p, RequestSound(p) PROVE RequestSound(p)'
    BY <2>1 DEF RequestSound
  <2>2. QED BY <2>1 DEF UploadInv
<1>10. OneFinisher'
  BY <1>6, OneFinisherStays DEF UploadInv
<1>11. EntriesSound' /\ ObjectsAreWholeFiles'
  BY DEF UploadInv, EntriesSound, ObjectsAreWholeFiles
<1>12. QED BY <1>5, <1>7, <1>8, <1>9, <1>10, <1>11 DEF UploadInv

\* What is acknowledged are parts.
LEMMA AcknowledgedParts ==
    ASSUME UploadTypeOK, NEW f \in File, NEW k \in Part(f), Acknowledge(f, k)
    PROVE  DOMAIN acked' = File /\ \A g \in File : acked'[g] \subseteq Part(g)
BY DEF UploadTypeOK, Acknowledge

\* The size of an upload is counted: who finds it complete is the only one.
LEMMA SetUploadPartCompletedSound ==
    ASSUME UploadInv, NEW r \in requests, SetUploadPartCompletedAndUpdateSize(r)
    PROVE  UploadInv'
<1> DEFINE f == r.file
<1> DEFINE list == WithFirst(parts[f], r.part, "completed", Chunks(f)[r.part])
<1> DEFINE q == [r EXCEPT !.at = "finish", !.list = list]
<1> DEFINE complete == IsComplete(uploadedSize[f] + 1, f)
<1>1. /\ r \in RequestType /\ f \in File /\ r.part \in Part(f) /\ r.op = "addFilePart" /\ r.at = "complete"
      /\ RequestSound(r) /\ HasUpload(r) /\ Uncounted(r)
      /\ parts \in [File -> Seq(PartType)] /\ uploadedSize \in [File -> Nat]
  <2>1. /\ r \in RequestType /\ RequestSound(r)
        /\ parts \in [File -> Seq(PartType)] /\ uploadedSize \in [File -> Nat]
    BY DEF UploadInv, UploadTypeOK
  <2>2. r.op = "addFilePart" /\ r.at = "complete"
    BY DEF SetUploadPartCompletedAndUpdateSize
  <2>3. f \in File
    BY <2>1 DEF RequestType
  <2>4. QED BY <2>1, <2>2, <2>3 DEF RequestSound, HasUpload, Uncounted
<1>2. list \in Seq(PartType) /\ Len(list) = Len(parts[f])
  <2>1. Chunks(f)[r.part] \in Chunk /\ parts[f] \in Seq(PartType)
    BY <1>1, PartFacts
  <2>2. QED BY <2>1, MarkedList
<1>3. /\ parts' = [parts EXCEPT ![f] = list]
      /\ uploadedSize' = [uploadedSize EXCEPT ![f] = @ + 1]
      /\ \/ complete /\ Becomes(r, q) /\ UNCHANGED acked
         \/ ~complete /\ Acknowledge(f, r.part) /\ Ends(r)
      /\ UNCHANGED <<storageVars, entryVars, s3UploadId, sent, disturbed>>
  BY DEF SetUploadPartCompletedAndUpdateSize
<1>4. /\ q \in RequestType /\ q.file = f /\ q.op = "addFilePart" /\ q.at = "finish"
      /\ q.s3 = r.s3 /\ q.part = r.part /\ q.list = list
  <2>1. PICK l \in Seq(PartType) : l = list
    BY <1>2
  <2>2. q = [r EXCEPT !.at = "finish", !.list = l]
    BY <2>1
  <2> HIDE DEF q, list
  <2>3. QED BY <1>1, <2>1, <2>2 DEF RequestType
<1>5. requests' \subseteq (requests \ {r}) \cup {q} /\ (~complete => requests' = requests \ {r})
  BY <1>3 DEF Becomes, Ends
<1> HIDE DEF q, list
<1>6. /\ parts' \in [File -> Seq(PartType)] /\ \A g \in File : Len(parts'[g]) = Len(parts[g])
      /\ uploadedSize' \in [File -> Nat]
      /\ \A g \in File : uploadedSize'[g] = IF g = f THEN uploadedSize[g] + 1 ELSE uploadedSize[g]
  BY <1>1, <1>2, <1>3
<1>7. DOMAIN acked' = File /\ \A g \in File : acked'[g] \subseteq Part(g)
  <2>1. CASE UNCHANGED acked
    BY <2>1 DEF UploadInv, UploadTypeOK
  <2>2. CASE Acknowledge(f, r.part)
    <3> HIDE DEF f
    <3>1. QED BY <1>1, <2>2, AcknowledgedParts DEF UploadInv
  <2>3. QED BY <1>3, <2>1, <2>2
<1>8. UploadTypeOK'
  BY <1>3, <1>4, <1>5, <1>6, <1>7 DEF UploadInv, UploadTypeOK, storageVars, entryVars
<1>9. Owned'
  <2>1. Uses(f, r.s3)
    BY <1>1, RequestUses
  <2>2. \A id \in 1..Len(multipart) : \A g \in File : Uses(g, id)' => Uses(g, id)
    BY <1>3, <1>4, <1>5, <2>1 DEF Uses, HasUpload
  <2>3. QED BY <1>3, <2>2, OwnedStays DEF UploadInv, storageVars
<1>10. Counted'
  <2>1. ~Uncounted(q)
    BY <1>4 DEF Uncounted
  <2>2. IsFiniteSet(requests')
    BY <1>5, UncountedMoves DEF UploadInv, Counted
  <2>3. ASSUME NEW g \in File
        PROVE  uploadedSize'[g] + Cardinality(UncountedOf(requests', g)) <= Len(parts'[g])
    <3>1. /\ Cardinality(UncountedOf(requests, g)) \in Nat
          /\ Cardinality(UncountedOf(requests', g)) \in Nat
          /\ Cardinality(UncountedOf(requests', g)) <= Cardinality(UncountedOf(requests, g))
          /\ g = f => Cardinality(UncountedOf(requests', g)) + 1 <= Cardinality(UncountedOf(requests, g))
      BY <1>1, <1>5, <2>1, UncountedMoves DEF UploadInv, Counted
    <3>2. uploadedSize[g] \in Nat /\ Len(parts[g]) \in Nat
      BY <1>1
    <3>3. uploadedSize[g] + Cardinality(UncountedOf(requests, g)) <= Len(parts[g])
      BY DEF UploadInv, Counted
    <3>4. QED BY <1>6, <3>1, <3>2, <3>3
  <2>4. QED BY <2>2, <2>3 DEF Counted, UncountedOf
<1>11. complete => uploadedSize'[f] = NumParts[f] /\ uploadedSize'[f] <= Len(list)
  <2>1. Cardinality(UncountedOf(requests', f)) \in Nat
    BY <1>5, UncountedMoves DEF UploadInv, Counted
  <2>2. uploadedSize'[f] + Cardinality(UncountedOf(requests', f)) <= Len(parts'[f])
    BY <1>1, <1>10 DEF Counted, UncountedOf
  <2>3. Len(parts'[f]) = Len(list) /\ Len(list) \in Nat /\ uploadedSize'[f] \in Nat
    BY <1>1, <1>2, <1>6
  <2>4. uploadedSize'[f] <= Len(list)
    BY <2>1, <2>2, <2>3
  <2>5. QED BY <1>1, <1>6, <2>4 DEF IsComplete
\* A finisher has found the size that is reached now: there is none.
<1>12. complete => \A p \in requests : Finisher(p) => p.file # f
  <2>1. SUFFICES ASSUME complete, NEW p \in requests, Finisher(p), p.file = f PROVE FALSE
    OBVIOUS
  <2>2. uploadedSize[f] >= NumParts[f]
    BY <2>1 DEF UploadInv, RequestSound
  <2>3. uploadedSize[f] \in Nat /\ NumParts[f] \in Nat
    BY <1>1, UploadAssumption
  <2>4. QED BY <2>1, <2>2, <2>3 DEF IsComplete
<1>13. complete => metadata[f] = None
  <2>1. uploadedSize[f] \in Nat /\ NumParts[f] \in Nat
    BY <1>1, UploadAssumption
  <2>2. metadata[f] # None => uploadedSize[f] >= NumParts[f]
    BY <1>1 DEF UploadInv, EntriesSound
  <2>3. QED BY <2>1, <2>2 DEF IsComplete
<1>14. Grows
  BY <1>1, <1>3, <1>6 DEF Grows, storageVars, entryVars
<1>15. (\A p \in requests : RequestSound(p))'
  <2>1. ASSUME NEW p \in requests PROVE RequestSound(p)'
    BY <1>3, <1>8, <1>14, RequestStaysSound DEF UploadInv, entryVars
  <2>2. ASSUME complete, NEW p, p = q PROVE RequestSound(p)'
    <3>1. NumParts[f] \in Nat /\ Len(list) \in Nat /\ uploadedSize'[f] \in Nat
      BY <1>1, <1>2, <1>6, UploadAssumption
    <3>2. Len(list) >= NumParts[f] /\ uploadedSize'[f] >= NumParts[f]
      BY <1>11, <2>2, <3>1
    <3>3. r.s3 \in 1..Len(multipart') /\ metadata'[f] = None
      BY <1>1, <1>3, <1>13, <2>2 DEF RequestSound, storageVars, entryVars
    <3> HIDE DEF f
    <3>4. QED BY <1>1, <1>4, <2>2, <3>2, <3>3 DEF RequestSound, HasUpload, Finisher
  <2>3. QED BY <1>5, <2>1, <2>2
<1>16. OneFinisher'
  <2>1. CASE complete
    BY <1>4, <1>5, <1>12, <2>1 DEF UploadInv, OneFinisher, Finisher
  <2>2. CASE ~complete
    BY <1>5, <2>2 DEF UploadInv, OneFinisher, Finisher
  <2>3. QED BY <2>1, <2>2
<1>17. EntriesSound'
  <2>1. ASSUME NEW g \in File PROVE metadata[g] # None => uploadedSize'[g] >= NumParts[g]
    <3>1. uploadedSize[g] \in Nat /\ uploadedSize'[g] \in Nat /\ NumParts[g] \in Nat
      BY <1>1, <1>6, UploadAssumption
    <3>2. QED BY <1>6, <3>1 DEF UploadInv, EntriesSound
  <2>2. QED BY <1>3, <2>1 DEF UploadInv, EntriesSound, storageVars, entryVars
<1>18. ObjectsAreWholeFiles'
  BY <1>3 DEF UploadInv, ObjectsAreWholeFiles, storageVars
<1>19. QED BY <1>8, <1>9, <1>10, <1>15, <1>16, <1>17, <1>18 DEF UploadInv

\* A list that S3 accepts for a multipart upload of file f and that has at least
\* as many entries as f has parts is f itself.
LEMMA AcceptedListIsFile ==
    ASSUME NEW f \in File, NEW list \in Seq(PartType), NEW id, Belongs(id, f),
           Acceptable(id, list), Len(list) >= NumParts[f]
    PROVE  [i \in 1..Len(list) |-> list[i].etag] = Chunks(f)
<1> DEFINE m == Len(list)
<1> DEFINE s == [i \in 1..m |-> list[i].number]
<1>1. m \in Nat /\ NumParts[f] \in Nat
  BY UploadAssumption
<1>2. \A i \in 1..m : list[i].number \in 1..NumParts[f] /\ list[i].etag = <<f, list[i].number>>
  <2>1. SUFFICES ASSUME NEW i \in 1..m
                 PROVE  list[i].number \in 1..NumParts[f] /\ list[i].etag = <<f, list[i].number>>
    OBVIOUS
  <2>2. [number |-> list[i].number, etag |-> list[i].etag] \in multipart[id].chunks
    BY DEF Acceptable
  <2>3. ChunkOf([number |-> list[i].number, etag |-> list[i].etag], f)
    BY <2>2 DEF Belongs
  <2>4. QED BY <2>3 DEF ChunkOf, Part
<1>3. \A i \in 1..m : \A j \in 1..(i - 1) : list[j].number < list[i].number
  BY DEF Acceptable
<1> HIDE DEF m
<1>4. \A i \in 1..m : s[i] \in 1..NumParts[f]
  BY <1>2
<1>5. Ascends(s, m, NumParts[f])
  BY <1>1, <1>3, <1>4 DEF Ascends
<1>6. \A i \in 1..m : s[i] = list[i].number
  OBVIOUS
<1> HIDE DEF s
<1>7. NumParts[f] = m /\ \A i \in 1..m : s[i] = i
  <2>1. m >= NumParts[f]
    BY DEF m
  <2>2. QED BY <1>1, <1>5, <2>1, AscendingNumbers
<1>8. \A i \in 1..m : list[i].etag = <<f, i>>
  BY <1>2, <1>6, <1>7
<1>9. QED BY <1>7, <1>8 DEF Chunks, Part, m

\* The object that S3 puts together is the file of the request.
LEMMA FinishMultiPartUploadSound ==
    ASSUME UploadInv, NEW r \in requests, FinishMultiPartUpload(r)
    PROVE  /\ UploadInv'
           /\ object' = [object EXCEPT ![NameOf[r.file]] = Chunks(r.file)]
<1> DEFINE q == [r EXCEPT !.at = "mark", !.list = <<>>]
<1> DEFINE Multipart == [path : Path, chunks : SUBSET [number : Number, etag : Chunk], open : BOOLEAN]
<1>1. /\ r \in RequestType /\ r.file \in File /\ r.part \in Part(r.file) /\ RequestSound(r)
      /\ r.op = "addFilePart" /\ r.at = "finish"
      /\ HasUpload(r) /\ Finisher(r) /\ r.s3 \in 1..Len(multipart)
      /\ r.list \in Seq(PartType) /\ Len(r.list) >= NumParts[r.file]
  BY DEF UploadInv, UploadTypeOK, RequestType, RequestSound, HasUpload, Finisher, FinishMultiPartUpload
<1>2. /\ Acceptable(r.s3, r.list)
      /\ multipart' = [multipart EXCEPT ![r.s3].open = FALSE]
      /\ object' = [object EXCEPT ![multipart[r.s3].path] = [i \in 1..Len(r.list) |-> r.list[i].etag]]
      /\ Becomes(r, q)
      /\ UNCHANGED <<entryVars, uploadVars, clientVars, disturbed>>
  BY DEF FinishMultiPartUpload, finishMultiPartUpload
<1>3. /\ q \in RequestType /\ q.file = r.file /\ q.op = "addFilePart" /\ q.at = "mark"
      /\ q.part = r.part
  <2>1. <<>> \in Seq(PartType)
    OBVIOUS
  <2>2. QED BY <1>1, <2>1 DEF RequestType
<1> HIDE DEF q
<1>4. Belongs(r.s3, r.file)
  <2>1. PICK f \in File : Belongs(r.s3, f)
    BY <1>1 DEF UploadInv, Owned
  <2>2. f = r.file
    BY <1>1, <2>1, RequestUses DEF Belongs
  <2>3. QED BY <2>1, <2>2
<1>5. object' = [object EXCEPT ![NameOf[r.file]] = Chunks(r.file)]
  BY <1>1, <1>2, <1>4, AcceptedListIsFile DEF Belongs
<1>6. Chunks(r.file) \in Seq(Chunk) /\ Chunks(r.file) # None
  <2>1. NumParts[r.file] \in Nat /\ \A k \in 1..NumParts[r.file] : Chunks(r.file)[k] \in Chunk
    BY <1>1, PartFacts, UploadAssumption DEF Part
  <2>2. Chunks(r.file) = [k \in 1..NumParts[r.file] |-> Chunks(r.file)[k]]
    BY DEF Chunks, Part
  <2>3. Chunks(r.file) \in [1..NumParts[r.file] -> Chunk]
    BY <2>1, <2>2
  <2>4. Chunks(r.file) \in Seq(Chunk)
    BY <2>1, <2>3
  <2>5. QED BY <1>1, <2>4, NoneAssumption
<1>7. /\ NameOf[r.file] \in Path /\ object \in [Path -> Seq(Chunk) \cup {None}]
      /\ \A f \in File : NameOf[f] \in Path
  BY <1>1, UploadAssumption DEF UploadInv, UploadTypeOK
<1>8. /\ object' \in [Path -> Seq(Chunk) \cup {None}]
      /\ \A p \in Path : object'[p] = IF p = NameOf[r.file] THEN Chunks(r.file) ELSE object[p]
  BY <1>5, <1>6, <1>7
<1>9. /\ multipart' \in Seq(Multipart) /\ Len(multipart') = Len(multipart)
      /\ \A id \in 1..Len(multipart) :
           multipart'[id].path = multipart[id].path /\ multipart'[id].chunks = multipart[id].chunks
  <2>1. multipart \in Seq(Multipart)
    BY DEF UploadInv, UploadTypeOK
  <2> DEFINE new == [multipart[r.s3] EXCEPT !.open = FALSE]
  <2>2. multipart[r.s3] \in Multipart
    <3> HIDE DEF Multipart
    <3>1. QED BY <1>1, <2>1
  <2>3. new \in Multipart /\ new.path = multipart[r.s3].path /\ new.chunks = multipart[r.s3].chunks
    BY <2>2
  <2>4. multipart' = [multipart EXCEPT ![r.s3] = new]
    BY <1>2
  <2> HIDE DEF new, Multipart
  <2>5. /\ multipart' \in Seq(Multipart) /\ Len(multipart') = Len(multipart)
        /\ \A id \in 1..Len(multipart) : multipart'[id] = IF id = r.s3 THEN new ELSE multipart[id]
    BY <1>1, <2>1, <2>3, <2>4
  <2>6. QED BY <2>3, <2>5
<1>10. UploadTypeOK'
  BY <1>2, <1>3, <1>8, <1>9 DEF Becomes, UploadInv, UploadTypeOK, entryVars, uploadVars, clientVars
<1>11. ~HasUpload(q) /\ ~Uncounted(q)
  BY <1>3 DEF HasUpload, Uncounted
<1>12. requests' \subseteq (requests \ {r}) \cup {q}
  BY <1>2 DEF Becomes
<1>13. Owned'
  <2>1. \A id \in 1..Len(multipart) : \A g \in File : Uses(g, id)' => Uses(g, id)
    BY <1>2, <1>11, <1>12 DEF Uses, HasUpload, uploadVars
  <2>2. QED BY <1>9, <2>1, OwnedStays DEF UploadInv
<1>14. Counted'
  BY <1>2, <1>3, <1>10, <1>11, <1>12, CountedStays DEF UploadInv, uploadVars
<1>15. Grows
  <2>1. \A f \in File : uploadedSize[f] \in Nat
    BY DEF UploadInv, UploadTypeOK
  <2>2. Len(multipart) \in Nat
    BY DEF UploadInv, UploadTypeOK
  <2>3. Len(multipart) <= Len(multipart')
    BY <1>9, <2>2
  <2>4. \A f \in File : uploadedSize[f] <= uploadedSize'[f]
    BY <1>2, <2>1 DEF uploadVars
  <2>5. \A f \in File : object[NameOf[f]] # None => object'[NameOf[f]] # None
    BY <1>6, <1>7, <1>8
  <2>6. QED BY <1>2, <2>3, <2>4, <2>5 DEF Grows, entryVars
<1>16. (\A p \in requests : RequestSound(p))'
  <2>1. ASSUME NEW p \in requests PROVE RequestSound(p)'
    BY <1>2, <1>10, <1>15, RequestStaysSound DEF UploadInv, entryVars
  <2>2. RequestSound(q)'
    <3>1. object'[NameOf[r.file]] # None
      BY <1>6, <1>7, <1>8
    <3>2. /\ uploadedSize'[r.file] >= NumParts[r.file]
          /\ metadata'[r.file] = None
      BY <1>1, <1>2 DEF RequestSound, entryVars, uploadVars
    <3>3. QED BY <1>1, <1>3, <3>1, <3>2 DEF RequestSound, HasUpload, Finisher, q
  <2>3. QED BY <1>12, <2>1, <2>2 DEF q
<1>17. OneFinisher'
  BY <1>1, <1>3, <1>12, OneFinisherStays DEF UploadInv
<1>18. EntriesSound'
  BY <1>2, <1>6, <1>7, <1>8 DEF UploadInv, EntriesSound, entryVars, uploadVars
<1>19. ObjectsAreWholeFiles'
  <2>1. SUFFICES ASSUME NEW p \in Path, object'[p] # None
                 PROVE  \E f \in File : NameOf[f] = p /\ object'[p] = Chunks(f)
    BY DEF ObjectsAreWholeFiles, Chunks
  <2>2. CASE p = NameOf[r.file]
    BY <1>1, <1>8, <2>2
  <2>3. CASE p # NameOf[r.file]
    BY <1>8, <2>1, <2>3 DEF UploadInv, ObjectsAreWholeFiles
  <2>4. QED BY <2>2, <2>3
<1>20. QED BY <1>5, <1>10, <1>13, <1>14, <1>16, <1>17, <1>18, <1>19 DEF UploadInv

\* S3 does not complete the upload; the request ends.
LEMMA FinishRefusedSound ==
    ASSUME UploadInv, NEW r \in requests, FinishRefused(r)
    PROVE  UploadInv'
<1> USE DEF FinishRefused
<1>1. disturbed' \in BOOLEAN
  BY DEF UploadInv, UploadTypeOK
<1>2. UploadTypeOK'
  BY <1>1 DEF Ends, UploadInv, UploadTypeOK, storageVars, entryVars, uploadVars, clientVars
<1>3. QED BY <1>2, HandlerEnds DEF entryVars

\* The file is marked as finished: its object is there.
LEMMA FileUploadFinishedAtSound ==
    ASSUME UploadInv, NEW r \in requests, FileUploadFinishedAt(r)
    PROVE  UploadInv'
<1> DEFINE q == [r EXCEPT !.op = "analyzeUpload", !.at = "analyze"]
<1> USE DEF FileUploadFinishedAt
<1>1. /\ r \in RequestType /\ r.file \in File /\ r.part \in Part(r.file) /\ RequestSound(r)
      /\ Finisher(r) /\ object[NameOf[r.file]] # None
  BY DEF UploadInv, UploadTypeOK, RequestType, RequestSound, Finisher
<1>2. /\ q \in RequestType /\ q.file = r.file /\ q.op = "analyzeUpload" /\ q.at = "analyze"
      /\ q.part = r.part
  BY <1>1 DEF RequestType
<1>3. Becomes(r, q) /\ requests' \subseteq (requests \ {r}) \cup {q}
  BY DEF Becomes
<1> HIDE DEF q
<1>4. DOMAIN acked' = File /\ \A g \in File : acked'[g] \subseteq Part(g)
  BY <1>1, AcknowledgedParts DEF UploadInv
<1>5. /\ finished' \in [File -> BOOLEAN]
      /\ \A f \in File : finished'[f] <=> finished[f] \/ f = r.file
  BY <1>1 DEF UploadInv, UploadTypeOK
<1>6. UploadTypeOK'
  BY <1>2, <1>3, <1>4, <1>5 DEF UploadInv, UploadTypeOK, storageVars, uploadVars
<1>7. ~HasUpload(q) /\ ~Uncounted(q)
  BY <1>2 DEF HasUpload, Uncounted
<1>8. Owned'
  <2>1. \A id \in 1..Len(multipart) : \A g \in File : Uses(g, id)' => Uses(g, id)
    BY <1>3, <1>7 DEF Uses, HasUpload, uploadVars
  <2>2. QED BY <2>1, OwnedStays DEF UploadInv, storageVars
<1>9. Counted'
  BY <1>2, <1>3, <1>6, <1>7, CountedStays DEF UploadInv, uploadVars
<1>10. Grows
  BY <1>5 DEF Grows, UploadInv, UploadTypeOK, storageVars, uploadVars
<1>11. (\A p \in requests : RequestSound(p))'
  <2>1. ASSUME NEW p \in requests PROVE RequestSound(p)'
    BY <1>6, <1>10, RequestStaysSound DEF UploadInv
  <2>2. RequestSound(q)'
    <3>1. /\ object'[NameOf[r.file]] # None /\ finished'[r.file]
          /\ uploadedSize'[r.file] >= NumParts[r.file] /\ metadata'[r.file] = None
      BY <1>1, <1>5 DEF RequestSound, storageVars, uploadVars
    <3>2. QED BY <1>1, <1>2, <3>1 DEF RequestSound, HasUpload, Finisher, q
  <2>3. QED BY <1>3, <2>1, <2>2 DEF q
<1>12. OneFinisher'
  BY <1>1, <1>2, <1>3, OneFinisherStays DEF UploadInv
<1>13. EntriesSound'
  BY <1>1, <1>5 DEF UploadInv, EntriesSound, storageVars, uploadVars
<1>14. ObjectsAreWholeFiles'
  BY DEF UploadInv, ObjectsAreWholeFiles, storageVars
<1>15. QED BY <1>6, <1>8, <1>9, <1>11, <1>12, <1>13, <1>14 DEF UploadInv

\* What is found of an object is something its path allows.
LEMMA AnalysisAllowed ==
    ASSUME ObjectsAreWholeFiles, NEW f \in File, object[NameOf[f]] # None
    PROVE  Analysis(NameOf[f]) \in Allowed(f) /\ Analysis(NameOf[f]) \in Metadata
<1> DEFINE p == NameOf[f]
<1> DEFINE g == CHOOSE h \in File : object[p] = Chunks(h)
<1>1. PICK e \in File : NameOf[e] = p /\ object[p] = Chunks(e)
  BY UploadAssumption DEF ObjectsAreWholeFiles
<1>2. g \in File /\ object[p] = Chunks(g)
  BY <1>1
<1> HIDE DEF g
<1>3. g = e
  <2>1. NumParts[g] \in Nat \ {0} /\ NumParts[e] \in Nat \ {0}
    BY <1>2, UploadAssumption
  <2>2. 1 \in Part(g) /\ 1 \in Part(e)
    BY <2>1 DEF Part
  <2>3. Chunks(g)[1] = <<g, 1>> /\ Chunks(e)[1] = <<e, 1>>
    BY <2>2 DEF Chunks
  <2>4. QED BY <1>1, <1>2, <2>3
<1>4. Analysis(p) = analyzeFile(Probe[g])
  BY <1>1 DEF Analysis, g
<1>5. QED BY <1>1, <1>3, <1>4 DEF Allowed, Metadata

\* The analysis has found something that the path allows.
LEMMA AnalyzeUploadSound ==
    ASSUME UploadInv, NEW r \in requests, AnalyzeUpload(r)
    PROVE  UploadInv'
<1>1. /\ r \in RequestType /\ r.file \in File /\ RequestSound(r)
      /\ r.op = "analyzeUpload" /\ r.at = "analyze"
      /\ Finisher(r) /\ object[NameOf[r.file]] # None
  BY DEF UploadInv, UploadTypeOK, RequestType, RequestSound, Finisher, AnalyzeUpload
<1>2. PICK m \in Metadata :
        m \in Allowed(r.file) /\ Becomes(r, [r EXCEPT !.at = "describe", !.metadata = m])
  <2>1. /\ Analysis(NameOf[r.file]) \in Allowed(r.file) /\ Analysis(NameOf[r.file]) \in Metadata
        /\ Unsupported \in Allowed(r.file) /\ Unsupported \in Metadata
    BY <1>1, AnalysisAllowed DEF UploadInv, Allowed, Metadata
  <2>2. QED BY <2>1 DEF AnalyzeUpload
<1> DEFINE q == [r EXCEPT !.at = "describe", !.metadata = m]
<1>3. /\ q \in RequestType /\ q.file = r.file /\ q.op = "analyzeUpload" /\ q.at = "describe"
      /\ q.part = r.part /\ q.metadata = m
  BY <1>1 DEF RequestType
<1>4. requests' \subseteq (requests \ {r}) \cup {q} /\ requests' \subseteq requests \cup {q}
  BY <1>2 DEF Becomes
<1> HIDE DEF q
<1>5. /\ disturbed' \in BOOLEAN
      /\ UNCHANGED <<storageVars, entryVars, uploadVars, clientVars>>
  BY DEF AnalyzeUpload, UploadInv, UploadTypeOK
<1>6. UploadTypeOK'
  BY <1>3, <1>4, <1>5 DEF UploadInv, UploadTypeOK, storageVars, entryVars, uploadVars, clientVars
<1>7. ~HasUpload(q) /\ ~Uncounted(q)
  BY <1>3 DEF HasUpload, Uncounted
<1>8. RequestSound(q)
  BY <1>1, <1>2, <1>3, <1>7 DEF RequestSound, Finisher
<1>9. QED BY <1>1, <1>3, <1>4, <1>5, <1>6, <1>7, <1>8, HandlerMoves DEF entryVars

\* The metadata are stored by the only finisher of the file.
LEMMA AddMetadataToFileSound ==
    ASSUME UploadInv, NEW r \in requests, AddMetadataToFile(r)
    PROVE  UploadInv'
<1> USE DEF AddMetadataToFile
<1>1. /\ r \in RequestType /\ r.file \in File /\ RequestSound(r)
      /\ Finisher(r) /\ r.metadata \in Metadata
      /\ uploadedSize[r.file] >= NumParts[r.file]
  <2>1. r \in RequestType /\ RequestSound(r) /\ Finisher(r)
    BY DEF UploadInv, UploadTypeOK, Finisher
  <2>2. r.file \in File /\ r.metadata \in Allowed(r.file)
    BY <2>1 DEF RequestType, RequestSound
  <2>3. r.metadata \in Metadata
    BY <2>2 DEF Allowed, Metadata
  <2>4. QED BY <2>1, <2>2, <2>3 DEF RequestSound
<1>2. /\ metadata' \in [File -> Metadata \cup {None}]
      /\ \A f \in File : f # r.file => metadata'[f] = metadata[f]
  BY <1>1 DEF UploadInv, UploadTypeOK
<1>3. requests' = requests \ {r}
  BY DEF Ends
<1>4. UploadTypeOK'
  BY <1>2, <1>3 DEF UploadInv, UploadTypeOK, storageVars, uploadVars, clientVars
<1>5. requests' \subseteq (requests \ {r}) \cup {r}
  BY <1>3
<1>6. Owned'
  <2>1. \A id \in 1..Len(multipart) : \A g \in File : Uses(g, id)' => Uses(g, id)
    BY <1>3 DEF Uses, HasUpload, uploadVars
  <2>2. QED BY <2>1, OwnedStays DEF UploadInv, storageVars
<1>7. Counted'
  BY <1>4, <1>5, CountedStays DEF UploadInv, uploadVars
<1>8. Grows
  BY DEF Grows, UploadInv, UploadTypeOK, storageVars, uploadVars
<1>9. (\A p \in requests : RequestSound(p))'
  <2>1. ASSUME NEW p \in requests, p # r PROVE RequestSound(p)'
    <3>1. p.file \in File /\ RequestSound(p)
      BY DEF UploadInv, UploadTypeOK, RequestType
    <3>2. Finisher(p) => p.file # r.file
      BY <1>1, <2>1 DEF UploadInv, OneFinisher
    <3>3. Finisher(p) => metadata'[p.file] = metadata[p.file]
      BY <1>2, <3>1, <3>2
    <3>4. QED BY <1>4, <1>8, <3>1, <3>3, RequestStaysSound DEF UploadInv
  <2>2. QED BY <1>3, <2>1
<1>10. OneFinisher'
  BY <1>5, OneFinisherStays DEF UploadInv
<1>11. EntriesSound'
  BY <1>1, <1>2 DEF UploadInv, EntriesSound, storageVars, uploadVars
<1>12. ObjectsAreWholeFiles'
  BY DEF UploadInv, ObjectsAreWholeFiles, storageVars
<1>13. QED BY <1>4, <1>6, <1>7, <1>9, <1>10, <1>11, <1>12 DEF UploadInv

\* A restart takes the handlers, and with them what they have found.
LEMMA RestartSound ==
    ASSUME UploadInv, Restart
    PROVE  UploadInv'
<1> USE DEF Restart
<1>1. UploadTypeOK'
  BY DEF UploadInv, UploadTypeOK, storageVars, entryVars, uploadVars, clientVars
<1>2. Owned'
  <2>1. \A id \in 1..Len(multipart) : \A g \in File : Uses(g, id)' => Uses(g, id)
    BY DEF Uses, uploadVars
  <2>2. QED BY <2>1, OwnedStays DEF UploadInv, storageVars
<1>3. Counted'
  <2>1. IsFiniteSet(requests') /\ \A f \in File : Cardinality(UncountedOf(requests', f)) = 0
    <3>1. \A f \in File : UncountedOf(requests', f) = {}
      BY DEF UncountedOf
    <3>2. QED BY <3>1, FS_EmptySet
  <2>2. ASSUME NEW f \in File PROVE uploadedSize'[f] <= Len(parts'[f])
    <3>1. uploadedSize[f] + Cardinality(UncountedOf(requests, f)) <= Len(parts[f])
      BY DEF UploadInv, Counted
    <3>2. Cardinality(UncountedOf(requests, f)) \in Nat
      BY FS_Subset, FS_CardinalityType DEF UploadInv, Counted, UncountedOf
    <3>3. uploadedSize[f] \in Nat /\ Len(parts[f]) \in Nat
      BY DEF UploadInv, UploadTypeOK
    <3>4. QED BY <3>1, <3>2, <3>3 DEF uploadVars
  <2>3. ASSUME NEW f \in File PROVE uploadedSize'[f] \in Nat
    BY <1>1 DEF UploadTypeOK
  <2>4. QED BY <2>1, <2>2, <2>3 DEF Counted, UncountedOf
<1>4. (\A p \in requests : RequestSound(p))' /\ OneFinisher'
  BY DEF OneFinisher
<1>5. EntriesSound' /\ ObjectsAreWholeFiles'
  BY DEF UploadInv, EntriesSound, ObjectsAreWholeFiles, storageVars, entryVars, uploadVars
<1>6. QED BY <1>1, <1>2, <1>3, <1>4, <1>5 DEF UploadInv

-----------------------------------------------------------------------------

\* Every step keeps the inductive invariant.
LEMMA StepSound == UploadInv /\ [Next]_vars => UploadInv'
<1> SUFFICES ASSUME UploadInv, [Next]_vars PROVE UploadInv'
  OBVIOUS
<1>1. ASSUME NEW f \in File, SendAddFile(f) PROVE UploadInv'
  BY <1>1, SendAddFileSound
<1>2. ASSUME NEW f \in File, NEW k \in Part(f), SendPart(f, k) PROVE UploadInv'
  BY <1>2, SendPartSound
<1>3. ASSUME NEW r \in requests, HandlerStep(r) PROVE UploadInv'
  <2>1. CASE FindWorkspace(r)
    BY <2>1, FindWorkspaceSound
  <2>2. CASE PushFile(r)
    BY <2>2, PushFileSound
  <2>3. CASE FindUpload(r)
    BY <2>3, FindUploadSound
  <2>4. CASE CreateS3MultipartUpload(r)
    BY <2>4, CreateS3MultipartUploadSound
  <2>5. CASE AddPartToUpload(r)
    BY <2>5, AddPartToUploadSound
  <2>6. CASE StorePart(r)
    BY <2>6, StorePartSound
  <2>7. CASE StorePartFails(r)
    BY <2>7, StorePartFailsSound
  <2>8. CASE SetUploadPartFailed(r)
    BY <2>8, SetUploadPartFailedSound
  <2>9. CASE SetUploadPartCompletedAndUpdateSize(r)
    BY <2>9, SetUploadPartCompletedSound
  <2>10. CASE FinishMultiPartUpload(r)
    BY <2>10, FinishMultiPartUploadSound
  <2>11. CASE FinishRefused(r)
    BY <2>11, FinishRefusedSound
  <2>12. CASE FileUploadFinishedAt(r)
    BY <2>12, FileUploadFinishedAtSound
  <2>13. CASE AnalyzeUpload(r)
    BY <2>13, AnalyzeUploadSound
  <2>14. CASE AddMetadataToFile(r)
    BY <2>14, AddMetadataToFileSound
  <2>15. QED BY <1>3, <2>1, <2>2, <2>3, <2>4, <2>5, <2>6, <2>7, <2>8, <2>9, <2>10, <2>11, <2>12,
                <2>13, <2>14 DEF HandlerStep
<1>4. CASE Restart
  BY <1>4, RestartSound
<1>5. CASE UNCHANGED vars
  BY <1>5 DEF vars, storageVars, entryVars, uploadVars, clientVars, UploadInv, UploadTypeOK, Owned,
              Belongs, Uses, Counted, RequestSound, OneFinisher, EntriesSound, ObjectsAreWholeFiles
<1>6. CASE Done
  BY <1>5, <1>6 DEF Done
<1>7. QED BY <1>1, <1>2, <1>3, <1>4, <1>5, <1>6 DEF Next

\* The inductive invariant holds in every reachable state, for every number of
\* files, parts, repetitions, failures and restarts.
THEOREM UploadInvAlways == Spec => []UploadInv
BY InitSound, StepSound, PTL DEF Spec

\* Every variable keeps its type; a handler never uses a multipart upload that
\* the storage has not started.
THEOREM UploadTypeCorrect == Spec => []UploadTypeOK
<1>1. UploadInv => UploadTypeOK
  BY DEF UploadInv
<1>2. QED BY <1>1, UploadInvAlways, PTL

\* An object in the storage is a whole file, although parts are counted by their
\* size only: finishUpload hands S3 a list that is as long as the file.
THEOREM ObjectsAlwaysWhole == Spec => []ObjectsAreWholeFiles
<1>1. UploadInv => ObjectsAreWholeFiles
  BY DEF UploadInv
<1>2. QED BY <1>1, UploadInvAlways, PTL

-----------------------------------------------------------------------------

\* A step that touches no object, no finished file and no metadata.
LEMMA LifecycleStutters ==
    ASSUME UNCHANGED <<object, finished, metadata>>
    PROVE  UNCHANGED Lifecycle!lifecycleVars
BY DEF Lifecycle!lifecycleVars

\* No file is stored, finished or described at first.
LEMMA LifecycleStarts == Init => Lifecycle!LifecycleInit
<1> SUFFICES ASSUME Init PROVE Lifecycle!LifecycleInit
  OBVIOUS
<1>1. \A f \in File : object[NameOf[f]] = None /\ ~finished[f]
  BY UploadAssumption DEF Init, StorageInit
<1>2. QED BY <1>1 DEF Init, Lifecycle!LifecycleInit

\* Completing a multipart upload stores the files of its path.
LEMMA FinishStores ==
    ASSUME UploadInv, NEW r \in requests, FinishMultiPartUpload(r)
    PROVE  Lifecycle!LifecycleNext
<1> DEFINE F == {f \in File : NameOf[f] = NameOf[r.file]}
<1>1. /\ r.file \in File /\ object \in [Path -> Seq(Chunk) \cup {None}]
      /\ \A f \in File : NameOf[f] \in Path
  BY UploadAssumption DEF UploadInv, UploadTypeOK, RequestType
<1>2. object' = [object EXCEPT ![NameOf[r.file]] = Chunks(r.file)]
  BY FinishMultiPartUploadSound
<1>3. \A f \in File : object'[NameOf[f]] # None <=> object[NameOf[f]] # None \/ f \in F
  BY <1>1, <1>2, NoneAssumption
<1>4. {f \in File : object'[NameOf[f]] # None} = {f \in File : object[NameOf[f]] # None} \cup F
  BY <1>3
<1>5. F # {} /\ F \in SUBSET File
  BY <1>1
<1>6. UNCHANGED <<finished, metadata>>
  BY DEF FinishMultiPartUpload, entryVars
<1>7. Lifecycle!Store(F)
  BY <1>4, <1>5, <1>6 DEF Lifecycle!Store
<1>8. QED BY <1>5, <1>7 DEF Lifecycle!LifecycleNext

\* A file that is marked is stored.
LEMMA MarkFinishes ==
    ASSUME UploadInv, NEW r \in requests, FileUploadFinishedAt(r)
    PROVE  Lifecycle!LifecycleNext
<1>1. r.file \in File /\ object[NameOf[r.file]] # None /\ finished \in [File -> BOOLEAN]
  BY DEF UploadInv, UploadTypeOK, RequestType, RequestSound, Finisher, FileUploadFinishedAt
<1>2. {f \in File : finished'[f]} = {f \in File : finished[f]} \cup {r.file}
  BY <1>1 DEF FileUploadFinishedAt
<1>3. UNCHANGED <<object, metadata>>
  BY DEF FileUploadFinishedAt, storageVars
<1>4. Lifecycle!Finish(r.file)
  BY <1>1, <1>2, <1>3 DEF Lifecycle!Finish
<1>5. QED BY <1>1, <1>4 DEF Lifecycle!LifecycleNext

\* The one finisher describes the file, once.
LEMMA MetadataDescribes ==
    ASSUME UploadInv, NEW r \in requests, AddMetadataToFile(r)
    PROVE  Lifecycle!LifecycleNext
<1>1. /\ r.file \in File /\ metadata[r.file] = None /\ finished[r.file]
      /\ r.metadata \in Allowed(r.file)
  BY DEF UploadInv, UploadTypeOK, RequestType, RequestSound, Finisher, AddMetadataToFile
<1>2. metadata' = [metadata EXCEPT ![r.file] = r.metadata] /\ UNCHANGED <<object, finished>>
  BY DEF AddMetadataToFile, storageVars
<1>3. Lifecycle!Describe(r.file)
  BY <1>1, <1>2 DEF Lifecycle!Describe
<1>4. QED BY <1>1, <1>3 DEF Lifecycle!LifecycleNext

\* A step of the handlers is one of the lifecycle or leaves it alone.
LEMMA LifecycleSteps ==
    UploadInv /\ [Next]_vars => [Lifecycle!LifecycleNext]_(Lifecycle!lifecycleVars)
<1> SUFFICES ASSUME UploadInv, [Next]_vars
             PROVE  [Lifecycle!LifecycleNext]_(Lifecycle!lifecycleVars)
  OBVIOUS
<1> USE DEF storageVars, entryVars
<1>1. ASSUME NEW f \in File, SendAddFile(f) PROVE UNCHANGED <<object, finished, metadata>>
  BY <1>1 DEF SendAddFile
<1>2. ASSUME NEW f \in File, NEW k \in Part(f), SendPart(f, k)
      PROVE  UNCHANGED <<object, finished, metadata>>
  BY <1>2 DEF SendPart
<1>3. ASSUME NEW r \in requests, HandlerStep(r),
             ~FinishMultiPartUpload(r), ~FileUploadFinishedAt(r), ~AddMetadataToFile(r)
      PROVE  UNCHANGED <<object, finished, metadata>>
  BY <1>3 DEF HandlerStep, FindWorkspace, PushFile, FindUpload, CreateS3MultipartUpload, AddPartToUpload,
              StorePart, StorePartFails, SetUploadPartFailed, SetUploadPartCompletedAndUpdateSize,
              FinishRefused, AnalyzeUpload
<1>4. CASE Restart \/ Done \/ UNCHANGED vars
  BY <1>4, LifecycleStutters DEF Restart, Done, vars
<1>5. ASSUME NEW r \in requests, HandlerStep(r)
      PROVE  Lifecycle!LifecycleNext \/ UNCHANGED Lifecycle!lifecycleVars
  BY <1>3, <1>5, FinishStores, MarkFinishes, MetadataDescribes, LifecycleStutters
<1>6. QED BY <1>1, <1>2, <1>4, <1>5, LifecycleStutters DEF Next

\* The handlers implement the lifecycle of a file: a file is stored before it is
\* finished, finished before it is described, and described once.
THEOREM UploadImplementsFileLifecycle == Spec => ImplementsFileLifecycle
<1>1. Init => Lifecycle!LifecycleInit
  BY LifecycleStarts
<1>2. UploadInv /\ [Next]_vars => [Lifecycle!LifecycleNext]_(Lifecycle!lifecycleVars)
  BY LifecycleSteps
<1>3. QED BY <1>1, <1>2, UploadInvAlways, PTL DEF Spec, ImplementsFileLifecycle, Lifecycle!LifecycleSpec

-----------------------------------------------------------------------------
(* No part is acknowledged for an upload that cannot be completed any      *)
(* more: the part that makes an upload complete is acknowledged when the   *)
(* file is marked, so until then there is one acknowledgement less than    *)
(* what is counted; and no more is counted than was sent.                  *)

\* The part is sent and its size is not counted yet.
InTransit(r) ==
    r.op = "addFilePart" /\ r.at \in {"find", "setId", "push", "store", "complete"}

TransitOf(S, f) == {r \in S : r.file = f /\ InTransit(r)}

\* What the client of f has sent, each repetition of a part by itself.
Sends(f) == {s \in Part(f) \X Nat : s[2] \in 1..sent[f][s[1]]}

AcksCounted(f) ==
    /\ IsFiniteSet(acked[f])
    /\ ~finished[f] => Cardinality(acked[f]) <= uploadedSize[f]
    /\ ~finished[f] /\ uploadedSize[f] >= NumParts[f] => Cardinality(acked[f]) + 1 <= uploadedSize[f]

SendsCounted(f) ==
    /\ IsFiniteSet(Sends(f))
    /\ uploadedSize[f] + Cardinality(TransitOf(requests, f)) <= Cardinality(Sends(f))

AckInv == \A f \in File : AcksCounted(f) /\ SendsCounted(f)

\* The requests in transit, when r becomes q or ends.
LEMMA TransitMoves ==
    ASSUME NEW S, IsFiniteSet(S), NEW r \in S, NEW q, NEW f,
           NEW T, T \subseteq (S \ {r}) \cup {q}
    PROVE  /\ Cardinality(TransitOf(S, f)) \in Nat
           /\ Cardinality(TransitOf(T, f)) \in Nat
           /\ (q.file = f /\ InTransit(q) => r.file = f /\ InTransit(r))
                 => Cardinality(TransitOf(T, f)) <= Cardinality(TransitOf(S, f))
           /\ r.file = f /\ InTransit(r) /\ ~InTransit(q)
                 => Cardinality(TransitOf(T, f)) + 1 <= Cardinality(TransitOf(S, f))
<1>1. IsFiniteSet(TransitOf(S, f))
  BY FS_Subset DEF TransitOf
<1>2. TransitOf(T, f) \subseteq (TransitOf(S, f) \ {r}) \cup {q}
  BY DEF TransitOf
<1>3. /\ r \in TransitOf(S, f) <=> r.file = f /\ InTransit(r)
      /\ q \in TransitOf(T, f) => q.file = f /\ InTransit(q)
  BY DEF TransitOf
<1>4. QED BY <1>1, <1>2, <1>3, CardinalityMoves

\* Nothing is sent, counted or acknowledged at first.
LEMMA AckInit == Init => AckInv
<1> SUFFICES ASSUME Init, NEW f \in File PROVE AcksCounted(f) /\ SendsCounted(f)
  BY DEF AckInv
<1>1. acked[f] = {} /\ Sends(f) = {} /\ TransitOf(requests, f) = {} /\ uploadedSize[f] = 0
  BY DEF Init, Sends, TransitOf
<1>2. NumParts[f] \in Nat \ {0}
  BY UploadAssumption
<1>3. QED BY <1>1, <1>2, FS_EmptySet DEF AcksCounted, SendsCounted

\* A handler that counts, acknowledges and finishes nothing.
LEMMA AckKept ==
    ASSUME UploadInv, AckInv, NEW r \in requests, NEW q,
           requests' \subseteq (requests \ {r}) \cup {q},
           UNCHANGED <<uploadedSize, sent, acked, finished>>,
           q.file = r.file, InTransit(q) => InTransit(r)
    PROVE  AckInv'
<1> SUFFICES ASSUME NEW f \in File PROVE AcksCounted(f)' /\ SendsCounted(f)'
  BY DEF AckInv
<1>1. /\ Cardinality(TransitOf(requests, f)) \in Nat
      /\ Cardinality(TransitOf(requests', f)) \in Nat
      /\ Cardinality(TransitOf(requests', f)) <= Cardinality(TransitOf(requests, f))
  BY TransitMoves DEF UploadInv, Counted
<1>2. Sends(f)' = Sends(f)
  BY DEF Sends
<1>3. uploadedSize[f] \in Nat /\ Cardinality(Sends(f)) \in Nat
  BY FS_CardinalityType DEF UploadInv, UploadTypeOK, AckInv, SendsCounted
<1>4. uploadedSize[f] + Cardinality(TransitOf(requests', f)) <= Cardinality(Sends(f))
  BY <1>1, <1>3 DEF AckInv, SendsCounted
<1>5. SendsCounted(f)'
  BY <1>2, <1>4 DEF AckInv, SendsCounted, TransitOf
<1>6. QED BY <1>5 DEF AckInv, AcksCounted

\* A part is sent: one more sent, one more in transit.
LEMMA AckSendPart ==
    ASSUME UploadInv, AckInv, NEW f \in File, NEW k \in Part(f), SendPart(f, k)
    PROVE  AckInv'
<1> DEFINE q == Request("addFilePart", f, k, sent[f][k] + 1)
<1> DEFINE new == <<k, sent[f][k] + 1>>
<1>1. q.file = f /\ requests' = requests \cup {q}
  BY DEF Request, SendPart
<1> HIDE DEF q
<1> SUFFICES ASSUME NEW g \in File PROVE AcksCounted(g)' /\ SendsCounted(g)'
  BY DEF AckInv
<1>2. UNCHANGED <<uploadedSize, acked, finished>>
  BY DEF SendPart, uploadVars, entryVars
<1>3. /\ uploadedSize[g] \in Nat /\ IsFiniteSet(requests)
      /\ IsFiniteSet(Sends(g)) /\ Cardinality(Sends(g)) \in Nat
      /\ uploadedSize[g] + Cardinality(TransitOf(requests, g)) <= Cardinality(Sends(g))
  BY FS_CardinalityType DEF UploadInv, UploadTypeOK, Counted, AckInv, SendsCounted
<1>4. IsFiniteSet(TransitOf(requests, g)) /\ Cardinality(TransitOf(requests, g)) \in Nat
  BY <1>3, FS_Subset, FS_CardinalityType DEF TransitOf
<1>5. CASE g = f
  <2>1. sent[f][k] \in Nat /\ \A j \in Part(f) : sent[f][j] \in Nat
    BY DEF UploadInv, UploadTypeOK
  <2>2. \A j \in Part(f) : sent'[f][j] = IF j = k THEN sent[f][k] + 1 ELSE sent[f][j]
    BY DEF SendPart, UploadInv, UploadTypeOK
  <2>3. Sends(f)' = Sends(f) \cup {new}
    <3>1. \A j \in Part(f), t \in Nat :
            t \in 1..sent'[f][j] <=> t \in 1..sent[f][j] \/ (j = k /\ t = sent[f][k] + 1)
      BY <2>1, <2>2
    <3>2. sent[f][k] + 1 \in Nat
      BY <2>1
    <3>3. QED BY <3>1, <3>2 DEF Sends
  <2>4. new \notin Sends(f)
    BY <2>1 DEF Sends
  <2> HIDE DEF new
  <2>5. IsFiniteSet(Sends(f)') /\ Cardinality(Sends(f)') = Cardinality(Sends(f)) + 1
    BY <1>3, <1>5, <2>3, <2>4, FS_AddElement
  <2>6. TransitOf(requests', f) \subseteq TransitOf(requests, f) \cup {q}
    BY <1>1 DEF TransitOf
  <2>7. /\ Cardinality(TransitOf(requests', f)) \in Nat
        /\ Cardinality(TransitOf(requests', f)) <= Cardinality(TransitOf(requests, f)) + 1
    <3>1. TransitOf(requests', f) \subseteq (TransitOf(requests, f) \ {q}) \cup {q}
      BY <2>6
    <3>2. QED BY <1>4, <1>5, <3>1, CardinalityMoves
  <2>8. uploadedSize[f] + Cardinality(TransitOf(requests', f)) <= Cardinality(Sends(f)')
    BY <1>3, <1>4, <1>5, <2>5, <2>7
  <2>9. SendsCounted(f)'
    BY <1>2, <2>5, <2>8 DEF SendsCounted, TransitOf
  <2>10. QED BY <1>2, <1>5, <2>9 DEF AckInv, AcksCounted
<1>6. CASE g # f
  <2>1. Sends(g)' = Sends(g)
    BY <1>6 DEF Sends, SendPart, UploadInv, UploadTypeOK
  <2>2. TransitOf(requests', g) = TransitOf(requests, g)
    BY <1>1, <1>6 DEF TransitOf
  <2>3. SendsCounted(g)'
    BY <1>2, <1>3, <2>1, <2>2 DEF SendsCounted, TransitOf
  <2>4. QED BY <1>2, <2>3 DEF AckInv, AcksCounted
<1>7. QED BY <1>5, <1>6

\* A part is counted, and acknowledged unless its upload is complete.
LEMMA AckComplete ==
    ASSUME UploadInv, AckInv, NEW r \in requests, SetUploadPartCompletedAndUpdateSize(r)
    PROVE  AckInv'
<1> DEFINE f == r.file
<1> DEFINE complete == IsComplete(uploadedSize[f] + 1, f)
<1>1. /\ f \in File /\ InTransit(r) /\ uploadedSize \in [File -> Nat] /\ IsFiniteSet(requests)
      /\ DOMAIN acked = File
  BY DEF UploadInv, UploadTypeOK, RequestType, Counted, InTransit, SetUploadPartCompletedAndUpdateSize
<1>2. /\ uploadedSize' = [uploadedSize EXCEPT ![f] = @ + 1]
      /\ UNCHANGED <<sent, finished>>
  BY DEF SetUploadPartCompletedAndUpdateSize, entryVars
<1>3. \/ complete /\ UNCHANGED acked
      \/ ~complete /\ acked' = [acked EXCEPT ![f] = @ \cup {r.part}]
  BY DEF SetUploadPartCompletedAndUpdateSize, Acknowledge
<1>4. PICK q : q.file = f /\ ~InTransit(q) /\ requests' \subseteq (requests \ {r}) \cup {q}
  <2> DEFINE list == WithFirst(parts[f], r.part, "completed", Chunks(f)[r.part])
  <2> DEFINE q == [r EXCEPT !.at = "finish", !.list = list]
  <2>1. requests' \subseteq (requests \ {r}) \cup {q}
    BY DEF SetUploadPartCompletedAndUpdateSize, Becomes, Ends
  <2>2. q.file = f /\ ~InTransit(q)
    <3>1. r \in RequestType
      BY DEF UploadInv, UploadTypeOK
    <3>2. PICK l : l = list
      OBVIOUS
    <3>3. q = [r EXCEPT !.at = "finish", !.list = l]
      BY <3>2
    <3> HIDE DEF q, list
    <3>4. q.file = f /\ q.at = "finish"
      BY <3>1, <3>3 DEF RequestType
    <3>5. QED BY <3>4 DEF InTransit
  <2>3. QED BY <2>1, <2>2
<1> HIDE DEF f
<1> SUFFICES ASSUME NEW g \in File PROVE AcksCounted(g)' /\ SendsCounted(g)'
  BY DEF AckInv
<1>5. /\ uploadedSize[g] \in Nat /\ NumParts[g] \in Nat \ {0}
      /\ uploadedSize'[g] = IF g = f THEN uploadedSize[g] + 1 ELSE uploadedSize[g]
  BY <1>1, <1>2, UploadAssumption
<1>6. SendsCounted(g)'
  <2>1. Sends(g)' = Sends(g)
    BY <1>2 DEF Sends
  <2>2. /\ Cardinality(TransitOf(requests, g)) \in Nat
        /\ Cardinality(TransitOf(requests', g)) \in Nat
        /\ Cardinality(TransitOf(requests', g)) <= Cardinality(TransitOf(requests, g))
        /\ g = f => Cardinality(TransitOf(requests', g)) + 1 <= Cardinality(TransitOf(requests, g))
    BY <1>1, <1>4, TransitMoves DEF f
  <2>3. /\ IsFiniteSet(Sends(g)) /\ Cardinality(Sends(g)) \in Nat
        /\ uploadedSize[g] + Cardinality(TransitOf(requests, g)) <= Cardinality(Sends(g))
    BY FS_CardinalityType DEF AckInv, SendsCounted
  <2>4. uploadedSize'[g] + Cardinality(TransitOf(requests', g)) <= Cardinality(Sends(g))
    BY <1>5, <2>2, <2>3
  <2>5. QED BY <2>1, <2>3, <2>4 DEF SendsCounted, TransitOf
<1>7. AcksCounted(g)'
  <2>1. /\ IsFiniteSet(acked[g]) /\ Cardinality(acked[g]) \in Nat
        /\ ~finished[g] => Cardinality(acked[g]) <= uploadedSize[g]
        /\ ~finished[g] /\ uploadedSize[g] >= NumParts[g] => Cardinality(acked[g]) + 1 <= uploadedSize[g]
    BY FS_CardinalityType DEF AckInv, AcksCounted
  <2>2. CASE g = f /\ ~complete
    <3>1. acked'[g] = acked[g] \cup {r.part}
      BY <1>1, <1>3, <2>2
    <3>2. /\ IsFiniteSet(acked'[g])
          /\ Cardinality(acked'[g]) = IF r.part \in acked[g] THEN Cardinality(acked[g])
                                                             ELSE Cardinality(acked[g]) + 1
      <4>1. /\ IsFiniteSet(acked[g] \cup {r.part})
            /\ Cardinality(acked[g] \cup {r.part}) =
                 IF r.part \in acked[g] THEN Cardinality(acked[g]) ELSE Cardinality(acked[g]) + 1
        BY <2>1, FS_AddElement
      <4>2. QED BY <3>1, <4>1
    <3>3. uploadedSize[g] + 1 # NumParts[g]
      BY <2>2 DEF IsComplete
    <3>4. /\ ~finished[g] => Cardinality(acked'[g]) <= uploadedSize'[g]
          /\ ~finished[g] /\ uploadedSize'[g] >= NumParts[g] => Cardinality(acked'[g]) + 1 <= uploadedSize'[g]
      BY <1>5, <2>1, <2>2, <3>2, <3>3
    <3>5. QED BY <1>2, <3>2, <3>4 DEF AcksCounted
  <2>3. CASE ~(g = f /\ ~complete)
    <3>1. acked'[g] = acked[g]
      BY <1>1, <1>3, <2>3
    <3>2. /\ ~finished[g] => Cardinality(acked[g]) <= uploadedSize'[g]
          /\ ~finished[g] /\ uploadedSize'[g] >= NumParts[g] => Cardinality(acked[g]) + 1 <= uploadedSize'[g]
      BY <1>5, <2>1
    <3>3. QED BY <1>2, <2>1, <3>1, <3>2 DEF AcksCounted
  <2>4. QED BY <2>2, <2>3
<1>8. QED BY <1>6, <1>7

\* The part that completed the upload is acknowledged: the file is marked.
LEMMA AckFinish ==
    ASSUME UploadInv, AckInv, NEW r \in requests, FileUploadFinishedAt(r)
    PROVE  AckInv'
<1> DEFINE q == [r EXCEPT !.op = "analyzeUpload", !.at = "analyze"]
<1>1. /\ r \in RequestType /\ r.file \in File /\ DOMAIN acked = File /\ finished \in [File -> BOOLEAN]
      /\ IsFiniteSet(requests)
  BY DEF UploadInv, UploadTypeOK, RequestType, Counted
<1>2. /\ finished' = [finished EXCEPT ![r.file] = TRUE]
      /\ acked' = [acked EXCEPT ![r.file] = @ \cup {r.part}]
      /\ UNCHANGED <<uploadedSize, sent>>
      /\ requests' \subseteq (requests \ {r}) \cup {q}
  BY DEF FileUploadFinishedAt, Acknowledge, Becomes, uploadVars
<1>3. q.file = r.file /\ ~InTransit(q)
  BY <1>1 DEF RequestType, InTransit
<1> HIDE DEF q
<1> SUFFICES ASSUME NEW g \in File PROVE AcksCounted(g)' /\ SendsCounted(g)'
  BY DEF AckInv
<1>4. SendsCounted(g)'
  <2>1. Sends(g)' = Sends(g)
    BY <1>2 DEF Sends
  <2>2. /\ Cardinality(TransitOf(requests, g)) \in Nat
        /\ Cardinality(TransitOf(requests', g)) \in Nat
        /\ Cardinality(TransitOf(requests', g)) <= Cardinality(TransitOf(requests, g))
    BY <1>1, <1>2, <1>3, TransitMoves
  <2>3. /\ IsFiniteSet(Sends(g)) /\ Cardinality(Sends(g)) \in Nat /\ uploadedSize[g] \in Nat
        /\ uploadedSize[g] + Cardinality(TransitOf(requests, g)) <= Cardinality(Sends(g))
    BY FS_CardinalityType DEF AckInv, SendsCounted, UploadInv, UploadTypeOK
  <2>4. uploadedSize'[g] + Cardinality(TransitOf(requests', g)) <= Cardinality(Sends(g))
    BY <1>2, <2>2, <2>3
  <2>5. QED BY <2>1, <2>3, <2>4 DEF SendsCounted, TransitOf
<1>5. AcksCounted(g)'
  <2>1. CASE g = r.file
    <3>1. finished'[g] /\ acked'[g] = acked[g] \cup {r.part}
      BY <1>1, <1>2, <2>1
    <3>2. IsFiniteSet(acked'[g])
      <4>1. IsFiniteSet(acked[g])
        BY DEF AckInv, AcksCounted
      <4>2. IsFiniteSet(acked[g] \cup {r.part})
        BY <4>1, FS_AddElement
      <4>3. QED BY <3>1, <4>2
    <3>3. QED BY <3>1, <3>2 DEF AcksCounted
  <2>2. CASE g # r.file
    BY <1>1, <1>2, <2>2 DEF AckInv, AcksCounted
  <2>3. QED BY <2>1, <2>2
<1>6. QED BY <1>4, <1>5

\* Among the handlers' steps only those that count or finish change the counts.
LEMMA AckHandler ==
    ASSUME UploadInv, AckInv, NEW r \in requests, HandlerStep(r)
    PROVE  AckInv'
<1> USE DEF entryVars, uploadVars, clientVars
<1>1. r \in RequestType
  BY DEF UploadInv, UploadTypeOK
<1>2. ASSUME NEW at, Becomes(r, [r EXCEPT !.at = at]), InTransit(r) \/ r.op = "addFile",
             UNCHANGED <<uploadedSize, sent, acked, finished>>
      PROVE  AckInv'
  <2> DEFINE q == [r EXCEPT !.at = at]
  <2>1. q.file = r.file /\ q.op = r.op /\ requests' \subseteq (requests \ {r}) \cup {q}
    BY <1>1, <1>2 DEF RequestType, Becomes
  <2> HIDE DEF q
  <2>2. InTransit(q) => InTransit(r)
    BY <1>2, <2>1 DEF InTransit
  <2>3. QED BY <1>2, <2>1, <2>2, AckKept
<1>3. ASSUME Ends(r), UNCHANGED <<uploadedSize, sent, acked, finished>>
      PROVE  AckInv'
  <2>1. requests' \subseteq (requests \ {r}) \cup {r}
    BY <1>3 DEF Ends
  <2>2. QED BY <1>3, <2>1, AckKept
<1>4. CASE FindWorkspace(r)
  BY <1>2, <1>3, <1>4 DEF FindWorkspace
<1>5. CASE PushFile(r)
  BY <1>3, <1>5 DEF PushFile
<1>6. CASE FindUpload(r)
  <2>1. PICK at, id : Becomes(r, [r EXCEPT !.at = at, !.s3 = id])
    BY <1>6 DEF FindUpload
  <2> DEFINE q == [r EXCEPT !.at = at, !.s3 = id]
  <2>2. q.file = r.file /\ requests' \subseteq (requests \ {r}) \cup {q}
    BY <1>1, <2>1 DEF RequestType, Becomes
  <2> HIDE DEF q
  <2>3. InTransit(r) /\ UNCHANGED <<uploadedSize, sent, acked, finished>>
    BY <1>6 DEF FindUpload, InTransit
  <2>4. QED BY <2>2, <2>3, AckKept
<1>7. CASE CreateS3MultipartUpload(r)
  <2>1. InTransit(r)
    BY <1>7 DEF CreateS3MultipartUpload, InTransit
  <2>2. QED BY <1>2, <1>7, <2>1 DEF CreateS3MultipartUpload
<1>8. CASE AddPartToUpload(r)
  <2>1. InTransit(r)
    BY <1>8 DEF AddPartToUpload, InTransit
  <2>2. QED BY <1>2, <1>8, <2>1 DEF AddPartToUpload
<1>9. CASE StorePart(r)
  <2>1. InTransit(r)
    BY <1>9 DEF StorePart, InTransit
  <2>2. QED BY <1>2, <1>9, <2>1 DEF StorePart
<1>10. CASE StorePartFails(r)
  <2>1. InTransit(r)
    BY <1>10 DEF StorePartFails, InTransit
  <2>2. QED BY <1>2, <1>10, <2>1 DEF StorePartFails
<1>11. CASE SetUploadPartFailed(r)
  BY <1>3, <1>11 DEF SetUploadPartFailed
<1>12. CASE SetUploadPartCompletedAndUpdateSize(r)
  BY <1>12, AckComplete
<1>13. CASE FinishMultiPartUpload(r)
  <2> DEFINE q == [r EXCEPT !.at = "mark", !.list = <<>>]
  <2>1. q.file = r.file /\ q.at = "mark" /\ requests' \subseteq (requests \ {r}) \cup {q}
    BY <1>1, <1>13 DEF RequestType, Becomes, FinishMultiPartUpload
  <2> HIDE DEF q
  <2>2. ~InTransit(q) /\ UNCHANGED <<uploadedSize, sent, acked, finished>>
    BY <1>13, <2>1 DEF FinishMultiPartUpload, InTransit
  <2>3. QED BY <2>1, <2>2, AckKept
<1>14. CASE FinishRefused(r)
  BY <1>3, <1>14 DEF FinishRefused
<1>15. CASE FileUploadFinishedAt(r)
  BY <1>15, AckFinish
<1>16. CASE AnalyzeUpload(r)
  <2>1. PICK m : Becomes(r, [r EXCEPT !.at = "describe", !.metadata = m])
    BY <1>16 DEF AnalyzeUpload
  <2> DEFINE q == [r EXCEPT !.at = "describe", !.metadata = m]
  <2>2. q.file = r.file /\ q.at = "describe" /\ requests' \subseteq (requests \ {r}) \cup {q}
    BY <1>1, <2>1 DEF RequestType, Becomes
  <2> HIDE DEF q
  <2>3. ~InTransit(q) /\ UNCHANGED <<uploadedSize, sent, acked, finished>>
    BY <1>16, <2>2 DEF AnalyzeUpload, InTransit
  <2>4. QED BY <2>2, <2>3, AckKept
<1>17. CASE AddMetadataToFile(r)
  BY <1>3, <1>17 DEF AddMetadataToFile
<1>18. QED BY <1>4, <1>5, <1>6, <1>7, <1>8, <1>9, <1>10, <1>11, <1>12, <1>13, <1>14, <1>15, <1>16,
              <1>17 DEF HandlerStep

\* Every step keeps the counts.
LEMMA AckStep == UploadInv /\ AckInv /\ [Next]_vars => AckInv'
<1> SUFFICES ASSUME UploadInv, AckInv, [Next]_vars PROVE AckInv'
  OBVIOUS
<1> USE DEF entryVars, uploadVars, clientVars
<1>1. ASSUME NEW f \in File, SendAddFile(f) PROVE AckInv'
  <2>1. ~InTransit(Request("addFile", f, None, 1))
    BY DEF Request, InTransit
  <2>2. \A g \in File : TransitOf(requests', g) = TransitOf(requests, g)
    BY <1>1, <2>1 DEF SendAddFile, TransitOf
  <2>3. \A g \in File : Sends(g)' = Sends(g)
    BY <1>1 DEF SendAddFile, Sends
  <2>4. UNCHANGED <<uploadedSize, acked, finished>>
    BY <1>1 DEF SendAddFile
  <2>5. QED BY <2>2, <2>3, <2>4 DEF AckInv, AcksCounted, SendsCounted, TransitOf
<1>2. ASSUME NEW f \in File, NEW k \in Part(f), SendPart(f, k) PROVE AckInv'
  BY <1>2, AckSendPart
<1>3. ASSUME NEW r \in requests, HandlerStep(r) PROVE AckInv'
  BY <1>3, AckHandler
<1>4. CASE Restart
  <2>1. PICK r \in requests : TRUE
    BY <1>4 DEF Restart
  <2>2. requests' \subseteq (requests \ {r}) \cup {r}
    BY <1>4 DEF Restart
  <2>3. QED BY <1>4, <2>2, AckKept DEF Restart
<1>5. CASE UNCHANGED vars
  BY <1>5 DEF vars, AckInv, AcksCounted, SendsCounted, Sends, TransitOf
<1>6. CASE Done
  BY <1>5, <1>6 DEF Done
<1>7. QED BY <1>1, <1>2, <1>3, <1>4, <1>5, <1>6 DEF Next

\* A client that has sent each part once has sent as many as there are parts.
LEMMA SentOnce ==
    ASSUME NEW f \in File, \A k \in Part(f) : sent[f][k] = 1
    PROVE  Cardinality(Sends(f)) = NumParts[f] /\ Cardinality(Part(f)) = NumParts[f]
<1> DEFINE once == [k \in Part(f) |-> <<k, 1>>]
<1>1. NumParts[f] \in Nat
  BY UploadAssumption
<1>2. IsFiniteSet(Part(f)) /\ Cardinality(Part(f)) = NumParts[f]
  BY <1>1, FS_Interval DEF Part
<1>3. Sends(f) = {<<k, 1>> : k \in Part(f)}
  BY DEF Sends
<1>4. once \in [Part(f) -> Sends(f)] /\ \A k \in Part(f) : once[k] = <<k, 1>>
  BY <1>3
<1> HIDE DEF once
<1>5. once \in Injection(Part(f), Sends(f))
  BY <1>4 DEF Injection, IsInjective
<1>6. once \in Surjection(Part(f), Sends(f))
  BY <1>3, <1>4 DEF Surjection
<1>7. Cardinality(Sends(f)) = Cardinality(Part(f))
  BY <1>2, <1>5, <1>6, FS_Surjection
<1>8. QED BY <1>2, <1>7

\* A client that sent every part once and had each answered with success finds its
\* file finished and stored, whatever the order of the parts and the handlers.
THEOREM AcknowledgedIsFinished == Spec => []AcknowledgedUploadIsFinished
<1>1. UploadInv /\ AckInv => AcknowledgedUploadIsFinished
  <2>1. SUFFICES ASSUME UploadInv, AckInv, NEW f \in File, acked[f] = Part(f),
                        \A k \in Part(f) : sent[f][k] = 1
                 PROVE  finished[f] /\ object[NameOf[f]] # None
    BY DEF AcknowledgedUploadIsFinished
  <2>2. finished[f] => object[NameOf[f]] # None
    BY <2>1 DEF UploadInv, EntriesSound
  <2>3. SUFFICES ASSUME ~finished[f] PROVE FALSE
    BY <2>2
  <2>4. Cardinality(Sends(f)) = NumParts[f] /\ Cardinality(acked[f]) = NumParts[f]
    BY <2>1, SentOnce
  <2>5. /\ NumParts[f] \in Nat /\ uploadedSize[f] \in Nat
        /\ Cardinality(TransitOf(requests, f)) \in Nat
    BY <2>1, FS_Subset, FS_CardinalityType, UploadAssumption
       DEF UploadInv, UploadTypeOK, Counted, TransitOf
  <2>6. uploadedSize[f] + Cardinality(TransitOf(requests, f)) <= NumParts[f]
    BY <2>1, <2>4 DEF AckInv, SendsCounted
  <2>7. /\ NumParts[f] <= uploadedSize[f]
        /\ uploadedSize[f] >= NumParts[f] => NumParts[f] + 1 <= uploadedSize[f]
    BY <2>1, <2>3, <2>4 DEF AckInv, AcksCounted
  <2>8. QED BY <2>5, <2>6, <2>7
<1>2. QED BY <1>1, AckInit, AckStep, UploadInvAlways, PTL DEF Spec
=============================================================================
