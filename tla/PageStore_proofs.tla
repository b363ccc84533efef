-------------------------- MODULE PageStore_proofs --------------------------
(***************************************************************************)
(* Proofs about the page loader, for every set of pages, files, lists and  *)
(* every number of requests, in a browser that has AbortController.        *)
(*                                                                         *)
(* That the metadata in the store belongs to the list that is shown is not *)
(* inductive: a loader writes by position, so nothing but the aborts and   *)
(* the comparison of lastRequestId keeps a loader of another list from     *)
(* writing.  IInv says what these two give: the store knows the one loader *)
(* that is not aborted, no such loader runs while the last request still   *)
(* builds its chunks, and a request that is not made yet has no state.     *)
(*                                                                         *)
(* Of the pages that live in the client LoadInv says more: who has set the *)
(* loading flag, which controller a demand was made on, and which files it *)
(* still waits for.                                                        *)
(***************************************************************************)
EXTENDS PageStore, Induction, SequenceTheorems

(***************************************************************************)
(* The lists: what the code's filter and Object.values() make of an array  *)
(* (Pick), and how chunks are numbered.                                    *)
(***************************************************************************)

(* How many elements of I are not above i. *)
Rank(I, i) == Cardinality({j \in I : j <= i})

(* Where I ends no later than n, its parts are finite. *)
LEMMA PartsFinite ==
  ASSUME NEW n \in Nat, NEW I \in SUBSET (1..n)
  PROVE  /\ IsFiniteSet(I)
         /\ Cardinality(I) \in Nat
         /\ \A J \in SUBSET I : IsFiniteSet(J) /\ Cardinality(J) \in Nat
<1>1. IsFiniteSet(1..n)
  BY FS_Interval
<1>2. IsFiniteSet(I)
  BY <1>1, FS_Subset
<1> QED
  BY <1>2, FS_Subset, FS_CardinalityType

(* The rank grows by one at an element and stays elsewhere. *)
LEMMA RankStep ==
  ASSUME NEW n \in Nat, NEW I \in SUBSET (1..n), NEW i \in Nat
  PROVE  /\ Rank(I, i) \in Nat
         /\ Rank(I, i + 1) = IF i + 1 \in I THEN Rank(I, i) + 1 ELSE Rank(I, i)
<1> DEFINE J == {j \in I : j <= i}
<1>1. \A j \in I : j \in Int /\ 1 <= j /\ j <= n
  OBVIOUS
<1>2. IsFiniteSet(J) /\ Cardinality(J) \in Nat
  BY PartsFinite
<1>3. CASE i + 1 \in I
  <2>1. {j \in I : j <= i + 1} = J \cup {i + 1}
    <3>1. \A j \in I : j <= i + 1 <=> j <= i \/ j = i + 1
      BY <1>1
    <3> QED
      BY <1>3, <3>1
  <2>2. i + 1 \notin J
    BY <1>1
  <2> QED
    BY <1>2, <1>3, <2>1, <2>2, FS_AddElement DEF Rank
<1>4. CASE i + 1 \notin I
  <2>1. {j \in I : j <= i + 1} = J
    <3>1. \A j \in I : j <= i + 1 <=> j <= i
      BY <1>1, <1>4
    <3> QED
      BY <3>1
  <2> QED
    BY <1>2, <1>4, <2>1 DEF Rank
<1> QED
  BY <1>3, <1>4

(* Every number up to the cardinality is the rank of an element. *)
LEMMA NthProperties ==
  ASSUME NEW n \in Nat, NEW I \in SUBSET (1..n), NEW k \in 1..Cardinality(I)
  PROVE  Nth(I, k) \in I /\ Rank(I, Nth(I, k)) = k
<1> DEFINE T == {i \in Nat : Rank(I, i) >= k}
<1>1. \A j \in I : j \in Int /\ 1 <= j /\ j <= n
  OBVIOUS
<1>2. Cardinality(I) \in Nat
  BY PartsFinite
<1>3. n \in T
  <2>1. {j \in I : j <= n} = I
    BY <1>1
  <2> QED
    BY <1>2, <2>1 DEF Rank
<1>4. PICK i \in T : \A j \in T : i <= j
  BY <1>3, LeastNatural
<1>5. i # 0
  <2>1. {j \in I : j <= 0} = {}
    <3>1. \A j \in I : ~ (j <= 0)
      BY <1>1
    <3> QED
      BY <3>1
  <2>2. Rank(I, 0) = 0
    BY <2>1, FS_EmptySet DEF Rank
  <2> QED
    BY <1>2, <1>4, <2>2
<1>6. i - 1 \in Nat /\ i - 1 \notin T /\ i = (i - 1) + 1
  BY <1>4, <1>5
<1>7. Rank(I, i - 1) \in Nat /\ Rank(I, i - 1) < k
  <2>1. Rank(I, i - 1) \in Nat
    BY <1>6, RankStep
  <2>2. ~ (Rank(I, i - 1) >= k)
    BY <1>6
  <2> QED
    BY <1>2, <2>1, <2>2
<1>8. Rank(I, i) = IF i \in I THEN Rank(I, i - 1) + 1 ELSE Rank(I, i - 1)
  BY <1>6, RankStep
<1>9. i \in I /\ Rank(I, i) = k
  BY <1>2, <1>4, <1>7, <1>8
<1> QED
  BY <1>9 DEF Nth, Rank

(* Two elements have two ranks. *)
LEMMA RankInjective ==
  ASSUME NEW n \in Nat, NEW I \in SUBSET (1..n), NEW i \in I, NEW j \in I,
         Rank(I, i) = Rank(I, j)
  PROVE  i = j
<1>1. \A x \in I : x \in Int /\ 1 <= x /\ x <= n
  OBVIOUS
<1>2. ASSUME NEW a \in I, NEW b \in I, a < b
      PROVE  Rank(I, a) # Rank(I, b)
  <2> DEFINE A == {x \in I : x <= a}
             B == {x \in I : x <= b}
  <2>1. A \in SUBSET B /\ A # B
    <3>1. b \in B /\ b \notin A
      BY <1>1, <1>2
    <3>2. \A x \in I : x <= a => x <= b
      BY <1>1, <1>2
    <3> QED
      BY <3>1, <3>2
  <2>2. IsFiniteSet(B)
    BY PartsFinite
  <2> QED
    BY <2>1, <2>2, FS_Subset DEF Rank
<1> QED
  BY <1>1, <1>2

(* So the k-th element of every rank is hit exactly once. *)
LEMMA NthOfRank ==
  ASSUME NEW n \in Nat, NEW I \in SUBSET (1..n), NEW i \in I
  PROVE  Rank(I, i) \in 1..Cardinality(I) /\ Nth(I, Rank(I, i)) = i
<1> DEFINE J == {j \in I : j <= i}
<1>1. IsFiniteSet(I) /\ Cardinality(I) \in Nat /\ IsFiniteSet(J) /\ Cardinality(J) \in Nat
  BY PartsFinite
<1>2. Cardinality(J) <= Cardinality(I)
  BY <1>1, FS_Subset
<1>3. Cardinality(J) # 0
  BY <1>1, FS_EmptySet
<1>4. Rank(I, i) \in 1..Cardinality(I)
  BY <1>1, <1>2, <1>3 DEF Rank
<1> QED
  BY <1>4, NthProperties, RankInjective
(* The k-th elements come in the order of the elements. *)
LEMMA NthMonotonic ==
  ASSUME NEW n \in Nat, NEW I \in SUBSET (1..n),
         NEW j \in 1..Cardinality(I), NEW k \in 1..Cardinality(I), j < k
  PROVE  Nth(I, j) < Nth(I, k)
<1> DEFINE a == Nth(I, j)
           b == Nth(I, k)
           A == {x \in I : x <= a}
           B == {x \in I : x <= b}
<1>1. /\ a \in I /\ Rank(I, a) = j
      /\ b \in I /\ Rank(I, b) = k
  BY NthProperties
<1>2. Cardinality(A) = j /\ Cardinality(B) = k
  BY <1>1 DEF Rank
<1>3. \A x \in I : x \in Int /\ 1 <= x /\ x <= n
  OBVIOUS
<1>4. j \in Int /\ k \in Int
  OBVIOUS
<1> HIDE DEF a, b
<1>5. SUFFICES ASSUME ~ (a < b)
               PROVE  FALSE
  BY DEF a, b
<1>6. B \in SUBSET A
  <2>1. b <= a
    BY <1>1, <1>3, <1>5
  <2>2. \A x \in I : x <= b => x <= a
    BY <1>1, <1>3, <2>1
  <2> QED
    BY <2>2
<1>7. IsFiniteSet(A)
  BY PartsFinite
<1>8. Cardinality(B) <= Cardinality(A)
  BY <1>6, <1>7, FS_Subset
<1> QED
  BY <1>2, <1>4, <1>8

-----------------------------------------------------------------------------
(* Pick(q, I) is a list, of as many elements as I has: those at I, each. *)
LEMMA PickProperties ==
  ASSUME NEW n \in Nat, NEW I \in SUBSET (1..n), NEW S, NEW q,
         \A i \in I : q[i] \in S
  PROVE  /\ Pick(q, I) \in Seq(S)
         /\ Len(Pick(q, I)) = Cardinality(I)
         /\ DOMAIN Pick(q, I) = 1..Cardinality(I)
         /\ \A k \in 1..Cardinality(I) :
              Nth(I, k) \in I /\ Pick(q, I)[k] = q[Nth(I, k)]
         /\ \A i \in I : \E k \in 1..Cardinality(I) : Pick(q, I)[k] = q[i]
<1>1. Cardinality(I) \in Nat
  BY PartsFinite
<1>2. \A k \in 1..Cardinality(I) : Nth(I, k) \in I
  BY NthProperties
<1>3. \A k \in 1..Cardinality(I) : Pick(q, I)[k] = q[Nth(I, k)]
  BY DEF Pick
<1>4. Pick(q, I) \in [1..Cardinality(I) -> S]
  BY <1>2 DEF Pick
<1>5. Pick(q, I) \in Seq(S) /\ Len(Pick(q, I)) = Cardinality(I)
  BY <1>1, <1>4
<1>6. \A i \in I : \E k \in 1..Cardinality(I) : Pick(q, I)[k] = q[i]
  BY <1>3, NthOfRank
<1>7. DOMAIN Pick(q, I) = 1..Cardinality(I)
  BY DEF Pick
<1> QED
  BY <1>2, <1>3, <1>5, <1>6, <1>7

(* It names nothing twice where q does not. *)
LEMMA PickDistinct ==
  ASSUME NEW n \in Nat, NEW I \in SUBSET (1..n), NEW q,
         \A i, j \in I : q[i] = q[j] => i = j
  PROVE  \A k, m \in 1..Cardinality(I) :
            Pick(q, I)[k] = Pick(q, I)[m] => k = m
<1> SUFFICES ASSUME NEW k \in 1..Cardinality(I), NEW m \in 1..Cardinality(I),
                    Pick(q, I)[k] = Pick(q, I)[m]
             PROVE  k = m
  OBVIOUS
<1>1. Nth(I, k) \in I /\ Rank(I, Nth(I, k)) = k
  BY NthProperties
<1>2. Nth(I, m) \in I /\ Rank(I, Nth(I, m)) = m
  BY NthProperties
<1>3. q[Nth(I, k)] = q[Nth(I, m)]
  BY DEF Pick
<1> QED
  BY <1>1, <1>2, <1>3

(* A list of files is a sequence of files, none of them twice. *)
LEMMA FileListType ==
  ASSUME NEW l \in FileList
  PROVE  /\ l \in Seq(File)
         /\ Len(l) \in Nat
         /\ DOMAIN l = 1..Len(l)
         /\ \A i \in 1..Len(l) : l[i] \in File
         /\ \A i, j \in 1..Len(l) : l[i] = l[j] => i = j
BY DEF FileList

(* Pick of a list of files. *)
LEMMA PickFileList ==
  ASSUME NEW l \in FileList, NEW I \in SUBSET (1..Len(l)), NEW q,
         \A i \in I : q[i] = l[i]
  PROVE  Pick(q, I) \in FileList
<1>1. Len(l) \in Nat /\ \A i \in I : q[i] \in File
  BY FileListType
<1>2. Pick(q, I) \in Seq(File) /\ Len(Pick(q, I)) = Cardinality(I)
  BY <1>1, PickProperties
<1>3. \A i, j \in I : q[i] = q[j] => i = j
  BY FileListType
<1>4. \A k, m \in 1..Cardinality(I) : Pick(q, I)[k] = Pick(q, I)[m] => k = m
  BY <1>1, <1>3, PickDistinct
<1> QED
  BY <1>2, <1>4 DEF FileList

(* The empty list is a list of files. *)
LEMMA EmptyFileList == <<>> \in FileList
BY DEF FileList

(* filter() of a list of files is one. *)
LEMMA WithoutFileList ==
  ASSUME NEW l \in FileList, NEW S
  PROVE  Without(l, S) \in FileList
BY PickFileList DEF Without

(* addFilesToPage appends a file the list does not have. *)
LEMMA AppendFileList ==
  ASSUME NEW l \in FileList, NEW f \in File, f \notin Elements(l)
  PROVE  Append(l, f) \in FileList
<1>1. Append(l, f) \in Seq(File) /\ Len(Append(l, f)) = Len(l) + 1
  BY FileListType
<1>2. \A i \in 1..(Len(l) + 1) :
        Append(l, f)[i] = IF i = Len(l) + 1 THEN f ELSE l[i]
  BY FileListType
<1>3. \A i \in 1..Len(l) : l[i] # f
  BY DEF Elements
<1>4. \A i \in 1..(Len(l) + 1) : i # Len(l) + 1 => i \in 1..Len(l)
  BY FileListType
<1> QED
  BY <1>1, <1>2, <1>3, <1>4, FileListType DEF FileList

(* A sort of files is a list of files. *)
LEMMA OrdersFileList ==
  ASSUME NEW S \in SUBSET File, IsFiniteSet(S), NEW l \in Orders(S)
  PROVE  l \in FileList
<1>1. Cardinality(S) \in Nat
  BY FS_CardinalityType
<1>2. l \in [1..Cardinality(S) -> File] /\ DOMAIN l = 1..Cardinality(S)
  BY DEF Orders
<1>3. l \in Seq(File) /\ Len(l) = Cardinality(S)
  BY <1>1, <1>2
<1> QED
  BY <1>2, <1>3 DEF Orders, FileList

(* Moving chunks to the front of the queue loses none. *)
LEMMA ReorderedQueue ==
  ASSUME NEW q \in Seq(Nat), NEW cs
  PROVE  /\ Among(q, cs) \o Without(q, cs) \in Seq(Nat)
         /\ q # <<>> => Among(q, cs) \o Without(q, cs) # <<>>
<1> DEFINE A == {i \in 1..Len(q) : q[i] \in cs}
           B == {i \in 1..Len(q) : q[i] \notin cs}
<1>1. Len(q) \in Nat /\ \A i \in 1..Len(q) : q[i] \in Nat
  OBVIOUS
<1>2. Among(q, cs) \in Seq(Nat) /\ Len(Among(q, cs)) = Cardinality(A)
  BY <1>1, PickProperties DEF Among
<1>3. Without(q, cs) \in Seq(Nat) /\ Len(Without(q, cs)) = Cardinality(B)
  BY <1>1, PickProperties DEF Without
<1>4. ASSUME q # <<>>, Among(q, cs) \o Without(q, cs) = <<>>
      PROVE  FALSE
  <2>1. Among(q, cs) = <<>> /\ Without(q, cs) = <<>>
    BY <1>2, <1>3, <1>4, ConcatEqualIffEmpty
  <2>2. Cardinality(A) = 0 /\ Cardinality(B) = 0
    BY <1>2, <1>3, <2>1
  <2>3. IsFiniteSet(A) /\ IsFiniteSet(B)
    BY <1>1, PartsFinite
  <2>4. A = {} /\ B = {}
    BY <2>2, <2>3, FS_EmptySet
  <2>5. 1 \in 1..Len(q)
    BY <1>4
  <2> QED
    BY <2>4, <2>5
<1> QED
  BY <1>2, <1>3, <1>4

(* Chunks are numbered by naturals, and a list that is not empty has one. *)
LEMMA ChunkOfType ==
  ASSUME NEW i \in Nat \ {0}
  PROVE  ChunkOf(i) \in Nat
BY ConstantsAssumption DEF ChunkOf

(* Files are in chunks that have numbers. *)
LEMMA ChunksForType ==
  ASSUME NEW l \in FileList, NEW fs
  PROVE  ChunksFor(l, fs) \in SUBSET Nat
<1>1. \A i \in 1..Len(l) : i \in Nat \ {0}
  BY FileListType
<1> QED
  BY <1>1, ChunkOfType DEF ChunksFor

(* fileIdChunks after the shift of the first chunk. *)
LEMMA FirstQueueType ==
  ASSUME NEW l \in FileList
  PROVE  [k \in 1..(ChunkCount(l) - 1) |-> k + 1] \in Seq(Nat)
<1>1. Len(l) \in Nat
  BY FileListType
<1>2. ChunkCount(l) \in Nat
  BY <1>1, ConstantsAssumption DEF ChunkCount
<1>3. CASE ChunkCount(l) = 0
  <2>1. 1..(ChunkCount(l) - 1) = 1..0
    BY <1>3
  <2>2. [k \in 1..0 |-> k + 1] \in Seq(Nat)
    OBVIOUS
  <2> QED
    BY <2>1, <2>2
<1>4. CASE ChunkCount(l) # 0
  BY <1>2, <1>4
<1> QED
  BY <1>3, <1>4

(* What is at the positions I of f is what its Pick lists. *)
LEMMA PickElements ==
  ASSUME NEW n \in Nat, NEW I \in SUBSET (1..n), NEW q
  PROVE  /\ Len(Pick(q, I)) = Cardinality(I)
         /\ DOMAIN Pick(q, I) = 1..Cardinality(I)
         /\ \A k \in 1..Cardinality(I) : \E i \in I : Pick(q, I)[k] = q[i]
         /\ \A i \in I : \E k \in 1..Cardinality(I) : Pick(q, I)[k] = q[i]
<1>1. Cardinality(I) \in Nat
  BY PartsFinite
<1>2. DOMAIN Pick(q, I) = 1..Cardinality(I)
  BY DEF Pick
<1>3. Len(Pick(q, I)) = Cardinality(I)
  BY <1>1 DEF Pick
<1>4. ASSUME NEW k \in 1..Cardinality(I)
      PROVE  \E i \in I : Pick(q, I)[k] = q[i]
  <2>1. Nth(I, k) \in I
    BY NthProperties
  <2>2. Pick(q, I)[k] = q[Nth(I, k)]
    BY DEF Pick
  <2> QED
    BY <2>1, <2>2
<1>5. ASSUME NEW i \in I
      PROVE  \E k \in 1..Cardinality(I) : Pick(q, I)[k] = q[i]
  <2>1. Rank(I, i) \in 1..Cardinality(I) /\ Nth(I, Rank(I, i)) = i
    BY NthOfRank
  <2>2. Pick(q, I)[Rank(I, i)] = q[i]
    BY <2>1 DEF Pick
  <2> QED
    BY <2>1, <2>2
<1> QED
  BY <1>2, <1>3, <1>4, <1>5

(* Object.values() of an array that matches a list. *)
LEMMA CompactProperties ==
  ASSUME NEW l \in FileList, NEW f,
         \A i \in DOMAIN f : i \in 1..Len(l) /\ f[i] = l[i]
  PROVE  /\ Compact(f) \in FileList
         /\ DOMAIN Compact(f) = 1..Cardinality(DOMAIN f)
         /\ \A k \in DOMAIN Compact(f) : Nth(DOMAIN f, k) \in DOMAIN f
         /\ \A k \in DOMAIN Compact(f) : Compact(f)[k] = f[Nth(DOMAIN f, k)]
         /\ \A i \in DOMAIN f : \E k \in DOMAIN Compact(f) : Nth(DOMAIN f, k) = i
         /\ \A j, k \in DOMAIN Compact(f) :
              j < k => Nth(DOMAIN f, j) < Nth(DOMAIN f, k)
<1> DEFINE I == DOMAIN f
<1>1. I \in SUBSET (1..Len(l)) /\ Len(l) \in Nat /\ \A i \in I : f[i] = l[i]
  BY FileListType
<1>2. Compact(f) = Pick(f, I)
  BY DEF Compact
<1> HIDE DEF I
<1>3. Pick(f, I) \in FileList
  BY <1>1, PickFileList
<1>4. /\ DOMAIN Pick(f, I) = 1..Cardinality(I)
      /\ \A k \in 1..Cardinality(I) : Nth(I, k) \in I
      /\ \A k \in 1..Cardinality(I) : Pick(f, I)[k] = f[Nth(I, k)]
  BY <1>1, NthProperties DEF Pick
<1>5. \A i \in I : \E k \in 1..Cardinality(I) : Nth(I, k) = i
  BY <1>1, NthOfRank
<1>6. \A j, k \in 1..Cardinality(I) : j < k => Nth(I, j) < Nth(I, k)
  BY <1>1, NthMonotonic
<1> QED
  BY <1>2, <1>3, <1>4, <1>5, <1>6 DEF I
-----------------------------------------------------------------------------
(***************************************************************************)
(* The inductive invariant of the loader.                                  *)
(***************************************************************************)

(* A request that was not made yet has no state. *)
FutureUnused ==
  \A r \in Request : task[r].pc # "none" => r <= lastRequestId

(* The loader that is not aborted is the one the store can abort. *)
LiveOwnsAbort == \A r \in Live : r = abortOwner

(* While the last request builds its chunks nothing is loaded. *)
BuilderAlone ==
  \A r \in Request :
    task[r].pc = "build" /\ r = lastRequestId => Live = {}

(* A loader that waits has something left to load. *)
PausedHasQueue ==
  \A r \in Request : task[r].pc = "paused" => task[r].queue # <<>>

RequestId == Request \cup {NoRequest}

ViewOK ==
  /\ activePageKey \in Page
  /\ fileIds \in FileList
  /\ isLoadingFiles \in BOOLEAN
  /\ isLoadingPaused \in BOOLEAN
  /\ isLoadingAwake \in BOOLEAN
  /\ lastRequestId \in RequestId
  /\ abortOwner \in RequestId
  /\ loadController \in RequestId
  /\ task \in [Request -> TaskType]

LoaderOK ==
  /\ ViewOK
  /\ LoadedMatchesIds
  /\ FutureUnused
  /\ LiveOwnsAbort
  /\ LoaderShowsItsList
  /\ BuilderAlone
  /\ PausedHasQueue

SourcesOK ==
  /\ activePageKey \in VirtualPage => activePageKey \in DOMAIN virtualPages
  /\ DOMAIN virtualPages \subseteq VirtualPage
  /\ \A p \in DOMAIN virtualPages : virtualPages[p] \in FileList
  /\ searchResults \in FileList
  /\ refreshing \subseteq HydrusPage
  /\ demand \in [Demand -> DemandType]

(* The inductive invariant. *)
IInv == LoaderOK /\ SourcesOK

(* Requests are numbered from 1. *)
LEMMA RequestType ==
  /\ Request \subseteq Nat \ {0}
  /\ RequestId \subseteq Nat
  /\ NoRequest \notin Request
BY ConstantsAssumption DEF Request, RequestId, NoRequest

(* The locals of a request that was not made have their types. *)
LEMMA NoTaskType == NoTask \in TaskType
BY EmptyFileList DEF NoTask, TaskType, PC, Page
-----------------------------------------------------------------------------
(* Steps that start no loader and no builder: those that run keep their     *)
(* place, and where one is of the last request the view stays as it is.    *)
LEMMA NoLoaderStep ==
  ASSUME LoaderOK, ViewOK', LoadedMatchesIds', FutureUnused',
         lastRequestId' >= lastRequestId,
         lastRequestId' = lastRequestId => UNCHANGED view,
         \A q \in Request :
           /\ task'[q].pc = "build" => task[q].pc = "build"
           /\ task'[q].pc = "paused" => task'[q].queue # <<>>
           /\ q \in Live' =>
                /\ q \in Live
                /\ q = abortOwner'
                /\ task'[q].ids = task[q].ids
                /\ task'[q].page = task[q].page
                /\ task'[q].resolved = task[q].resolved
  PROVE  LoaderOK'
<1> USE RequestType
<1>1. lastRequestId \in Nat /\ lastRequestId' \in Nat
  BY DEF LoaderOK, ViewOK
<1>2. LiveOwnsAbort'
  BY DEF LiveOwnsAbort, Live, Loading
<1>3. LoaderShowsItsList'
  <2> SUFFICES ASSUME NEW q \in Live', Current(q)'
               PROVE  /\ fileIds' = task'[q].ids
                      /\ DOMAIN loadedFiles' =
                           UNION {Positions(task'[q].ids, c) : c \in task'[q].resolved}
    BY DEF LoaderShowsItsList
  <2>1. q \in Request
    BY DEF Live, Loading
  <2>2. q \in Live /\ q <= lastRequestId
    BY <2>1 DEF LoaderOK, FutureUnused, Live, Loading
  <2>3. lastRequestId' = lastRequestId /\ UNCHANGED view
    BY <1>1, <2>1, <2>2 DEF Current
  <2>4. Current(q)
    BY <2>1, <2>3 DEF Current, view
  <2>5. /\ fileIds = task[q].ids
        /\ DOMAIN loadedFiles =
             UNION {Positions(task[q].ids, c) : c \in task[q].resolved}
    BY <2>2, <2>4 DEF LoaderOK, LoaderShowsItsList
  <2>6. task'[q].ids = task[q].ids /\ task'[q].resolved = task[q].resolved
    BY <2>1
  <2>7. fileIds' = fileIds /\ loadedFiles' = loadedFiles
    BY <2>3 DEF view
  <2> QED
    BY <2>5, <2>6, <2>7
<1>4. BuilderAlone'
  <2> SUFFICES ASSUME NEW q \in Request, task'[q].pc = "build", q = lastRequestId'
               PROVE  Live' = {}
    BY DEF BuilderAlone
  <2>1. task[q].pc = "build" /\ q = lastRequestId
    BY <1>1 DEF LoaderOK, FutureUnused
  <2>2. Live = {}
    BY <2>1 DEF LoaderOK, BuilderAlone
  <2> QED
    BY <2>2 DEF Live, Loading
<1>5. PausedHasQueue'
  BY DEF PausedHasQueue
<1> QED
  BY <1>2, <1>3, <1>4, <1>5 DEF LoaderOK

(* Steps that leave the view and the number of the last request alone. *)
LEMMA QuietStep ==
  ASSUME LoaderOK, ViewOK', UNCHANGED <<view, lastRequestId>>,
         \A q \in Request :
           /\ task[q].pc = "none" => task'[q].pc = "none"
           /\ task'[q].pc = "build" => task[q].pc = "build"
           /\ task'[q].pc = "paused" => task'[q].queue # <<>>
           /\ q \in Live' =>
                /\ q \in Live
                /\ q = abortOwner'
                /\ task'[q].ids = task[q].ids
                /\ task'[q].page = task[q].page
                /\ task'[q].resolved = task[q].resolved
  PROVE  LoaderOK'
<1>1. LoadedMatchesIds'
  BY DEF LoaderOK, LoadedMatchesIds, view
<1>2. FutureUnused'
  BY DEF LoaderOK, FutureUnused
<1>3. lastRequestId' >= lastRequestId
  BY RequestType DEF LoaderOK, ViewOK
<1> QED
  BY <1>1, <1>2, <1>3, NoLoaderStep

(* Steps that stop every loader but that of the last request r, which at   *)
(* most starts to load the list that is shown.                             *)
LEMMA RestartStep ==
  ASSUME LoaderOK, ViewOK', LoadedMatchesIds',
         NEW r \in Request, lastRequestId' = r, r >= lastRequestId,
         \A q \in Request \ {r} :
           /\ task'[q].pc = task[q].pc
           /\ task'[q].queue = task[q].queue
           /\ task'[q].pc \in {"fetch", "paused"} => task'[q].aborted,
         task'[r].pc # "paused",
         task'[r].pc = "fetch" =>
           /\ abortOwner' = r
           /\ fileIds' = task'[r].ids
           /\ loadedFiles' = EmptyArray
           /\ task'[r].resolved = {}
  PROVE  LoaderOK'
<1> USE RequestType
<1>1. \A q \in Live' : q = r /\ task'[r].pc = "fetch"
  BY DEF Live, Loading
<1>2. FutureUnused'
  <2> SUFFICES ASSUME NEW q \in Request \ {r}, task'[q].pc # "none"
               PROVE  q <= r
    BY DEF FutureUnused
  <2>1. q <= lastRequestId /\ lastRequestId \in Nat
    BY DEF LoaderOK, FutureUnused, ViewOK
  <2> QED
    BY <2>1
<1>3. LiveOwnsAbort'
  BY <1>1 DEF LiveOwnsAbort
<1>4. LoaderShowsItsList'
  <2>1. DOMAIN EmptyArray = {}
    BY DEF EmptyArray
  <2> QED
    BY <1>1, <2>1 DEF LoaderShowsItsList
<1>5. BuilderAlone'
  BY <1>1 DEF BuilderAlone
<1>6. PausedHasQueue'
  BY DEF PausedHasQueue, LoaderOK
<1> QED
  BY <1>2, <1>3, <1>4, <1>5, <1>6 DEF LoaderOK

(* Aborting changes nothing but the abort signal, and leaves no live loader. *)
LEMMA AbortingType ==
  ASSUME LoaderOK
  PROVE  /\ Aborting(task) \in [Request -> TaskType]
         /\ \A q \in Request :
              /\ Aborting(task)[q].pc = task[q].pc
              /\ Aborting(task)[q].queue = task[q].queue
              /\ Aborting(task)[q].pc \in {"fetch", "paused"} =>
                   Aborting(task)[q].aborted
<1> USE RequestType
<1>1. task \in [Request -> TaskType] /\ abortOwner \in RequestId
  BY DEF LoaderOK, ViewOK
<1>2. \A q \in Request :
        q # abortOwner /\ task[q].pc \in {"fetch", "paused"} => task[q].aborted
  BY DEF LoaderOK, LiveOwnsAbort, Live, Loading
<1>3. CASE abortOwner = NoRequest
  BY <1>1, <1>2, <1>3 DEF Aborting
<1>4. CASE abortOwner \in Request
  <2>1. abortOwner # NoRequest
    BY <1>4
  <2>2. [task[abortOwner] EXCEPT !.aborted = TRUE] \in TaskType
    BY <1>1, <1>4 DEF TaskType
  <2>3. Aborting(task) =
          [task EXCEPT ![abortOwner] = [task[abortOwner] EXCEPT !.aborted = TRUE]]
    BY <2>1 DEF Aborting
  <2>4. Aborting(task) \in [Request -> TaskType]
    BY <1>1, <1>4, <2>2, <2>3
  <2>5. /\ Aborting(task)[abortOwner].pc = task[abortOwner].pc
        /\ Aborting(task)[abortOwner].queue = task[abortOwner].queue
        /\ Aborting(task)[abortOwner].aborted
    BY <1>1, <1>4, <2>3 DEF TaskType
  <2>6. \A q \in Request : q # abortOwner => Aborting(task)[q] = task[q]
    BY <1>1, <2>3
  <2> QED
    BY <1>2, <2>4, <2>5, <2>6
<1> QED
  BY <1>1, <1>3, <1>4 DEF RequestId
-----------------------------------------------------------------------------
(* An empty array holds metadata of no other file. *)
LEMMA EmptyMatches ==
  ASSUME loadedFiles' = EmptyArray
  PROVE  LoadedMatchesIds'
BY DEF LoadedMatchesIds, EmptyArray

(* Steps that abort the loader and leave request r without one. *)
LEMMA StopStep ==
  ASSUME LoaderOK, ViewOK', LoadedMatchesIds',
         NEW r \in Request, r <= lastRequestId', lastRequestId <= lastRequestId',
         NEW t \in TaskType, t.pc \in {"build", "done"},
         task' = [Aborting(task) EXCEPT ![r] = t]
  PROVE  LoaderOK'
<1> USE RequestType
<1>1. /\ Aborting(task) \in [Request -> TaskType]
      /\ \A q \in Request :
           /\ Aborting(task)[q].pc = task[q].pc
           /\ Aborting(task)[q].queue = task[q].queue
           /\ Aborting(task)[q].pc \in {"fetch", "paused"} =>
                Aborting(task)[q].aborted
  BY AbortingType
<1>2. \A q \in Request \ {r} : task'[q] = Aborting(task)[q]
  BY <1>1
<1>3. task'[r] = t
  BY <1>1
<1>4. Live' = {}
  BY <1>1, <1>2, <1>3 DEF Live, Loading
<1>5. FutureUnused'
  <2> SUFFICES ASSUME NEW q \in Request \ {r}, task'[q].pc # "none"
               PROVE  q <= lastRequestId'
    BY DEF FutureUnused
  <2>1. q <= lastRequestId /\ lastRequestId \in Nat /\ lastRequestId' \in Nat
    BY <1>1, <1>2 DEF LoaderOK, FutureUnused, ViewOK
  <2> QED
    BY <2>1
<1>6. LiveOwnsAbort' /\ LoaderShowsItsList' /\ BuilderAlone'
  BY <1>4 DEF LiveOwnsAbort, LoaderShowsItsList, BuilderAlone
<1>7. PausedHasQueue'
  BY <1>1, <1>2, <1>3 DEF PausedHasQueue, LoaderOK
<1> QED
  BY <1>5, <1>6, <1>7 DEF LoaderOK

(* An empty list ends the load before it, whoever shows it. *)
LEMMA ShowNothingStep ==
  ASSUME LoaderOK, NEW r \in Request, NEW p \in Page, ShowNothing(r, p),
         activePageKey' \in Page, lastRequestId' \in Request,
         r <= lastRequestId', lastRequestId <= lastRequestId'
  PROVE  LoaderOK'
<1> DEFINE t == [NoTask EXCEPT !.pc = "done", !.page = p]
<1>1. t \in TaskType /\ t.pc = "done"
  BY NoTaskType DEF TaskType, PC, NoTask
<1>2. task' = [Aborting(task) EXCEPT ![r] = t]
  BY DEF ShowNothing
<1>3. ViewOK'
  <2>1. task' \in [Request -> TaskType]
    BY <1>1, <1>2, AbortingType
  <2> QED
    BY <2>1, EmptyFileList DEF ShowNothing, LoaderOK, ViewOK, owners, RequestId
<1>4. LoadedMatchesIds'
  BY EmptyMatches DEF ShowNothing
<1> HIDE DEF t
<1> QED
  BY <1>1, <1>2, <1>3, <1>4, StopStep

(* The reset of setPage and the loading flags keep the types. *)
LEMMA MarkType ==
  ASSUME LoaderOK, NEW clear \in BOOLEAN, NEW mark \in BOOLEAN,
         Mark(clear, mark)
  PROVE  /\ fileIds' \in FileList
         /\ isLoadingFiles' \in BOOLEAN
         /\ isLoadingPaused' \in BOOLEAN
         /\ isLoadingAwake' \in BOOLEAN
         /\ abortOwner' = abortOwner
         /\ abortOwner' \in RequestId
         /\ loadController' \in RequestId
         /\ LoadedMatchesIds'
<1>1. LoadedMatchesIds'
  BY DEF Mark, LoaderOK, LoadedMatchesIds, EmptyArray
<1> QED
  BY <1>1, EmptyFileList DEF Mark, LoaderOK, ViewOK, owners

(* A request that builds its chunks has aborted the loader before it. *)
LEMMA KeepBuildingStep ==
  ASSUME LoaderOK, NEW r \in Request, NEW p \in Page, NEW l \in FileList,
         NEW clear \in BOOLEAN, NEW mark \in BOOLEAN,
         KeepBuilding(r, p, l, clear, mark),
         activePageKey' \in Page, lastRequestId' = r, lastRequestId <= r
  PROVE  LoaderOK'
<1> DEFINE t == [NoTask EXCEPT !.pc = "build", !.page = p, !.ids = l]
<1>1. t \in TaskType /\ t.pc = "build"
  BY NoTaskType DEF TaskType, PC, NoTask
<1>2. task' = [Aborting(task) EXCEPT ![r] = t] /\ Mark(clear, mark)
  BY DEF KeepBuilding
<1>3. ViewOK' /\ LoadedMatchesIds'
  <2>1. task' \in [Request -> TaskType]
    BY <1>1, <1>2, AbortingType
  <2> QED
    BY <1>2, <2>1, MarkType DEF ViewOK, RequestId
<1>4. r <= lastRequestId' /\ lastRequestId <= lastRequestId'
  BY RequestType
<1> HIDE DEF t
<1> QED
  BY <1>1, <1>2, <1>3, <1>4, StopStep

(* The loader that starts is the only one that is not aborted. *)
LEMMA StartLoadingStep ==
  ASSUME LoaderOK, HasAbortController,
         NEW r \in Request, NEW p \in Page, NEW l \in FileList,
         NEW u \in [Request -> TaskType], StartLoading(r, p, l, u),
         activePageKey' = p, lastRequestId' = r, lastRequestId <= r,
         \A q \in Request \ {r} :
           /\ u[q].pc = task[q].pc
           /\ u[q].queue = task[q].queue
           /\ u[q].pc \in {"fetch", "paused"} => u[q].aborted
  PROVE  LoaderOK'
<1> DEFINE t == [NoTask EXCEPT
                   !.pc = "fetch", !.page = p, !.ids = l, !.cur = 1,
                   !.queue = [k \in 1..(ChunkCount(l) - 1) |-> k + 1]]
<1>1. t \in TaskType
  <2>1. [k \in 1..(ChunkCount(l) - 1) |-> k + 1] \in Seq(Nat)
    BY FirstQueueType
  <2> QED
    BY <2>1, NoTaskType DEF TaskType, PC, NoTask
<1>2. t.pc = "fetch" /\ t.ids = l /\ t.resolved = {}
  BY DEF NoTask
<1>3. task' = [u EXCEPT ![r] = t]
  BY DEF StartLoading
<1>4. /\ abortOwner' = r
      /\ fileIds' = l
      /\ loadedFiles' = EmptyArray
  BY DEF StartLoading
<1>5. ViewOK'
  <2>1. task' \in [Request -> TaskType]
    BY <1>1, <1>3
  <2> QED
    BY <1>4, <2>1 DEF StartLoading, ViewOK, RequestId
<1>6. LoadedMatchesIds'
  BY <1>4, EmptyMatches
<1> HIDE DEF t
<1>7. task'[r] = t /\ \A q \in Request \ {r} : task'[q] = u[q]
  BY <1>3
<1>8. r >= lastRequestId
  BY RequestType DEF LoaderOK, ViewOK
<1> QED
  BY <1>2, <1>4, <1>5, <1>6, <1>7, <1>8, RestartStep

(* updateWithFileIds of the request that becomes the last one. *)
LEMMA UpdateWithFileIdsStep ==
  ASSUME LoaderOK, HasAbortController,
         NEW r \in Request, NEW p \in Page, NEW l \in FileList,
         NEW clear \in BOOLEAN, NEW mark \in BOOLEAN,
         UpdateWithFileIds(r, p, l, clear, mark),
         activePageKey' = p, lastRequestId' = r, lastRequestId <= r
  PROVE  LoaderOK'
<1>1. CASE l = <<>>
  <2>1. ShowNothing(r, p)
    BY <1>1 DEF UpdateWithFileIds
  <2> QED
    BY <2>1, ShowNothingStep, RequestType
<1>2. CASE l # <<>> /\ ChunkCount(l) >= YieldEvery
  <2>1. KeepBuilding(r, p, l, clear, mark)
    BY <1>2 DEF UpdateWithFileIds
  <2> QED
    BY <2>1, KeepBuildingStep
<1>3. CASE l # <<>> /\ ~ (ChunkCount(l) >= YieldEvery)
  <2>1. StartLoading(r, p, l, Aborting(task))
    BY <1>3 DEF UpdateWithFileIds
  <2> QED
    BY <1>3, <2>1, AbortingType, StartLoadingStep
<1> QED
  BY <1>1, <1>2, <1>3

(* updatePageContents, whatever called it. *)
LEMMA UpdatePageContentsStep ==
  ASSUME LoaderOK, HasAbortController,
         NEW r \in Nat, lastRequestId < r, NEW p \in Page,
         NEW clear \in BOOLEAN, UpdatePageContents(r, p, clear),
         activePageKey' = p, searchResults' \in FileList,
         p \in VirtualPage => virtualPages'[p] \in FileList
  PROVE  LoaderOK'
<1> USE RequestType, ConstantsAssumption
<1>1. /\ r \in Request /\ lastRequestId' = r
      /\ lastRequestId \in Nat /\ lastRequestId <= r
  BY DEF UpdatePageContents, LoaderOK, ViewOK
<1>2. CASE p \in HydrusPage
  <2> DEFINE t == [NoTask EXCEPT !.pc = "info", !.page = p]
  <2>1. Mark(clear, clear) /\ task' = [task EXCEPT ![r] = t]
    BY <1>2 DEF UpdatePageContents
  <2>2. t \in TaskType /\ t.pc = "info"
    BY NoTaskType DEF TaskType, PC, NoTask
  <2>3. task \in [Request -> TaskType]
    BY DEF LoaderOK, ViewOK
  <2> HIDE DEF t
  <2>4. task' \in [Request -> TaskType]
    BY <2>1, <2>2, <2>3
  <2>5. ViewOK' /\ LoadedMatchesIds' /\ abortOwner' = abortOwner
    BY <1>1, <2>1, <2>4, MarkType DEF ViewOK, RequestId
  <2>6. task'[r] = t /\ \A q \in Request \ {r} : task'[q] = task[q]
    BY <1>1, <2>1, <2>3
  <2>7. FutureUnused'
    <3> SUFFICES ASSUME NEW q \in Request \ {r}, task'[q].pc # "none"
                 PROVE  q <= r
      BY <1>1 DEF FutureUnused
    <3>1. q \in Nat /\ q <= lastRequestId
      BY <2>6 DEF LoaderOK, FutureUnused
    <3> QED
      BY <1>1, <3>1
  <2>8. lastRequestId' >= lastRequestId /\ lastRequestId' # lastRequestId
    BY <1>1
  <2>9. \A q \in Live' : q \in Live /\ q # r /\ q = abortOwner
    BY <2>2, <2>6 DEF Live, Loading, LoaderOK, LiveOwnsAbort
  <2> QED
    BY <1>1, <2>2, <2>5, <2>6, <2>7, <2>8, <2>9, NoLoaderStep
       DEF LoaderOK, PausedHasQueue
<1>3. ASSUME NEW l \in FileList, NEW mark \in BOOLEAN,
             UpdateWithFileIds(r, p, l, clear, mark)
      PROVE  LoaderOK'
  BY <1>1, <1>3, UpdateWithFileIdsStep
<1>4. CASE p = SearchPage
  <2>1. UpdateWithFileIds(r, p, searchResults', clear, TRUE)
    BY <1>4 DEF UpdatePageContents
  <2> QED
    BY <2>1, <1>3
<1>5. CASE p \in VirtualPage
  <2>1. UpdateWithFileIds(r, p, virtualPages'[p], clear, clear)
    BY <1>5 DEF UpdatePageContents
  <2> QED
    BY <1>5, <2>1, <1>3
<1> QED
  BY <1>2, <1>4, <1>5 DEF Page
-----------------------------------------------------------------------------
(* Steps of a request. *)

(* A request that ends leaves the others where they are. *)
LEMMA DoneStep ==
  ASSUME LoaderOK, NEW r \in Request, task[r].pc # "none",
         task' = [task EXCEPT ![r].pc = "done"],
         UNCHANGED <<view, lastRequestId>>,
         isLoadingFiles' \in BOOLEAN, isLoadingPaused' \in BOOLEAN,
         isLoadingAwake' \in BOOLEAN, loadController' \in RequestId,
         \/ abortOwner' = abortOwner
         \/ abortOwner' = NoRequest /\ r \in Live
  PROVE  LoaderOK'
<1>1. task \in [Request -> TaskType]
  BY DEF LoaderOK, ViewOK
<1>2. /\ task' \in [Request -> TaskType]
      /\ task'[r].pc = "done"
      /\ \A q \in Request \ {r} : task'[q] = task[q]
  <2>1. [task[r] EXCEPT !.pc = "done"] \in TaskType
    BY <1>1 DEF TaskType, PC
  <2>2. [task[r] EXCEPT !.pc = "done"].pc = "done"
    BY <1>1 DEF TaskType
  <2> QED
    BY <1>1, <2>1, <2>2
<1>3. ViewOK'
  BY <1>2 DEF LoaderOK, ViewOK, view, RequestId
<1>4. ASSUME NEW q \in Live'
      PROVE  q \in Live /\ q # r /\ q = abortOwner'
  <2>1. q \in Live /\ q # r
    BY <1>2 DEF Live, Loading
  <2>2. q = abortOwner
    BY <2>1 DEF LoaderOK, LiveOwnsAbort
  <2>3. r \notin Live
    BY <2>1, <2>2 DEF LoaderOK, LiveOwnsAbort
  <2> QED
    BY <2>1, <2>2, <2>3
<1>5. \A q \in Request : task'[q].pc = "build" => task[q].pc = "build"
  BY <1>2
<1>6. ASSUME NEW q \in Request
      PROVE  /\ task[q].pc = "none" => task'[q].pc = "none"
             /\ task'[q].pc = "paused" => task'[q].queue # <<>>
  BY <1>2 DEF LoaderOK, PausedHasQueue
<1>7. \A q \in Live' : q \in Request \ {r}
  BY <1>4 DEF Live, Loading
<1> QED
  BY <1>2, <1>3, <1>4, <1>5, <1>6, <1>7, QuietStep

(* A chunk of the loader that runs is stored. *)
LEMMA ChunkStep ==
  ASSUME LoaderOK, NEW r \in Live, Current(r), NEW c \in Nat,
         NEW t \in TaskType, task' = [task EXCEPT ![r] = t],
         UNCHANGED <<activePageKey, fileIds, lastRequestId>>,
         loadedFiles' = Store(loadedFiles, task[r].ids, c),
         isLoadingFiles' \in BOOLEAN, isLoadingPaused' \in BOOLEAN,
         isLoadingAwake' \in BOOLEAN,
         abortOwner' \in RequestId, loadController' \in RequestId,
         \/ t.pc = "done"
         \/ /\ t.pc \in {"fetch", "paused"}
            /\ t.pc = "paused" => t.queue # <<>>
            /\ t.ids = task[r].ids
            /\ t.resolved = task[r].resolved \cup {c}
            /\ abortOwner' = abortOwner
  PROVE  LoaderOK'
<1>1. r \in Request /\ task \in [Request -> TaskType] /\ r = abortOwner
  BY DEF Live, Loading, LoaderOK, ViewOK, LiveOwnsAbort
<1>2. /\ task' \in [Request -> TaskType]
      /\ task'[r] = t
      /\ \A q \in Request \ {r} : task'[q] = task[q]
  BY <1>1
<1>3. ViewOK'
  BY <1>2 DEF LoaderOK, ViewOK
<1>4. /\ fileIds = task[r].ids
      /\ DOMAIN loadedFiles =
           UNION {Positions(task[r].ids, d) : d \in task[r].resolved}
  BY DEF LoaderOK, LoaderShowsItsList
<1>5. /\ DOMAIN loadedFiles' = DOMAIN loadedFiles \cup Positions(task[r].ids, c)
      /\ \A i \in DOMAIN loadedFiles' :
           i \in 1..Len(fileIds) /\ loadedFiles'[i] = fileIds[i]
  <2>1. /\ fileIds \in FileList
        /\ \A i \in DOMAIN loadedFiles :
             i \in 1..Len(fileIds) /\ loadedFiles[i] = fileIds[i]
    BY DEF LoaderOK, LoadedMatchesIds, ViewOK
  <2>2. loadedFiles' = Store(loadedFiles, fileIds, c)
    BY <1>4
  <2> HIDE <1>4
  <2>3. /\ DOMAIN Store(loadedFiles, fileIds, c) =
             DOMAIN loadedFiles \cup Positions(fileIds, c)
        /\ \A i \in DOMAIN Store(loadedFiles, fileIds, c) :
             /\ i \in 1..Len(fileIds)
             /\ Store(loadedFiles, fileIds, c)[i] = fileIds[i]
    BY <2>1 DEF Store, Positions
  <2> QED
    BY <1>4, <2>2, <2>3
<1>6. LoadedMatchesIds'
  BY <1>5 DEF LoadedMatchesIds
<1>7. \A q \in Live' : q = r /\ t.pc \in {"fetch", "paused"}
  <2> SUFFICES ASSUME NEW q \in Live', q # r
               PROVE  FALSE
    BY <1>2 DEF Live, Loading
  <2>1. q \in Live
    BY <1>2 DEF Live, Loading
  <2> QED
    BY <1>1, <2>1 DEF LoaderOK, LiveOwnsAbort
<1>8. FutureUnused'
  <2>1. task[r].pc # "none"
    BY DEF Live, Loading
  <2> QED
    BY <1>1, <1>2, <2>1 DEF LoaderOK, FutureUnused
<1>9. LiveOwnsAbort'
  BY <1>1, <1>7 DEF LiveOwnsAbort
<1>10. LoaderShowsItsList'
  <2> SUFFICES ASSUME r \in Live'
               PROVE  /\ fileIds' = t.ids
                      /\ DOMAIN loadedFiles' =
                           UNION {Positions(t.ids, d) : d \in t.resolved}
    <3>1. \A q \in Live' : q = r /\ task'[q] = t
      BY <1>1, <1>2, <1>7
    <3> QED
      BY <3>1 DEF LoaderShowsItsList
  <2>1. t.ids = task[r].ids /\ t.resolved = task[r].resolved \cup {c}
    BY <1>7
  <2> QED
    BY <1>4, <1>5, <2>1
<1>11. BuilderAlone'
  <2> SUFFICES ASSUME NEW q \in Request, task'[q].pc = "build",
                      q = lastRequestId'
               PROVE  FALSE
    BY DEF BuilderAlone
  <2>1. q = r
    BY DEF Current
  <2> QED
    BY <1>2, <2>1
<1>12. PausedHasQueue'
  BY <1>2 DEF PausedHasQueue, LoaderOK
<1> QED
  BY <1>3, <1>6, <1>8, <1>9, <1>10, <1>11, <1>12 DEF LoaderOK

(* The queue of a request is put in another order, and it may be woken. *)
LEMMA WakeStep ==
  ASSUME LoaderOK, NEW r \in Request, NEW t \in TaskType, NEW wakes \in BOOLEAN,
         t.pc = task[r].pc, t.ids = task[r].ids, t.page = task[r].page,
         t.resolved = task[r].resolved, t.aborted = task[r].aborted,
         task[r].queue # <<>> => t.queue # <<>>,
         task' = [task EXCEPT ![r] = IF wakes THEN Woken(t) ELSE t],
         UNCHANGED <<view, lastRequestId, owners>>,
         isLoadingFiles' \in BOOLEAN, isLoadingPaused' \in BOOLEAN,
         isLoadingAwake' \in BOOLEAN
  PROVE  LoaderOK'
<1> DEFINE u == IF wakes THEN Woken(t) ELSE t
<1>1. task \in [Request -> TaskType]
  BY DEF LoaderOK, ViewOK
<1>2. CASE wakes /\ t.pc = "paused"
  <2>1. t.queue # <<>> /\ t.queue \in Seq(Nat)
    BY <1>2 DEF LoaderOK, PausedHasQueue, TaskType
  <2>2. Head(t.queue) \in Nat /\ Tail(t.queue) \in Seq(Nat)
    BY <2>1, HeadTailProperties
  <2>3. u = [t EXCEPT !.pc = "fetch", !.cur = Head(t.queue), !.queue = Tail(t.queue)]
    BY <1>2 DEF Woken, NextChunk
  <2>4. /\ u \in TaskType
        /\ u.pc = "fetch" /\ u.ids = t.ids /\ u.page = t.page
        /\ u.resolved = t.resolved /\ u.aborted = t.aborted
    BY <2>2, <2>3 DEF TaskType, PC
  <2> HIDE DEF u
  <2>5. /\ task' \in [Request -> TaskType]
        /\ task'[r] = u
        /\ \A q \in Request \ {r} : task'[q] = task[q]
    BY <1>1, <2>4 DEF u
  <2>6. ViewOK'
    BY <2>5 DEF LoaderOK, ViewOK, view, owners
  <2>7. \A q \in Live' : q \in Live /\ q = abortOwner'
    BY <1>2, <2>4, <2>5 DEF Live, Loading, LoaderOK, LiveOwnsAbort, owners
  <2>8. ASSUME NEW q \in Request
        PROVE  task'[q].pc = "paused" => task'[q].queue # <<>>
    BY <2>4, <2>5 DEF LoaderOK, PausedHasQueue
  <2> QED
    BY <1>2, <2>4, <2>5, <2>6, <2>7, <2>8, QuietStep
<1>3. CASE ~ (wakes /\ t.pc = "paused")
  <2>1. u = t
    BY <1>3 DEF Woken
  <2>2. /\ task' \in [Request -> TaskType]
        /\ task'[r] = t
        /\ \A q \in Request \ {r} : task'[q] = task[q]
    BY <1>1, <2>1
  <2>3. ViewOK'
    BY <2>2 DEF LoaderOK, ViewOK, view, owners
  <2>4. \A q \in Live' : q \in Live /\ q = abortOwner'
    BY <2>2 DEF Live, Loading, LoaderOK, LiveOwnsAbort, owners
  <2>5. ASSUME NEW q \in Request
        PROVE  task'[q].pc = "paused" => task'[q].queue # <<>>
    BY <2>2 DEF LoaderOK, PausedHasQueue
  <2> QED
    BY <2>2, <2>3, <2>4, <2>5, QuietStep
<1> QED
  BY <1>2, <1>3
-----------------------------------------------------------------------------
(* Types of what a demand becomes. *)

(* The pages and demands keep their types when nothing of them changes. *)
LEMMA SourcesKept ==
  ASSUME SourcesOK, UNCHANGED <<activePageKey, sources, demand>>
  PROVE  SourcesOK'
BY DEF SourcesOK, sources

(* What getRealizedFiles ends with is one of three outcomes. *)
LEMMA RealizedType ==
  ASSUME NEW l, NEW fs, NEW arr
  PROVE  Realized(l, fs, arr) \in {"ok", "unrealized", "wrong file"}
BY DEF Realized

(* Rejected demands keep their types. *)
LEMMA RejectedType ==
  ASSUME demand \in [Demand -> DemandType], NEW r
  PROVE  Rejected(r) \in [Demand -> DemandType]
<1>1. \A d \in Demand : [demand[d] EXCEPT !.status = "rejected"] \in DemandType
  BY DEF DemandType
<1> QED
  BY <1>1 DEF Rejected

(* Resolved demands keep their types. *)
LEMMA ResolvedType ==
  ASSUME demand \in [Demand -> DemandType], NEW r, NEW c, NEW arr
  PROVE  Resolved(r, c, arr) \in [Demand -> DemandType]
<1> SUFFICES ASSUME NEW d \in Demand
             PROVE  Resolved(r, c, arr)[d] \in DemandType
  BY DEF Resolved
<1> DEFINE x == demand[d]
           R == Realized(task[r].ids, x.files, arr)
           s == IF x.waits \subseteq {c} THEN R ELSE "waiting"
<1>1. R \in {"ok", "unrealized", "wrong file"}
  BY RealizedType
<1>2. x \in DemandType
  OBVIOUS
<1> HIDE DEF R
<1>3. [x EXCEPT !.waits = @ \ {c}, !.status = s] \in DemandType
  BY <1>1, <1>2 DEF DemandType
<1>4. Resolved(r, c, arr)[d] =
        IF x.status # "waiting" \/ x.owner # r THEN x
        ELSE [x EXCEPT !.waits = @ \ {c}, !.status = s]
  BY DEF Resolved, R
<1> QED
  BY <1>2, <1>3, <1>4
-----------------------------------------------------------------------------
(* The answer of getPageInfo, in time or too late. *)
LEMMA InfoReplyStep ==
  ASSUME IInv, HasAbortController, NEW r \in Request, NEW l \in Lists,
         InfoReply(r, l)
  PROVE  IInv'
<1> USE RequestType DEF IInv
<1>1. SourcesOK'
  BY SourcesKept DEF InfoReply
<1>2. /\ task[r].pc = "info" /\ r <= lastRequestId /\ task[r].page \in Page
      /\ task \in [Request -> TaskType] /\ l \in FileList
      /\ lastRequestId \in RequestId /\ activePageKey \in Page
      /\ activePageKey' = activePageKey /\ lastRequestId' = lastRequestId
  BY ConstantsAssumption
     DEF InfoReply, LoaderOK, ViewOK, FutureUnused, TaskType
<1>3. CASE activePageKey # task[r].page
  <2>1. /\ task' = [task EXCEPT ![r].pc = "done"]
        /\ UNCHANGED <<fileIds, loadedFiles, flags, owners>>
    BY <1>3 DEF InfoReply
  <2> QED
    BY <1>1, <1>2, <2>1, DoneStep DEF LoaderOK, ViewOK, view, flags, owners
<1>4. CASE activePageKey = task[r].page /\ r = lastRequestId
  <2>1. UpdateWithFileIds(r, task[r].page, l, FALSE, FALSE)
    BY <1>4 DEF InfoReply
  <2> QED
    BY <1>1, <1>2, <1>4, <2>1, UpdateWithFileIdsStep
<1>5. CASE activePageKey = task[r].page /\ r # lastRequestId
  <2>1. UpdateTooLate(r, l)
    BY <1>5 DEF InfoReply
  <2>2. lastRequestId \in Request /\ lastRequestId <= lastRequestId
    BY <1>2 DEF RequestId, NoRequest
  <2>3. CASE l = <<>>
    <3>1. ShowNothing(r, task[r].page)
      BY <2>1, <2>3 DEF UpdateTooLate
    <3> QED
      BY <1>1, <1>2, <2>2, <3>1, ShowNothingStep
  <2>4. CASE l # <<>>
    <3> DEFINE t == [Aborting(task)[r] EXCEPT !.pc = "done"]
    <3>1. /\ task' = [Aborting(task) EXCEPT ![r].pc = "done"]
          /\ UNCHANGED <<fileIds, loadedFiles, flags, owners>>
      BY <2>1, <2>4 DEF UpdateTooLate
    <3>2. Aborting(task) \in [Request -> TaskType]
      BY AbortingType
    <3>3. t \in TaskType /\ t.pc = "done"
      BY <3>2 DEF TaskType, PC
    <3>4. task' = [Aborting(task) EXCEPT ![r] = t]
      BY <3>1, <3>2
    <3>5. task' \in [Request -> TaskType]
      BY <3>2, <3>3, <3>4
    <3> HIDE DEF t
    <3>6. ViewOK' /\ LoadedMatchesIds'
      BY <1>2, <3>1, <3>5
         DEF LoaderOK, ViewOK, LoadedMatchesIds, flags, owners
    <3> QED
      BY <1>1, <1>2, <2>2, <3>3, <3>4, <3>6, StopStep
  <2> QED
    BY <2>3, <2>4
<1> QED
  BY <1>3, <1>4, <1>5

(* The failure of getPageInfo. *)
LEMMA InfoFailStep ==
  ASSUME IInv, NEW r \in Request, InfoFail(r)
  PROVE  IInv'
<1>1. SourcesOK'
  BY SourcesKept DEF InfoFail, IInv, view
<1> QED
  BY <1>1, DoneStep DEF InfoFail, IInv, LoaderOK, ViewOK, view, owners

(* The builder goes on, or finds that it has been overtaken. *)
LEMMA BuildResumeStep ==
  ASSUME IInv, HasAbortController, NEW r \in Request, BuildResume(r)
  PROVE  IInv'
<1> USE RequestType DEF IInv
<1>1. SourcesOK'
  BY SourcesKept DEF BuildResume
<1>2. /\ task[r].pc = "build" /\ task[r].page \in Page
      /\ task[r].ids \in FileList /\ task \in [Request -> TaskType]
      /\ activePageKey' = activePageKey /\ lastRequestId' = lastRequestId
  BY DEF BuildResume, LoaderOK, ViewOK, TaskType
<1>3. CASE Current(r)
  <2>1. StartLoading(r, task[r].page, task[r].ids, task)
    BY <1>3 DEF BuildResume
  <2>2. lastRequestId = r /\ activePageKey = task[r].page
    BY <1>3 DEF Current
  <2>3. \A q \in Request : task[q].pc \in {"fetch", "paused"} => task[q].aborted
    BY <1>2, <2>2 DEF LoaderOK, BuilderAlone, Live, Loading
  <2>4. lastRequestId <= r
    BY <2>2
  <2> QED
    BY <1>1, <1>2, <2>1, <2>2, <2>3, <2>4, StartLoadingStep
<1>4. CASE ~ Current(r)
  <2>1. /\ task' = [task EXCEPT ![r].pc = "done"]
        /\ UNCHANGED <<fileIds, loadedFiles, flags, owners>>
    BY <1>4 DEF BuildResume
  <2> QED
    BY <1>1, <1>2, <2>1, DoneStep DEF LoaderOK, ViewOK, view, flags, owners
<1> QED
  BY <1>3, <1>4

(* The failure of getFileMetadata. *)
LEMMA ChunkFailStep ==
  ASSUME IInv, NEW r \in Request, ChunkFail(r)
  PROVE  IInv'
<1>1. r \in Live /\ task[r].pc # "none"
  BY DEF ChunkFail, Live, Loading
<1>2. SourcesOK'
  BY RejectedType DEF ChunkFail, IInv, SourcesOK, sources, view
<1>3. LoaderOK'
  BY <1>1, DoneStep
     DEF ChunkFail, Finish, IInv, LoaderOK, ViewOK, view, owners, RequestId
<1> QED
  BY <1>2, <1>3 DEF IInv

(* The abort of getFileMetadata. *)
LEMMA ChunkAbortedStep ==
  ASSUME IInv, NEW r \in Request, ChunkAborted(r)
  PROVE  IInv'
<1>1. SourcesOK'
  BY RejectedType DEF ChunkAborted, IInv, SourcesOK, sources, view
<1>2. LoaderOK'
  BY DoneStep DEF ChunkAborted, IInv, LoaderOK, ViewOK, view, flags, owners
<1> QED
  BY <1>1, <1>2 DEF IInv

(* The next chunk of a loader that has one. *)
LEMMA NextChunkType ==
  ASSUME NEW t \in TaskType, t.queue # <<>>
  PROVE  /\ NextChunk(t) \in TaskType
         /\ NextChunk(t).pc = "fetch"
         /\ NextChunk(t).ids = t.ids
         /\ NextChunk(t).resolved = t.resolved
<1>1. t.queue \in Seq(Nat)
  BY DEF TaskType
<1>2. Head(t.queue) \in Nat /\ Tail(t.queue) \in Seq(Nat)
  BY <1>1, HeadTailProperties
<1> QED
  BY <1>2 DEF NextChunk, TaskType, PC

(* The answer of getFileMetadata is stored where the list that is shown has
   its files. *)
LEMMA ChunkReplyStep ==
  ASSUME IInv, NEW r \in Request, ChunkReply(r)
  PROVE  IInv'
<1> USE DEF IInv
<1> DEFINE c == task[r].cur
           arr == Store(loadedFiles, task[r].ids, c)
           t == [task[r] EXCEPT !.resolved = @ \cup {c}, !.wanted = @ \ {c}]
<1>1. /\ r \in Live /\ task[r] \in TaskType /\ c \in Nat
      /\ task \in [Request -> TaskType]
  BY DEF ChunkReply, Live, Loading, LoaderOK, ViewOK, TaskType
<1>2. UNCHANGED <<activePageKey, fileIds, isLoadingPaused, lastRequestId, sources>>
  BY DEF ChunkReply
<1>3. CASE Current(r)
  <2>1. /\ loadedFiles' = arr
        /\ demand' = Resolved(r, c, arr)
        /\ AfterChunk(r, t)
    BY <1>3 DEF ChunkReply
  <2>2. SourcesOK'
    BY <1>2, <2>1, ResolvedType DEF SourcesOK, sources
  <2>3. /\ t \in TaskType
        /\ t.ids = task[r].ids
        /\ t.resolved = task[r].resolved \cup {c}
    BY <1>1 DEF TaskType
  <2> HIDE DEF t, arr
  <2>4. CASE t.queue = <<>>
    <3> DEFINE u == [t EXCEPT !.pc = "done"]
    <3>1. Finish /\ task' = [task EXCEPT ![r] = u]
      BY <2>1, <2>4 DEF AfterChunk
    <3>2. u \in TaskType /\ u.pc = "done"
      BY <2>3 DEF TaskType, PC
    <3> HIDE DEF u
    <3>3. LoaderOK'
      BY <1>1, <1>2, <1>3, <2>1, <3>1, <3>2, ChunkStep
         DEF Finish, LoaderOK, ViewOK, RequestId, arr
    <3> QED
      BY <2>2, <3>3
  <2>5. CASE t.queue # <<>> /\ t.wanted = {} /\ isLoadingPaused
    <3> DEFINE u == [t EXCEPT !.pc = "paused", !.armed = TRUE]
    <3>1. /\ isLoadingAwake' = FALSE
          /\ task' = [task EXCEPT ![r] = u]
          /\ UNCHANGED <<isLoadingFiles, owners>>
      BY <2>1, <2>5 DEF AfterChunk
    <3>2. /\ u \in TaskType /\ u.pc = "paused" /\ u.queue # <<>>
          /\ u.ids = t.ids /\ u.resolved = t.resolved
      BY <2>3, <2>5 DEF TaskType, PC
    <3> HIDE DEF u
    <3>3. LoaderOK'
      BY <1>1, <1>2, <1>3, <2>1, <2>3, <3>1, <3>2, ChunkStep
         DEF LoaderOK, ViewOK, owners, arr
    <3> QED
      BY <2>2, <3>3
  <2>6. CASE t.queue # <<>> /\ ~ (t.wanted = {} /\ isLoadingPaused)
    <3> DEFINE v == [t EXCEPT !.armed = @ /\ t.wanted # {}]
               u == NextChunk(v)
    <3>1. /\ task' = [task EXCEPT ![r] = u]
          /\ UNCHANGED <<isLoadingFiles, isLoadingAwake, owners>>
      BY <2>1, <2>6 DEF AfterChunk
    <3>2. /\ v \in TaskType /\ v.queue # <<>>
          /\ v.ids = t.ids /\ v.resolved = t.resolved
      <4>1. (t.armed /\ t.wanted # {}) \in BOOLEAN
        BY <2>3 DEF TaskType
      <4> QED
        BY <2>3, <2>6, <4>1 DEF TaskType
    <3> HIDE DEF v
    <3>3. /\ u \in TaskType /\ u.pc = "fetch"
          /\ u.ids = t.ids /\ u.resolved = t.resolved
      BY <3>2, NextChunkType
    <3> HIDE DEF u
    <3>4. LoaderOK'
      BY <1>1, <1>2, <1>3, <2>1, <2>3, <3>1, <3>3, ChunkStep
         DEF LoaderOK, ViewOK, owners, arr
    <3> QED
      BY <2>2, <3>4
  <2> QED
    BY <2>4, <2>5, <2>6
<1>4. CASE ~ Current(r)
  <2>1. /\ task' = [task EXCEPT ![r].pc = "done"]
        /\ demand' = Rejected(r)
        /\ UNCHANGED <<loadedFiles, isLoadingFiles, isLoadingAwake, owners>>
    BY <1>4 DEF ChunkReply
  <2>2. SourcesOK'
    BY <1>2, <2>1, RejectedType DEF SourcesOK, sources
  <2>3. task[r].pc # "none"
    BY DEF ChunkReply
  <2>4. LoaderOK'
    BY <1>2, <2>1, <2>3, DoneStep DEF LoaderOK, ViewOK, view, owners
  <2> QED
    BY <2>2, <2>4
<1> QED
  BY <1>3, <1>4

(* Every step of a request keeps the invariant. *)
LEMMA RequestStepKeeps ==
  ASSUME IInv, HasAbortController, NEW r \in Request, RequestStep(r)
  PROVE  IInv'
BY InfoReplyStep, InfoFailStep, BuildResumeStep, ChunkReplyStep, ChunkFailStep,
   ChunkAbortedStep DEF RequestStep
-----------------------------------------------------------------------------
(* What the user and the rest of the client call. *)

(* The next request is later than all before it. *)
LEMMA NextRequestType ==
  ASSUME IInv
  PROVE  /\ lastRequestId \in Nat
         /\ NextRequest \in Nat /\ lastRequestId < NextRequest
         /\ NextRequest + 1 \in Nat /\ lastRequestId < NextRequest + 1
         /\ lastRequestId <= lastRequestId
BY RequestType DEF IInv, LoaderOK, ViewOK, NextRequest

(* updatePageContents of the active page, as request r. *)
LEMMA UpdateKeeps ==
  ASSUME IInv, HasAbortController, SourcesOK',
         NEW r \in {NextRequest, NextRequest + 1}, NEW p \in Page,
         NEW clear \in BOOLEAN, UpdatePageContents(r, p, clear),
         activePageKey' = p
  PROVE  IInv'
<1>1. r \in Nat /\ lastRequestId < r
  BY NextRequestType
<1>2. searchResults' \in FileList
  BY DEF SourcesOK
<1>3. p \in VirtualPage => virtualPages'[p] \in FileList
  BY DEF SourcesOK
<1> QED
  BY <1>1, <1>2, <1>3, UpdatePageContentsStep DEF IInv

(* A change of the lists that the view does not show. *)
LEMMA UnseenKeeps ==
  ASSUME IInv, SourcesOK',
         UNCHANGED <<activePageKey, fileIds, loadedFiles, flags, lastRequestId,
                     owners, task>>
  PROVE  IInv'
<1>1. ViewOK'
  BY DEF IInv, LoaderOK, ViewOK, flags, owners
<1>2. \A q \in Live' : q \in Live /\ q = abortOwner'
  BY DEF IInv, LoaderOK, LiveOwnsAbort, Live, Loading, owners
<1>3. \A q \in Request : task[q].pc = "paused" => task'[q].queue # <<>>
  BY DEF IInv, LoaderOK, PausedHasQueue
<1> QED
  BY <1>1, <1>2, <1>3, QuietStep DEF IInv, view

(* setPage keeps the invariant. *)
LEMMA SetPageStep ==
  ASSUME IInv, HasAbortController, NEW p \in Page, SetPage(p)
  PROVE  IInv'
<1>1. SourcesOK'
  BY DEF SetPage, IInv, SourcesOK, sources
<1> QED
  BY <1>1, UpdateKeeps DEF SetPage

(* updatePageContents of the active page keeps the invariant. *)
LEMMA UpdateActivePageStep ==
  ASSUME IInv, HasAbortController, UpdateActivePage
  PROVE  IInv'
<1>1. SourcesOK'
  BY SourcesKept DEF UpdateActivePage, IInv
<1>2. activePageKey \in Page
  BY DEF IInv, LoaderOK, ViewOK
<1> QED
  BY <1>1, <1>2, UpdateKeeps DEF UpdateActivePage

(* refreshPage, as far as its first await. *)
LEMMA RefreshStartStep ==
  ASSUME IInv, RefreshStart
  PROVE  IInv'
<1>1. SourcesOK'
  BY DEF RefreshStart, IInv, SourcesOK, view
<1>2. ViewOK'
  BY DEF RefreshStart, IInv, LoaderOK, ViewOK, view, owners
<1>3. \A q \in Live' : q \in Live /\ q = abortOwner'
  BY DEF RefreshStart, IInv, LoaderOK, LiveOwnsAbort, Live, Loading, owners
<1>4. \A q \in Request : task[q].pc = "paused" => task'[q].queue # <<>>
  BY DEF RefreshStart, IInv, LoaderOK, PausedHasQueue
<1>5. LoaderOK'
  BY <1>2, <1>3, <1>4, QuietStep DEF RefreshStart, IInv
<1> QED
  BY <1>1, <1>5 DEF IInv

(* The end of refreshPage, whatever page is active by then. *)
LEMMA RefreshEndStep ==
  ASSUME IInv, HasAbortController, NEW p \in HydrusPage, RefreshEnd(p)
  PROVE  IInv'
<1>1. SourcesOK'
  BY DEF RefreshEnd, IInv, SourcesOK
<1>2. CASE p = activePageKey
  BY <1>1, <1>2, UpdateKeeps DEF RefreshEnd, Page
<1>3. CASE p # activePageKey
  BY <1>1, <1>3, UnseenKeeps DEF RefreshEnd
<1> QED
  BY <1>2, <1>3

(* A refreshPage that throws. *)
LEMMA RefreshFailStep ==
  ASSUME IInv, NEW p \in HydrusPage, RefreshFail(p)
  PROVE  IInv'
<1>1. SourcesOK'
  BY DEF RefreshFail, IInv, SourcesOK, view
<1> QED
  BY <1>1, UnseenKeeps DEF RefreshFail, view

(* cancelCurrentPageLoad keeps what was loaded, without its holes. *)
LEMMA CancelStep ==
  ASSUME IInv, HasAbortController, CancelCurrentPageLoad
  PROVE  IInv'
<1> USE DEF IInv
<1>1. SourcesOK'
  BY SourcesKept DEF CancelCurrentPageLoad
<1>2. /\ Aborting(task) \in [Request -> TaskType]
      /\ \A q \in Request :
           /\ Aborting(task)[q].pc = task[q].pc
           /\ Aborting(task)[q].queue = task[q].queue
           /\ Aborting(task)[q].pc \in {"fetch", "paused"} =>
                Aborting(task)[q].aborted
  BY AbortingType
<1>3. task' = Aborting(task) /\ activePageKey' = activePageKey
  BY DEF CancelCurrentPageLoad
<1>4. Live' = {}
  BY <1>2, <1>3 DEF Live, Loading
<1>5. \A q \in Request :
        /\ task[q].pc = "none" => task'[q].pc = "none"
        /\ task'[q].pc = "build" => task[q].pc = "build"
        /\ task'[q].pc = "paused" => task'[q].queue # <<>>
  BY <1>2, <1>3 DEF LoaderOK, PausedHasQueue
<1>6. CASE isLoadingFiles
  <2>1. /\ NextRequest \in Request
        /\ fileIds' = Compact(loadedFiles)
        /\ loadedFiles' = Compact(loadedFiles)
        /\ lastRequestId' = NextRequest
        /\ Finish
        /\ UNCHANGED isLoadingPaused
    BY <1>6 DEF CancelCurrentPageLoad
  <2>2. Compact(loadedFiles) \in FileList
    BY CompactProperties DEF LoaderOK, ViewOK, LoadedMatchesIds
  <2>3. LoadedMatchesIds'
    BY <2>1, <2>2, FileListType DEF LoadedMatchesIds
  <2>4. ViewOK'
    BY <1>2, <1>3, <2>1, <2>2 DEF Finish, LoaderOK, ViewOK, RequestId
  <2>5. /\ lastRequestId' >= lastRequestId /\ lastRequestId' # lastRequestId
        /\ lastRequestId \in Nat /\ lastRequestId' \in Nat
    BY <2>1, NextRequestType
  <2>6. FutureUnused'
    <3> SUFFICES ASSUME NEW q \in Request, task'[q].pc # "none"
                 PROVE  q <= lastRequestId'
      BY DEF FutureUnused
    <3>1. q <= lastRequestId /\ q \in Nat
      BY <1>5, RequestType DEF LoaderOK, FutureUnused
    <3> QED
      BY <2>5, <3>1
  <2>7. LoaderOK'
    BY <1>4, <1>5, <2>3, <2>4, <2>5, <2>6, NoLoaderStep
  <2> QED
    BY <1>1, <2>7
<1>7. CASE ~ isLoadingFiles
  <2>1. UNCHANGED <<view, lastRequestId, flags, owners>>
    BY <1>7 DEF CancelCurrentPageLoad, view, flags
  <2>2. ViewOK'
    BY <1>2, <1>3, <2>1 DEF LoaderOK, ViewOK, view, flags, owners
  <2>3. LoaderOK'
    BY <1>4, <1>5, <2>1, <2>2, QuietStep
  <2> QED
    BY <1>1, <2>3
<1> QED
  BY <1>6, <1>7

(* New results of the search store keep the invariant. *)
LEMMA SearchResultsChangeStep ==
  ASSUME IInv, HasAbortController, NEW l \in Lists, SearchResultsChange(l)
  PROVE  IInv'
<1>1. SourcesOK'
  BY ConstantsAssumption DEF SearchResultsChange, IInv, SourcesOK
<1>2. CASE activePageKey = SearchPage
  BY <1>1, <1>2, UpdateKeeps DEF SearchResultsChange, Page
<1>3. CASE activePageKey # SearchPage
  BY <1>1, <1>3, UnseenKeeps DEF SearchResultsChange
<1> QED
  BY <1>2, <1>3

(* A new tab keeps the invariant. *)
LEMMA OpenVirtualPageStep ==
  ASSUME IInv, HasAbortController, NEW p \in VirtualPage, NEW l \in FileList,
         OpenVirtualPage(p, l)
  PROVE  IInv'
<1>1. SourcesOK'
  BY DEF OpenVirtualPage, IInv, SourcesOK
<1> QED
  BY <1>1, UpdateKeeps DEF OpenVirtualPage, Page

(* The removal of a tab, active or not, keeps the invariant. *)
LEMMA RemoveVirtualPageStep ==
  ASSUME IInv, HasAbortController, NEW p \in VirtualPage, RemoveVirtualPage(p)
  PROVE  IInv'
<1>1. SourcesOK'
  BY ConstantsAssumption DEF RemoveVirtualPage, IInv, SourcesOK, view
<1>2. CASE p = activePageKey
  BY <1>1, <1>2, UpdateKeeps DEF RemoveVirtualPage, Page
<1>3. CASE p # activePageKey
  BY <1>1, <1>3, UnseenKeeps DEF RemoveVirtualPage, view
<1> QED
  BY <1>2, <1>3

(* An edit of the search page keeps the invariant. *)
LEMMA EditSearchPageStep ==
  ASSUME IInv, HasAbortController, NEW l \in FileList, EditSearchPage(l)
  PROVE  IInv'
<1>1. SourcesOK'
  BY DEF EditSearchPage, IInv, SourcesOK
<1>2. CASE activePageKey = SearchPage
  BY <1>1, <1>2, UpdateKeeps DEF EditSearchPage, Page
<1>3. CASE activePageKey # SearchPage
  BY <1>1, <1>3, UnseenKeeps DEF EditSearchPage
<1> QED
  BY <1>2, <1>3

(* An edit of a virtual page keeps the invariant. *)
LEMMA EditVirtualPageStep ==
  ASSUME IInv, HasAbortController, NEW p \in DOMAIN virtualPages,
         NEW l \in FileList, EditVirtualPage(p, l)
  PROVE  IInv'
<1>1. SourcesOK'
  BY DEF EditVirtualPage, IInv, SourcesOK
<1>2. p \in Page
  BY DEF IInv, SourcesOK, Page
<1>3. CASE p = activePageKey
  BY <1>1, <1>2, <1>3, UpdateKeeps DEF EditVirtualPage
<1>4. CASE p # activePageKey
  BY <1>1, <1>4, UnseenKeeps DEF EditVirtualPage
<1> QED
  BY <1>3, <1>4

(* addFilesToPage keeps the invariant. *)
LEMMA AddFilesToPageStep ==
  ASSUME IInv, HasAbortController, NEW p \in Edited, NEW f \in File,
         AddFilesToPage(p, f)
  PROVE  IInv'
<1>1. CASE /\ f \notin Elements(searchResults)
           /\ EditSearchPage(Append(searchResults, f))
  BY <1>1, AppendFileList, EditSearchPageStep DEF IInv, SourcesOK
<1>2. CASE /\ p \in DOMAIN virtualPages
           /\ f \notin Elements(virtualPages[p])
           /\ EditVirtualPage(p, Append(virtualPages[p], f))
  <2>1. virtualPages[p] \in FileList
    BY <1>2 DEF IInv, SourcesOK
  <2> QED
    BY <1>2, <2>1, AppendFileList, EditVirtualPageStep
<1> QED
  BY <1>1, <1>2 DEF AddFilesToPage

(* removeFilesFromPage keeps the invariant. *)
LEMMA RemoveFilesFromPageStep ==
  ASSUME IInv, HasAbortController, NEW p \in Edited, NEW fs,
         RemoveFilesFromPage(p, fs)
  PROVE  IInv'
<1>1. CASE EditSearchPage(Without(searchResults, fs))
  BY <1>1, WithoutFileList, EditSearchPageStep DEF IInv, SourcesOK
<1>2. CASE /\ p \in DOMAIN virtualPages
           /\ EditVirtualPage(p, Without(virtualPages[p], fs))
  <2>1. virtualPages[p] \in FileList
    BY <1>2 DEF IInv, SourcesOK
  <2> QED
    BY <1>2, <2>1, WithoutFileList, EditVirtualPageStep
<1> QED
  BY <1>1, <1>2 DEF RemoveFilesFromPage

(* sortFilesFromView keeps the invariant. *)
LEMMA SortFilesFromViewStep ==
  ASSUME IInv, HasAbortController, NEW p \in Edited, SortFilesFromView(p)
  PROVE  IInv'
<1> DEFINE S == {fileIds[i] : i \in DOMAIN loadedFiles}
<1>1. PICK l \in Orders(S) :
        \/ p \in VirtualPage \ DOMAIN virtualPages /\ OpenVirtualPage(p, l)
        \/ EditSearchPage(l)
        \/ p \in DOMAIN virtualPages /\ EditVirtualPage(p, l)
  BY DEF SortFilesFromView
<1>2. S \subseteq File
  BY FileListType DEF IInv, LoaderOK, ViewOK, LoadedMatchesIds
<1>3. IsFiniteSet(S)
  <2> DEFINE I == DOMAIN loadedFiles
             g == [i \in I |-> fileIds[i]]
  <2>1. I \in SUBSET (1..Len(fileIds)) /\ Len(fileIds) \in Nat
    BY FileListType DEF IInv, LoaderOK, ViewOK, LoadedMatchesIds
  <2>2. IsFiniteSet(I)
    BY <2>1, PartsFinite
  <2>3. g \in Surjection(I, S)
    BY DEF Surjection
  <2> QED
    BY <2>2, <2>3, FS_Surjection
<1> HIDE DEF S
<1>4. l \in FileList
  BY <1>2, <1>3, OrdersFileList
<1> QED
  BY <1>1, <1>4, OpenVirtualPageStep, EditSearchPageStep, EditVirtualPageStep

(* A loader that is woken has a chunk to go on with. *)
LEMMA SetIsLoadingPausedStep ==
  ASSUME IInv, NEW b \in BOOLEAN, SetIsLoadingPaused(b)
  PROVE  IInv'
<1> USE DEF IInv
<1>1. SourcesOK'
  BY SourcesKept DEF SetIsLoadingPaused, view
<1>2. CASE ~ b /\ loadController # NoRequest
  <2> DEFINE t == task[loadController]
  <2>1. loadController \in Request /\ t \in TaskType
    BY <1>2 DEF LoaderOK, ViewOK, RequestId
  <2>2. /\ task' = [task EXCEPT ![loadController] = IF TRUE THEN Woken(t) ELSE t]
        /\ isLoadingAwake' = (t.armed \/ isLoadingAwake)
        /\ UNCHANGED <<view, lastRequestId, owners, isLoadingFiles>>
        /\ isLoadingPaused' = b
    BY <1>2 DEF SetIsLoadingPaused
  <2>3. isLoadingAwake' \in BOOLEAN /\ isLoadingFiles' \in BOOLEAN
    BY <2>1, <2>2 DEF TaskType, LoaderOK, ViewOK
  <2> QED
    BY <1>1, <2>1, <2>2, <2>3, WakeStep
<1>3. CASE ~ (~ b /\ loadController # NoRequest)
  <2>1. /\ UNCHANGED <<view, lastRequestId, owners, isLoadingFiles, isLoadingAwake, task>>
        /\ isLoadingPaused' = b
    BY <1>3 DEF SetIsLoadingPaused
  <2>2. ViewOK'
    BY <2>1 DEF LoaderOK, ViewOK, view, owners
  <2>3. \A q \in Live' : q \in Live /\ q = abortOwner'
    BY <2>1 DEF LoaderOK, LiveOwnsAbort, Live, Loading, owners
  <2>4. \A q \in Request : task'[q].pc = "paused" => task'[q].queue # <<>>
    BY <2>1 DEF LoaderOK, PausedHasQueue
  <2> QED
    BY <1>1, <2>1, <2>2, <2>3, <2>4, QuietStep
<1> QED
  BY <1>2, <1>3

(* reprioritize moves chunks within the queue of one loader. *)
LEMMA ReprioritizeStep ==
  ASSUME LoaderOK, NEW r \in Request, NEW fs, Reprioritize(r, fs),
         UNCHANGED <<view, isLoadingFiles, isLoadingPaused, lastRequestId, owners>>
  PROVE  LoaderOK'
<1> DEFINE cs == ChunksFor(task[r].ids, fs)
           t == Reprioritized(task[r], cs)
           wakes == t.wanted # {}
<1>1. task[r] \in TaskType
  BY DEF LoaderOK, ViewOK
<1>2. cs \in SUBSET Nat
  BY <1>1, ChunksForType DEF TaskType
<1>3. /\ task' = [task EXCEPT ![r] = IF wakes THEN Woken(t) ELSE t]
      /\ isLoadingAwake' = ((wakes /\ t.armed) \/ isLoadingAwake)
  BY DEF Reprioritize
<1> HIDE DEF cs
<1>4. task[r].queue \in Seq(Nat)
  BY <1>1 DEF TaskType
<1>5. /\ Among(task[r].queue, cs) \o Without(task[r].queue, cs) \in Seq(Nat)
      /\ task[r].queue # <<>> =>
           Among(task[r].queue, cs) \o Without(task[r].queue, cs) # <<>>
  BY <1>4, ReorderedQueue
<1>6. task[r].wanted \cup (cs \cap Elements(task[r].queue)) \in SUBSET Nat
  BY <1>1, <1>2 DEF TaskType
<1>7. /\ t \in TaskType
      /\ t.pc = task[r].pc /\ t.ids = task[r].ids /\ t.page = task[r].page
      /\ t.resolved = task[r].resolved /\ t.aborted = task[r].aborted
      /\ task[r].queue # <<>> => t.queue # <<>>
  BY <1>1, <1>5, <1>6 DEF Reprioritized, TaskType
<1> HIDE DEF t
<1>8. wakes \in BOOLEAN /\ isLoadingAwake' \in BOOLEAN
  BY <1>3, <1>7 DEF TaskType, LoaderOK, ViewOK
<1>9. isLoadingFiles' \in BOOLEAN /\ isLoadingPaused' \in BOOLEAN
  BY DEF LoaderOK, ViewOK
<1> HIDE DEF wakes
<1> QED
  BY <1>3, <1>7, <1>8, <1>9, WakeStep

(* prioritize keeps the invariant. *)
LEMMA PrioritizeStep ==
  ASSUME IInv, NEW fs, Prioritize(fs)
  PROVE  IInv'
<1>1. SourcesOK'
  BY SourcesKept DEF Prioritize, IInv, view
<1>2. loadController \in Request
  BY DEF Prioritize, IInv, LoaderOK, ViewOK, RequestId
<1> QED
  BY <1>1, <1>2, ReprioritizeStep DEF Prioritize, IInv

(* demandFetchMetadata keeps the invariant. *)
LEMMA DemandFetchMetadataStep ==
  ASSUME IInv, NEW d \in Demand, NEW r \in Request, NEW fs \in SUBSET File,
         DemandFetchMetadata(d, r, fs)
  PROVE  IInv'
<1> DEFINE cs == ChunksFor(task[r].ids, fs) \ task[r].resolved
           R == Realized(task[r].ids, fs, loadedFiles)
           s == IF cs = {} THEN R
                ELSE IF task[r].pc = "done" THEN "rejected" ELSE "waiting"
           isFresh == r = loadController /\ Current(r)
           x == [status |-> s, owner |-> r, files |-> fs, waits |-> cs,
                 fresh |-> isFresh]
<1>1. LoaderOK'
  BY ReprioritizeStep DEF DemandFetchMetadata, IInv
<1>2. /\ demand' = [demand EXCEPT ![d] = x]
      /\ UNCHANGED <<view, sources>>
  BY DEF DemandFetchMetadata
<1>3. cs \in SUBSET Nat
  BY ChunksForType DEF IInv, LoaderOK, ViewOK, TaskType
<1>4. R \in {"ok", "unrealized", "wrong file"}
  BY RealizedType
<1> HIDE DEF cs, R
<1>5. s \in {"none", "waiting", "ok", "rejected", "unrealized", "wrong file"}
  BY <1>4
<1>6. isFresh \in BOOLEAN
  OBVIOUS
<1> HIDE DEF s, isFresh
<1>7. x \in DemandType
  BY <1>3, <1>5, <1>6 DEF DemandType
<1> HIDE DEF x
<1>8. demand' \in [Demand -> DemandType]
  BY <1>2, <1>7 DEF IInv, SourcesOK
<1>9. SourcesOK'
  BY <1>2, <1>8 DEF IInv, SourcesOK, sources, view
<1> QED
  BY <1>1, <1>9 DEF IInv

(* The Cancel button of a demand keeps the invariant. *)
LEMMA CancelDemandStep ==
  ASSUME IInv, NEW d \in Demand, CancelDemand(d)
  PROVE  IInv'
<1>1. demand' \in [Demand -> DemandType]
  <2>1. [demand[d] EXCEPT !.status = "rejected"] \in DemandType
    BY DEF IInv, SourcesOK, DemandType
  <2> QED
    BY <2>1 DEF CancelDemand, IInv, SourcesOK
<1>2. SourcesOK'
  BY <1>1 DEF CancelDemand, IInv, SourcesOK, sources, view
<1> QED
  BY <1>2, UnseenKeeps DEF CancelDemand, view
-----------------------------------------------------------------------------
(* Every call of the user and the client keeps the invariant. *)
LEMMA UserStepKeeps ==
  ASSUME IInv, HasAbortController, UserStep
  PROVE  IInv'
<1>1. CASE \E p \in Page : SetPage(p)
  BY <1>1, SetPageStep
<1>2. CASE UpdateActivePage \/ RefreshStart \/ CancelCurrentPageLoad
  BY <1>2, UpdateActivePageStep, RefreshStartStep, CancelStep
<1>3. CASE \E l \in Lists : SearchResultsChange(l)
  BY <1>3, SearchResultsChangeStep
<1>4. CASE \E p \in VirtualPage, l \in Lists : OpenVirtualPage(p, l)
  BY <1>4, OpenVirtualPageStep, ConstantsAssumption
<1>5. CASE \E p \in VirtualPage : RemoveVirtualPage(p)
  BY <1>5, RemoveVirtualPageStep
<1>6. CASE \E p \in Edited, f \in File : AddFilesToPage(p, f)
  BY <1>6, AddFilesToPageStep
<1>7. CASE \E p \in Edited, fs \in (SUBSET File) \ {{}} : RemoveFilesFromPage(p, fs)
  BY <1>7, RemoveFilesFromPageStep
<1>8. CASE \E p \in Edited : SortFilesFromView(p)
  BY <1>8, SortFilesFromViewStep
<1>9. CASE \E b \in BOOLEAN : SetIsLoadingPaused(b)
  BY <1>9, SetIsLoadingPausedStep
<1>10. CASE \E fs \in SUBSET File : Prioritize(fs)
  BY <1>10, PrioritizeStep
<1>11. CASE \E d \in Demand, r \in Request, fs \in (SUBSET File) \ {{}} :
              fs \subseteq Elements(task[r].ids) /\ DemandFetchMetadata(d, r, fs)
  BY <1>11, DemandFetchMetadataStep
<1>12. CASE \E d \in Demand : CancelDemand(d)
  BY <1>12, CancelDemandStep
<1> QED
  BY <1>1, <1>2, <1>3, <1>4, <1>5, <1>6, <1>7, <1>8, <1>9, <1>10, <1>11, <1>12
     DEF UserStep

(* A step that changes nothing keeps the invariant. *)
LEMMA StutterKeeps ==
  ASSUME IInv, UNCHANGED vars
  PROVE  IInv'
<1>1. SourcesOK'
  BY SourcesKept DEF IInv, vars, view
<1> QED
  BY <1>1, UnseenKeeps DEF vars, view

(* The invariant is inductive. *)
LEMMA NextKeeps ==
  ASSUME IInv, HasAbortController, [Next]_vars
  PROVE  IInv'
BY RequestStepKeeps, UserStepKeeps, RefreshEndStep, RefreshFailStep, StutterKeeps
   DEF Next

(* The invariant holds in the beginning. *)
LEMMA InitInv == Init => IInv
<1> SUFFICES ASSUME Init
             PROVE  IInv
  OBVIOUS
<1>1. \A r \in Request : task[r] = NoTask
  BY DEF Init
<1>2. \A r \in Request : task[r].pc = "none"
  BY <1>1 DEF NoTask
<1>3. ViewOK
  BY NoTaskType, EmptyFileList DEF Init, ViewOK, Page, RequestId, NoRequest
<1>4. Live = {}
  BY <1>2 DEF Live, Loading
<1>5. LoaderOK
  BY <1>2, <1>3, <1>4
     DEF LoaderOK, Init, LoadedMatchesIds, EmptyArray, FutureUnused,
         LiveOwnsAbort, LoaderShowsItsList, BuilderAlone, PausedHasQueue
<1>6. NoDemand \in DemandType
  BY DEF NoDemand, DemandType, NoRequest
<1>7. SourcesOK
  BY <1>6, EmptyFileList, ConstantsAssumption DEF SourcesOK, Init
<1> QED
  BY <1>5, <1>7 DEF IInv

(* The inductive invariant holds in every state of the loader. *)
THEOREM InvariantHolds ==
  ASSUME HasAbortController
  PROVE  Spec => []IInv
<1>1. Init => IInv
  BY InitInv
<1>2. IInv /\ [Next]_vars => IInv'
  BY NextKeeps
<1> QED
  BY <1>1, <1>2, PTL DEF Spec

(* The state of the loader has the types that pageStore.ts declares, and   *)
(* every list it shows, keeps or loads is free of holes and of doubles.    *)
THEOREM TypeCorrect ==
  ASSUME HasAbortController
  PROVE  Spec => []TypeOK
<1>1. IInv => TypeOK
  <2> SUFFICES ASSUME IInv
               PROVE  TypeOK
    OBVIOUS
  <2>1. \A i \in DOMAIN fileIds : i = 1 \/ i - 1 \in DOMAIN fileIds
    BY FileListType DEF IInv, LoaderOK, ViewOK
  <2>2. /\ DOMAIN loadedFiles \subseteq Nat
        /\ \A i \in DOMAIN loadedFiles : loadedFiles[i] \in File
    BY FileListType DEF IInv, LoaderOK, ViewOK, LoadedMatchesIds
  <2> QED
    BY <2>1, <2>2 DEF IInv, LoaderOK, ViewOK, SourcesOK, TypeOK, RequestId
<1> QED
  BY <1>1, InvariantHolds, PTL

(* Whatever requests overlap, the metadata at a position of the view is    *)
(* that of the file the list has there.                                    *)
THEOREM MetadataMatches ==
  ASSUME HasAbortController
  PROVE  Spec => []LoadedMatchesIds
<1>1. IInv => LoadedMatchesIds
  BY DEF IInv, LoaderOK
<1> QED
  BY <1>1, InvariantHolds, PTL

(* At most one request loads metadata without having been aborted. *)
THEOREM SingleLoader ==
  ASSUME HasAbortController
  PROVE  Spec => []OneLiveLoader
<1>1. IInv => OneLiveLoader
  BY DEF IInv, LoaderOK, LiveOwnsAbort, OneLiveLoader
<1> QED
  BY <1>1, InvariantHolds, PTL

(* The loader of the current request works on the list that is shown, and  *)
(* what is loaded is what its chunks brought: no chunk is lost or counted  *)
(* for another list.                                                       *)
THEOREM LoaderInStep ==
  ASSUME HasAbortController
  PROVE  Spec => []LoaderShowsItsList
<1>1. IInv => LoaderShowsItsList
  BY DEF IInv, LoaderOK
<1> QED
  BY <1>1, InvariantHolds, PTL
-----------------------------------------------------------------------------
(***************************************************************************)
(* The page loader implements the page view: every step starts the view    *)
(* over, fills it, keeps what was loaded, or leaves it alone.  The steps   *)
(* that update the page are followed down to the loader they start; the    *)
(* two that write metadata, a chunk that is in and a cancel, need that     *)
(* what is loaded matches the list, which the inductive invariant gives.   *)
(***************************************************************************)

(* updatePageContents empties the view or leaves it as it is. *)
LEMMA UpdateStartsOver ==
  ASSUME NEW r, NEW p, NEW clear \in BOOLEAN, p \in Page,
         UpdatePageContents(r, p, clear)
  PROVE  \/ loadedFiles' = <<>>
         \/ clear = FALSE /\ UNCHANGED <<fileIds, loadedFiles>>
<1>1. ASSUME NEW m \in BOOLEAN, Mark(clear, m)
      PROVE  \/ loadedFiles' = <<>>
             \/ clear = FALSE /\ UNCHANGED <<fileIds, loadedFiles>>
  <2>1. CASE clear = TRUE
    BY <1>1, <2>1 DEF Mark, EmptyArray
  <2>2. CASE clear = FALSE
    BY <1>1, <2>2 DEF Mark, EmptyArray
  <2> QED
    BY <2>1, <2>2
<1>2. ASSUME NEW l, NEW m \in BOOLEAN, UpdateWithFileIds(r, p, l, clear, m)
      PROVE  \/ loadedFiles' = <<>>
             \/ clear = FALSE /\ UNCHANGED <<fileIds, loadedFiles>>
  <2>1. CASE ShowNothing(r, p)
    BY <2>1 DEF ShowNothing, EmptyArray
  <2>2. CASE KeepBuilding(r, p, l, clear, m)
    BY <1>1, <2>2 DEF KeepBuilding
  <2>3. CASE StartLoading(r, p, l, Aborting(task))
    BY <2>3 DEF StartLoading, EmptyArray
  <2> QED
    BY <1>2, <2>1, <2>2, <2>3 DEF UpdateWithFileIds
<1>3. CASE p \in HydrusPage
  <2>1. Mark(clear, clear)
    BY <1>3, ConstantsAssumption DEF UpdatePageContents
  <2> QED
    BY <1>1, <2>1
<1>4. CASE p = SearchPage
  <2>1. UpdateWithFileIds(r, p, searchResults', clear, TRUE)
    BY <1>4, ConstantsAssumption DEF UpdatePageContents
  <2> QED
    BY <1>2, <2>1
<1>5. CASE p \in VirtualPage
  <2>1. UpdateWithFileIds(r, p, virtualPages'[p], clear, clear)
    BY <1>5, ConstantsAssumption DEF UpdatePageContents
  <2> QED
    BY <1>2, <2>1
<1> QED
  BY <1>3, <1>4, <1>5 DEF Page

(* An update of the active page starts the view over. *)
LEMMA UpdateRefines ==
  ASSUME NEW r, NEW p, NEW clear \in BOOLEAN, p \in Page,
         UpdatePageContents(r, p, clear), activePageKey' = p,
         clear = FALSE => activePageKey' = activePageKey
  PROVE  [View!Next]_View!vars
<1>1. CASE loadedFiles' = <<>>
  BY <1>1 DEF View!Next, View!StartOver
<1>2. CASE clear = FALSE /\ UNCHANGED <<fileIds, loadedFiles>>
  BY <1>2 DEF View!vars
<1> QED
  BY <1>1, <1>2, UpdateStartsOver

(* A step that the view does not show is a stutter of it. *)
LEMMA UnseenRefines ==
  ASSUME UNCHANGED <<activePageKey, fileIds, loadedFiles>>
  PROVE  [View!Next]_View!vars
BY DEF View!vars

(* The answer of getPageInfo starts the view over. *)
LEMMA InfoReplyRefines ==
  ASSUME NEW r \in Request, NEW l, InfoReply(r, l), activePageKey \in Page
  PROVE  [View!Next]_View!vars
<1>1. \/ loadedFiles' = <<>>
      \/ UNCHANGED <<fileIds, loadedFiles>>
  <2>1. CASE activePageKey # task[r].page
    BY <2>1 DEF InfoReply
  <2>2. CASE UpdateWithFileIds(r, task[r].page, l, FALSE, FALSE)
    BY <2>2 DEF UpdateWithFileIds, ShowNothing, KeepBuilding, StartLoading,
                Mark, EmptyArray
  <2>3. CASE UpdateTooLate(r, l)
    BY <2>3 DEF UpdateTooLate, ShowNothing, EmptyArray
  <2> QED
    BY <2>1, <2>2, <2>3 DEF InfoReply
<1>2. activePageKey' = activePageKey
  BY DEF InfoReply
<1> QED
  BY <1>1, <1>2 DEF View!Next, View!StartOver, View!vars

(* A loader that starts has started the view over. *)
LEMMA BuildResumeRefines ==
  ASSUME NEW r \in Request, BuildResume(r), activePageKey \in Page
  PROVE  [View!Next]_View!vars
<1>1. loadedFiles' = <<>> \/ UNCHANGED <<fileIds, loadedFiles>>
  BY DEF BuildResume, StartLoading, EmptyArray
<1> QED
  BY <1>1 DEF BuildResume, View!Next, View!StartOver, View!vars

(* A chunk that is in fills the view. *)
LEMMA ChunkReplyRefines ==
  ASSUME NEW r \in Request, ChunkReply(r), IInv'
  PROVE  [View!Next]_View!vars
<1>1. activePageKey' = activePageKey /\ fileIds' = fileIds
  BY DEF ChunkReply
<1>2. CASE loadedFiles' = Store(loadedFiles, task[r].ids, task[r].cur)
  <2>1. DOMAIN loadedFiles \subseteq DOMAIN loadedFiles'
    BY <1>2 DEF Store
  <2>2. fileIds' \in FileList /\ LoadedMatchesIds'
    BY DEF IInv, LoaderOK, ViewOK
  <2>3. DOMAIN fileIds' = 1..Len(fileIds')
    BY <2>2, FileListType
  <2>4. /\ DOMAIN loadedFiles' \subseteq DOMAIN fileIds
        /\ \A i \in DOMAIN loadedFiles' : loadedFiles'[i] = fileIds[i]
    BY <1>1, <2>2, <2>3 DEF LoadedMatchesIds
  <2> QED
    BY <1>1, <2>1, <2>4 DEF View!Next, View!Fill
<1>3. CASE loadedFiles' = loadedFiles
  BY <1>1, <1>3, UnseenRefines
<1> QED
  BY <1>2, <1>3 DEF ChunkReply

(* A step of a request is one of the view. *)
LEMMA RequestStepRefines ==
  ASSUME NEW r \in Request, RequestStep(r), IInv, IInv'
  PROVE  [View!Next]_View!vars
<1>1. activePageKey \in Page
  BY DEF IInv, LoaderOK, ViewOK
<1>2. CASE \E l \in Lists : InfoReply(r, l)
  BY <1>1, <1>2, InfoReplyRefines
<1>3. CASE BuildResume(r)
  BY <1>1, <1>3, BuildResumeRefines
<1>4. CASE ChunkReply(r)
  BY <1>4, ChunkReplyRefines
<1>5. CASE InfoFail(r) \/ ChunkFail(r) \/ ChunkAborted(r)
  BY <1>5, UnseenRefines DEF InfoFail, ChunkFail, ChunkAborted, view
<1> QED
  BY <1>2, <1>3, <1>4, <1>5 DEF RequestStep
-----------------------------------------------------------------------------
(* A cancel keeps the loaded files, all of them and in their order. *)
LEMMA CancelRefines ==
  ASSUME CancelCurrentPageLoad, IInv
  PROVE  [View!Next]_View!vars
<1>1. activePageKey' = activePageKey
  BY DEF CancelCurrentPageLoad
<1>2. CASE isLoadingFiles
  <2>1. fileIds' = Compact(loadedFiles) /\ loadedFiles' = Compact(loadedFiles)
    BY <1>2 DEF CancelCurrentPageLoad
  <2> DEFINE at == [k \in DOMAIN Compact(loadedFiles) |->
                      Nth(DOMAIN loadedFiles, k)]
  <2>2. /\ at \in [DOMAIN loadedFiles' -> DOMAIN loadedFiles]
        /\ \A k \in DOMAIN loadedFiles' : loadedFiles'[k] = loadedFiles[at[k]]
    BY <2>1, CompactProperties DEF IInv, LoaderOK, ViewOK, LoadedMatchesIds
  <2>3. /\ \A j, k \in DOMAIN loadedFiles' : j < k => at[j] < at[k]
        /\ \A i \in DOMAIN loadedFiles :
             \E k \in DOMAIN loadedFiles' : at[k] = i
    BY <2>1, CompactProperties DEF IInv, LoaderOK, ViewOK, LoadedMatchesIds
  <2> HIDE DEF at
  <2> QED
    BY <1>1, <2>1, <2>2, <2>3 DEF View!Next, View!KeepLoaded
<1>3. CASE ~ isLoadingFiles
  <2>1. UNCHANGED <<fileIds, loadedFiles>>
    BY <1>3 DEF CancelCurrentPageLoad
  <2> QED
    BY <1>1, <2>1, UnseenRefines
<1> QED
  BY <1>2, <1>3

(* An edit of a virtual page is one of the view. *)
LEMMA EditRefines ==
  ASSUME NEW p, NEW l, IInv, p \in DOMAIN virtualPages,
         EditVirtualPage(p, l)
  PROVE  [View!Next]_View!vars
<1>1. p \in Page /\ activePageKey' = activePageKey
  BY DEF EditVirtualPage, IInv, SourcesOK, Page
<1>2. CASE p = activePageKey
  BY <1>1, <1>2, UpdateRefines DEF EditVirtualPage
<1>3. CASE p # activePageKey
  BY <1>1, <1>3, UnseenRefines DEF EditVirtualPage
<1> QED
  BY <1>2, <1>3

(* An edit of the search page is one of the view. *)
LEMMA EditSearchRefines ==
  ASSUME NEW l, EditSearchPage(l)
  PROVE  [View!Next]_View!vars
<1>1. SearchPage \in Page /\ activePageKey' = activePageKey
  BY DEF EditSearchPage, Page
<1>2. CASE activePageKey = SearchPage
  BY <1>1, <1>2, UpdateRefines DEF EditSearchPage
<1>3. CASE activePageKey # SearchPage
  BY <1>1, <1>3, UnseenRefines DEF EditSearchPage
<1> QED
  BY <1>2, <1>3

(* A call of the user is a step of the view. *)
LEMMA UserStepRefines ==
  ASSUME UserStep, IInv
  PROVE  [View!Next]_View!vars
<1>1. activePageKey \in Page /\ SearchPage \in Page
      /\ \A p \in VirtualPage : p \in Page
  BY DEF IInv, LoaderOK, ViewOK, Page
<1>2. CASE \E p \in Page : SetPage(p)
  BY <1>2, UpdateRefines DEF SetPage
<1>3. CASE UpdateActivePage
  BY <1>1, <1>3, UpdateRefines DEF UpdateActivePage
<1>4. CASE CancelCurrentPageLoad
  BY <1>4, CancelRefines
<1>5. ASSUME NEW l \in Lists, SearchResultsChange(l)
      PROVE  [View!Next]_View!vars
  <2>1. CASE activePageKey = SearchPage
    BY <1>1, <1>5, <2>1, UpdateRefines DEF SearchResultsChange
  <2>2. CASE activePageKey # SearchPage
    BY <1>5, <2>2, UnseenRefines DEF SearchResultsChange
  <2> QED
    BY <2>1, <2>2
<1>6. ASSUME NEW p \in VirtualPage, NEW l, OpenVirtualPage(p, l)
      PROVE  [View!Next]_View!vars
  BY <1>1, <1>6, UpdateRefines DEF OpenVirtualPage
<1>7. ASSUME NEW p \in VirtualPage, RemoveVirtualPage(p)
      PROVE  [View!Next]_View!vars
  <2>1. CASE p = activePageKey
    BY <1>1, <1>7, <2>1, UpdateRefines DEF RemoveVirtualPage
  <2>2. CASE p # activePageKey
    BY <1>7, <2>2, UnseenRefines DEF RemoveVirtualPage, view
  <2> QED
    BY <2>1, <2>2
<1>8. CASE \E p \in Edited, f \in File : AddFilesToPage(p, f)
  BY <1>8, EditRefines, EditSearchRefines DEF AddFilesToPage
<1>9. CASE \E p \in Edited, fs \in (SUBSET File) \ {{}} : RemoveFilesFromPage(p, fs)
  BY <1>9, EditRefines, EditSearchRefines DEF RemoveFilesFromPage
<1>10. CASE \E p \in Edited : SortFilesFromView(p)
  BY <1>6, <1>10, EditRefines, EditSearchRefines DEF SortFilesFromView
<1>11. CASE \/ RefreshStart
            \/ \E b \in BOOLEAN : SetIsLoadingPaused(b)
            \/ \E fs \in SUBSET File : Prioritize(fs)
            \/ \E d \in Demand : CancelDemand(d)
  BY <1>11, UnseenRefines
     DEF RefreshStart, SetIsLoadingPaused, Prioritize, CancelDemand, view
<1>12. CASE \E d \in Demand, r \in Request, fs \in (SUBSET File) \ {{}} :
              DemandFetchMetadata(d, r, fs)
  BY <1>12, UnseenRefines DEF DemandFetchMetadata, view
<1> QED
  BY <1>2, <1>3, <1>4, <1>5, <1>6, <1>7, <1>8, <1>9, <1>10, <1>11, <1>12
     DEF UserStep

(* Every step of the store is a step of the view or a stutter. *)
LEMMA NextRefines ==
  ASSUME IInv, IInv', [Next]_vars
  PROVE  [View!Next]_View!vars
<1>1. CASE \E r \in Request : RequestStep(r)
  BY <1>1, RequestStepRefines
<1>2. CASE UserStep
  BY <1>2, UserStepRefines
<1>3. ASSUME NEW p \in HydrusPage, RefreshEnd(p)
      PROVE  [View!Next]_View!vars
  <2>1. CASE p = activePageKey
    BY <1>3, <2>1, UpdateRefines DEF RefreshEnd, Page
  <2>2. CASE p # activePageKey
    BY <1>3, <2>2, UnseenRefines DEF RefreshEnd
  <2> QED
    BY <2>1, <2>2
<1>4. CASE \E p \in HydrusPage : RefreshFail(p)
  BY <1>4, UnseenRefines DEF RefreshFail, view
<1>5. CASE UNCHANGED vars
  BY <1>5, UnseenRefines DEF vars, view
<1> QED
  BY <1>1, <1>2, <1>3, <1>4, <1>5 DEF Next

(* The page store shows one list at a time, with metadata of that list     *)
(* only, and a list it keeps loses no metadata: it implements PageView     *)
(* wherever an AbortController can stop a load.                            *)
THEOREM Refinement ==
  ASSUME HasAbortController
  PROVE  Spec => ImplementsPageView
<1>1. Init => View!Init
  BY DEF Init, View!Init, Page, EmptyArray
<1>2. IInv /\ IInv' /\ [Next]_vars => [View!Next]_View!vars
  BY NextRefines
<1> QED
  BY <1>1, <1>2, InvariantHolds, PTL DEF Spec, ImplementsPageView, View!Spec
-----------------------------------------------------------------------------
(***************************************************************************)
(* What a load owes to those who wait, where no page is of the Hydrus       *)
(* server.  The loading flag, the AbortController and the loadController   *)
(* are three records of one thing, which LoadInv says they agree on.       *)
(***************************************************************************)

(* No request is answered late: nothing is asked of a Hydrus page. *)
NothingAsked ==
  refreshing = {} /\ \A r \in Request : task[r].pc # "info"

(* The flag is set only while the last request builds or loads. *)
FlagHasLoader ==
  isLoadingFiles =>
    \E r \in Request :
      /\ Current(r) /\ ~task[r].aborted
      /\ task[r].pc \in {"build", "fetch", "paused"}

(* The store has controllers of the past, or of the last request, which then
   loads with the flag set.                                                *)
ControllersInStep ==
  /\ abortOwner <= lastRequestId /\ loadController <= lastRequestId
  /\ \A r \in Request : r = lastRequestId /\ r \in {abortOwner, loadController} =>
       isLoadingFiles /\ task[r].pc \in {"fetch", "paused"}

(* A request that is not made has no chunk. *)
UnmadeBlank == \A r \in Request : task[r].pc = "none" => task[r].cur = 0

(* The chunks a demand does not wait for are resolved. *)
DemandInStep ==
  \A d \in Demand : LET r == demand[d].owner IN
    demand[d].status = "waiting" =>
      /\ r \in Request /\ r <= lastRequestId /\ task[r].pc # "build"
      /\ ChunksFor(task[r].ids, demand[d].files) \subseteq demand[d].waits \cup task[r].resolved

LoadInv ==
  /\ NothingAsked /\ FlagHasLoader /\ ControllersInStep /\ UnmadeBlank
  /\ DemandInStep /\ FreshDemandsRealized

(* No page is of the Hydrus server, and the browser aborts fetches. *)
Local == HasAbortController /\ HydrusPage = {}

LEMMA LoadTypes ==
  ASSUME IInv
  PROVE  /\ task \in [Request -> TaskType] /\ lastRequestId \in Nat
         /\ abortOwner \in Nat /\ loadController \in Nat /\ isLoadingFiles \in BOOLEAN
         /\ demand \in [Demand -> DemandType] /\ activePageKey \in Page
BY RequestType DEF IInv, LoaderOK, ViewOK, SourcesOK

(* Aborting sets the signal of one request, and nothing else. *)
LEMMA AbortingFields ==
  ASSUME IInv
  PROVE  \A q \in Request :
           /\ Aborting(task)[q].pc = task[q].pc /\ Aborting(task)[q].page = task[q].page
           /\ Aborting(task)[q].ids = task[q].ids /\ Aborting(task)[q].cur = task[q].cur
           /\ Aborting(task)[q].resolved = task[q].resolved
           /\ q # abortOwner => Aborting(task)[q] = task[q]
<1>1. task \in [Request -> TaskType] /\ abortOwner \in RequestId
  BY DEF IInv, LoaderOK, ViewOK
<1>2. CASE abortOwner = NoRequest
  BY <1>2 DEF Aborting
<1>3. CASE abortOwner \in Request
  <2>1. Aborting(task) = [task EXCEPT ![abortOwner] = [task[abortOwner] EXCEPT !.aborted = TRUE]]
    BY <1>3, RequestType DEF Aborting
  <2>2. task[abortOwner] \in TaskType
    BY <1>1, <1>3
  <2>3. Aborting(task)[abortOwner] = [task[abortOwner] EXCEPT !.aborted = TRUE]
    BY <1>1, <1>3, <2>1
  <2>4. \A q \in Request \ {abortOwner} : Aborting(task)[q] = task[q]
    BY <1>1, <2>1
  <2> QED
    BY <2>2, <2>3, <2>4 DEF TaskType
<1> QED
  BY <1>1, <1>2, <1>3 DEF RequestId

(* What a step owes to the demands that it does not answer. *)
LEMMA DemandKeeps ==
  ASSUME IInv, DemandInStep, FreshDemandsRealized,
         lastRequestId' \in Nat, lastRequestId <= lastRequestId',
         \A d \in Demand : demand'[d] = demand[d] \/ demand'[d] = [demand[d] EXCEPT !.status = "rejected"],
         \A q \in Request : q <= lastRequestId /\ task[q].pc # "build" =>
           /\ task'[q].pc # "build" /\ task'[q].ids = task[q].ids
           /\ task[q].resolved \subseteq task'[q].resolved
  PROVE  DemandInStep' /\ FreshDemandsRealized'
<1>1. ASSUME NEW d \in Demand
      PROVE  /\ demand'[d].owner = demand[d].owner /\ demand'[d].files = demand[d].files
             /\ demand'[d].waits = demand[d].waits /\ demand'[d].fresh = demand[d].fresh
             /\ demand'[d].status \in {demand[d].status, "rejected"}
  BY LoadTypes DEF DemandType
<1>2. DemandInStep'
  <2> SUFFICES ASSUME NEW d \in Demand, demand'[d].status = "waiting"
               PROVE  LET r == demand'[d].owner IN
                      /\ r \in Request /\ r <= lastRequestId' /\ task'[r].pc # "build"
                      /\ ChunksFor(task'[r].ids, demand'[d].files) \subseteq demand'[d].waits \cup task'[r].resolved
    BY DEF DemandInStep
  <2>1. demand[d].status = "waiting"
    BY <1>1
  <2>2. PICK r \in Request :
          /\ r = demand[d].owner /\ r <= lastRequestId /\ task[r].pc # "build"
          /\ ChunksFor(task[r].ids, demand[d].files) \subseteq demand[d].waits \cup task[r].resolved
    BY <2>1 DEF DemandInStep
  <2>3. /\ task'[r].pc # "build" /\ task'[r].ids = task[r].ids
        /\ task[r].resolved \subseteq task'[r].resolved
    BY <2>2
  <2>4. r <= lastRequestId'
    BY <2>2, LoadTypes, RequestType
  <2>5. r = demand'[d].owner /\ demand'[d].files = demand[d].files /\ demand'[d].waits = demand[d].waits
    BY <1>1, <2>2
  <2>6. ChunksFor(task'[r].ids, demand'[d].files) \subseteq demand'[d].waits \cup task'[r].resolved
    BY <2>2, <2>3, <2>5
  <2> QED
    BY <2>3, <2>4, <2>5, <2>6
<1>3. FreshDemandsRealized'
  BY <1>1 DEF FreshDemandsRealized
<1> QED
  BY <1>2, <1>3

(* A new request, which stops the load before it, builds its chunks, loads
   or has nothing to load.                                                 *)
LEMMA NewRequestLoads ==
  ASSUME IInv, IInv', LoadInv, NEW r \in Request, lastRequestId < r, lastRequestId' = r, NEW t,
         task' = [Aborting(task) EXCEPT ![r] = t],
         t.pc \in {"build", "fetch", "done"}, t.page = activePageKey', t.aborted = FALSE,
         isLoadingFiles' => t.pc # "done",
         \/ UNCHANGED <<abortOwner, loadController>>
         \/ abortOwner' = r /\ loadController' = r /\ t.pc = "fetch" /\ isLoadingFiles',
         UNCHANGED demand, refreshing' = {}
  PROVE  LoadInv'
<1>1. /\ task'[r] = t /\ \A q \in Request \ {r} : task'[q] = Aborting(task)[q]
      /\ lastRequestId \in Nat /\ r \in Nat /\ abortOwner \in Nat /\ loadController \in Nat
  BY AbortingType, LoadTypes, RequestType DEF IInv
<1>2. \A q \in Request \ {r} : /\ task'[q].pc = task[q].pc /\ task'[q].cur = task[q].cur
                             /\ task'[q].ids = task[q].ids /\ task'[q].resolved = task[q].resolved
  BY <1>1, AbortingFields
<1>3. NothingAsked' /\ UnmadeBlank'
  BY <1>1, <1>2 DEF LoadInv, NothingAsked, UnmadeBlank
<1>4. FlagHasLoader'
  BY <1>1 DEF FlagHasLoader, Current
<1>5. ControllersInStep'
  BY <1>1 DEF LoadInv, ControllersInStep
<1>6. DemandInStep' /\ FreshDemandsRealized'
  <2>1. \A q \in Request : q <= lastRequestId => q # r
    BY <1>1, RequestType
  <2> QED
    BY <1>1, <1>2, <2>1, DemandKeeps DEF LoadInv
<1> QED
  BY <1>3, <1>4, <1>5, <1>6 DEF LoadInv

LEMMA UpdateLoads ==
  ASSUME IInv, IInv', LoadInv, Local, NEW r \in {NextRequest, NextRequest + 1}, NEW p \in Page,
         NEW clear \in BOOLEAN, UpdatePageContents(r, p, clear), activePageKey' = p,
         UNCHANGED <<demand, refreshing>>
  PROVE  LoadInv'
<1>1. /\ r \in Request /\ lastRequestId < r /\ lastRequestId' = r /\ refreshing' = {}
      /\ UNCHANGED demand
  BY NextRequestType DEF UpdatePageContents, LoadInv, NothingAsked
<1>2. PICK l, mark : UpdateWithFileIds(r, p, l, clear, mark)
  <2>1. p \notin HydrusPage /\ p \in {SearchPage} \cup VirtualPage
    BY DEF Local, Page
  <2>2. CASE p = SearchPage
    BY <2>1, <2>2, ConstantsAssumption DEF UpdatePageContents
  <2>3. CASE p \in VirtualPage
    BY <2>1, <2>3, ConstantsAssumption DEF UpdatePageContents
  <2> QED
    BY <2>1, <2>2, <2>3
<1>3. CASE ShowNothing(r, p)
  <2>1. PICK t : /\ t = [NoTask EXCEPT !.pc = "done", !.page = p]
                 /\ task' = [Aborting(task) EXCEPT ![r] = t]
    BY <1>3 DEF ShowNothing
  <2>2. t.pc = "done" /\ t.page = activePageKey' /\ t.aborted = FALSE
    BY <2>1 DEF NoTask
  <2>3. ~isLoadingFiles' /\ UNCHANGED <<abortOwner, loadController>>
    BY <1>3 DEF ShowNothing, owners
  <2> QED
    BY <1>1, <2>1, <2>2, <2>3, NewRequestLoads
<1>4. CASE KeepBuilding(r, p, l, clear, mark)
  <2>1. PICK t : /\ t = [NoTask EXCEPT !.pc = "build", !.page = p, !.ids = l]
                 /\ task' = [Aborting(task) EXCEPT ![r] = t]
    BY <1>4 DEF KeepBuilding
  <2>2. t.pc = "build" /\ t.page = activePageKey' /\ t.aborted = FALSE
    BY <2>1 DEF NoTask
  <2>3. UNCHANGED <<abortOwner, loadController>>
    BY <1>4 DEF KeepBuilding, Mark, owners
  <2> QED
    BY <1>1, <2>1, <2>2, <2>3, NewRequestLoads
<1>5. CASE StartLoading(r, p, l, Aborting(task))
  <2>1. PICK t : /\ t = [NoTask EXCEPT !.pc = "fetch", !.page = p, !.ids = l, !.cur = 1,
                           !.queue = [k \in 1..(ChunkCount(l) - 1) |-> k + 1]]
                 /\ task' = [Aborting(task) EXCEPT ![r] = t]
    BY <1>5 DEF StartLoading
  <2>2. t.pc = "fetch" /\ t.page = activePageKey' /\ t.aborted = FALSE
    BY <2>1 DEF NoTask
  <2>3. isLoadingFiles' /\ abortOwner' = r /\ loadController' = r
    BY <1>5 DEF StartLoading, Local
  <2> QED
    BY <1>1, <2>1, <2>2, <2>3, NewRequestLoads
<1> QED
  BY <1>2, <1>3, <1>4, <1>5 DEF UpdateWithFileIds

(* A load is over: nothing is left of it in the store. *)
LEMMA LoadIsOver ==
  ASSUME IInv, IInv', LoadInv, ~isLoadingFiles', abortOwner' = NoRequest, loadController' = NoRequest,
         UNCHANGED refreshing,
         \A q \in Request : /\ task'[q].pc # "info"
                            /\ task'[q].pc = "none" => task[q].pc = "none" /\ task'[q].cur = task[q].cur
  PROVE  NothingAsked' /\ FlagHasLoader' /\ ControllersInStep' /\ UnmadeBlank'
<1>1. lastRequestId' \in Nat /\ NoRequest = 0
  BY LoadTypes, RequestType DEF IInv, LoaderOK, ViewOK, NoRequest
<1>2. ControllersInStep'
  BY <1>1, RequestType DEF ControllersInStep
<1> QED
  BY <1>2 DEF LoadInv, NothingAsked, FlagHasLoader, UnmadeBlank

(* A request that is not the one that loads ends. *)
LEMMA OtherRequestEnds ==
  ASSUME IInv, IInv', LoadInv, NEW r \in Request, ~Current(r) \/ task[r].aborted,
         task' = [task EXCEPT ![r].pc = "done"], task[r].pc # "none",
         demand' \in {demand, Rejected(r)}, UNCHANGED refreshing,
         UNCHANGED <<activePageKey, isLoadingFiles, lastRequestId, abortOwner, loadController>>
  PROVE  LoadInv'
<1>1. task \in [Request -> TaskType] /\ task[r] \in TaskType /\ lastRequestId \in Nat
  BY LoadTypes
<1>2. /\ \A q \in Request \ {r} : task'[q] = task[q]
      /\ task'[r].pc = "done" /\ task'[r].ids = task[r].ids /\ task'[r].resolved = task[r].resolved
  BY <1>1 DEF TaskType
<1>3. isLoadingFiles => r # lastRequestId
  BY DEF LoadInv, FlagHasLoader, Current
<1>4. NothingAsked' /\ UnmadeBlank'
  BY <1>2 DEF LoadInv, NothingAsked, UnmadeBlank
<1>5. FlagHasLoader'
  BY <1>2, <1>3 DEF LoadInv, FlagHasLoader, Current
<1>6. ControllersInStep'
  BY <1>2, <1>3 DEF LoadInv, ControllersInStep
<1>7. DemandInStep' /\ FreshDemandsRealized'
  <2>1. \A d \in Demand : demand'[d] = demand[d] \/ demand'[d] = [demand[d] EXCEPT !.status = "rejected"]
    BY DEF Rejected
  <2>2. lastRequestId <= lastRequestId' /\ lastRequestId' \in Nat
    BY <1>1
  <2> QED
    BY <1>2, <2>1, <2>2, DemandKeeps DEF LoadInv
<1> QED
  BY <1>4, <1>5, <1>6, <1>7 DEF LoadInv

(* What the chunks of the wanted files brought is realized. *)
LEMMA ChunksRealize ==
  ASSUME NEW l, NEW fs, NEW arr, NEW S,
         ChunksFor(l, fs) \subseteq S,
         DOMAIN arr = UNION {Positions(l, c) : c \in S},
         \A i \in DOMAIN arr : arr[i] = l[i]
  PROVE  Realized(l, fs, arr) = "ok"
<1>1. ASSUME NEW i \in 1..Len(l), l[i] \in fs
      PROVE  i \in DOMAIN arr
  <2>1. ChunkOf(i) \in S
    BY <1>1 DEF ChunksFor
  <2>2. i \in Positions(l, ChunkOf(i))
    BY DEF Positions
  <2> QED
    BY <2>1, <2>2
<1> QED
  BY <1>1 DEF Realized

(* The loader of the store is the one that shows its list. *)
LEMMA OwnerIsLive ==
  ASSUME IInv, LoadInv, NEW r \in Request, r = loadController, Current(r)
  PROVE  /\ r \in Live /\ task[r].pc # "done"
         /\ fileIds = task[r].ids
         /\ DOMAIN loadedFiles = UNION {Positions(task[r].ids, c) : c \in task[r].resolved}
         /\ \A i \in DOMAIN loadedFiles : loadedFiles[i] = task[r].ids[i]
<1>1. isLoadingFiles /\ task[r].pc \in {"fetch", "paused"}
  BY DEF LoadInv, ControllersInStep, Current
<1>2. ~task[r].aborted
  BY <1>1 DEF LoadInv, FlagHasLoader, Current
<1>3. r \in Live
  BY <1>1, <1>2 DEF Live, Loading
<1> QED
  BY <1>1, <1>3 DEF IInv, LoaderOK, LoaderShowsItsList, LoadedMatchesIds

(* A chunk is in: what waited only for it is realized. *)
LEMMA ChunkReplyLoads ==
  ASSUME IInv, IInv', LoadInv, NEW r \in Request, ChunkReply(r)
  PROVE  LoadInv'
<1> DEFINE c == task[r].cur
           arr == Store(loadedFiles, task[r].ids, c)
           t == [task[r] EXCEPT !.resolved = @ \cup {c}, !.wanted = @ \ {c}]
<1>1. /\ task \in [Request -> TaskType] /\ task[r] \in TaskType /\ lastRequestId \in Nat
      /\ task[r].pc = "fetch" /\ ~task[r].aborted
      /\ UNCHANGED <<activePageKey, lastRequestId, refreshing>>
  BY LoadTypes DEF ChunkReply, sources
<1>2. CASE ~Current(r)
  BY <1>1, <1>2, OtherRequestEnds DEF ChunkReply, owners
<1>3. CASE Current(r)
  <2>1. /\ demand' = Resolved(r, c, arr) /\ AfterChunk(r, t)
    BY <1>3 DEF ChunkReply
  <2>2. r \in Live
    BY <1>1 DEF Live, Loading
  <2>3. /\ fileIds = task[r].ids
        /\ DOMAIN loadedFiles = UNION {Positions(task[r].ids, k) : k \in task[r].resolved}
        /\ \A i \in DOMAIN loadedFiles : loadedFiles[i] = task[r].ids[i]
    BY <1>3, <2>2 DEF IInv, LoaderOK, LoaderShowsItsList, LoadedMatchesIds
  <2>4. /\ DOMAIN arr = UNION {Positions(task[r].ids, k) : k \in task[r].resolved \cup {c}}
        /\ \A i \in DOMAIN arr : arr[i] = task[r].ids[i]
    BY <2>3 DEF Store
  <2>5. /\ t.pc = "fetch" /\ t.ids = task[r].ids /\ t.resolved = task[r].resolved \cup {c}
        /\ t.page = task[r].page /\ ~t.aborted /\ t \in TaskType
    BY <1>1 DEF TaskType
  <2> HIDE DEF t, arr
  <2>6. PICK u :
          /\ task' = [task EXCEPT ![r] = u]
          /\ u.ids = task[r].ids /\ u.resolved = task[r].resolved \cup {c}
          /\ u.page = task[r].page /\ ~u.aborted
          /\ \/ Finish /\ u.pc = "done"
             \/ u.pc \in {"fetch", "paused"} /\ UNCHANGED <<isLoadingFiles, owners>>
    <3>1. CASE t.queue = <<>>
      <4>1. Finish /\ task' = [task EXCEPT ![r] = [t EXCEPT !.pc = "done"]]
        BY <2>1, <3>1 DEF AfterChunk
      <4>2. PICK u : u = [t EXCEPT !.pc = "done"]
        OBVIOUS
      <4>3. u.pc = "done" /\ u.ids = t.ids /\ u.resolved = t.resolved /\ u.page = t.page /\ u.aborted = t.aborted
        BY <2>5, <4>2 DEF TaskType
      <4> QED
        BY <2>5, <4>1, <4>2, <4>3
    <3>2. CASE t.queue # <<>> /\ t.wanted = {} /\ isLoadingPaused
      <4>1. /\ UNCHANGED <<isLoadingFiles, owners>>
            /\ task' = [task EXCEPT ![r] = [t EXCEPT !.pc = "paused", !.armed = TRUE]]
        BY <2>1, <3>2 DEF AfterChunk
      <4>2. PICK u : u = [t EXCEPT !.pc = "paused", !.armed = TRUE]
        OBVIOUS
      <4>3. u.pc = "paused" /\ u.ids = t.ids /\ u.resolved = t.resolved /\ u.page = t.page /\ u.aborted = t.aborted
        BY <2>5, <4>2 DEF TaskType
      <4> QED
        BY <2>5, <4>1, <4>2, <4>3
    <3>3. CASE t.queue # <<>> /\ ~(t.wanted = {} /\ isLoadingPaused)
      <4>1. PICK b : /\ UNCHANGED <<isLoadingFiles, owners>>
                     /\ task' = [task EXCEPT ![r] = NextChunk([t EXCEPT !.armed = b])]
        BY <2>1, <3>3 DEF AfterChunk
      <4>2. PICK u : u = NextChunk([t EXCEPT !.armed = b])
        OBVIOUS
      <4>3. u.pc = "fetch" /\ u.ids = t.ids /\ u.resolved = t.resolved /\ u.page = t.page /\ u.aborted = t.aborted
        BY <2>5, <4>2 DEF TaskType, NextChunk
      <4> QED
        BY <2>5, <4>1, <4>2, <4>3
    <3> QED
      BY <3>1, <3>2, <3>3
  <2>7. task'[r] = u /\ \A q \in Request \ {r} : task'[q] = task[q]
    BY <1>1, <2>6
  <2>8. NothingAsked' /\ FlagHasLoader' /\ ControllersInStep' /\ UnmadeBlank'
    <3>1. CASE Finish /\ u.pc = "done"
      BY <1>1, <2>7, <3>1, LoadIsOver DEF Finish, LoadInv, NothingAsked
    <3>2. CASE u.pc \in {"fetch", "paused"} /\ UNCHANGED <<isLoadingFiles, owners>>
      <4>1. NothingAsked' /\ UnmadeBlank'
        BY <1>1, <2>7, <3>2 DEF LoadInv, NothingAsked, UnmadeBlank
      <4>2. FlagHasLoader'
        BY <1>1, <1>3, <2>6, <2>7, <3>2 DEF LoadInv, FlagHasLoader, Current
      <4>3. ControllersInStep'
        BY <1>1, <2>7, <3>2 DEF LoadInv, ControllersInStep, owners
      <4> QED
        BY <4>1, <4>2, <4>3
    <3> QED
      BY <2>6, <3>1, <3>2
  <2>9. ASSUME NEW d \in Demand, demand[d].status = "waiting", demand[d].owner = r
        PROVE  /\ demand'[d].waits = demand[d].waits \ {c} /\ demand'[d].owner = r
               /\ demand'[d].files = demand[d].files /\ demand'[d].fresh = demand[d].fresh
               /\ demand'[d].status \in {"waiting", "ok"}
               /\ ChunksFor(task[r].ids, demand[d].files) \subseteq demand[d].waits \cup task[r].resolved
    <3>1. ChunksFor(task[r].ids, demand[d].files) \subseteq demand[d].waits \cup task[r].resolved
      BY <2>9 DEF LoadInv, DemandInStep
    <3>2. demand'[d] = [demand[d] EXCEPT
                          !.waits = @ \ {c},
                          !.status = IF demand[d].waits \subseteq {c}
                                     THEN Realized(task[r].ids, demand[d].files, arr)
                                     ELSE "waiting"]
      BY <2>1, <2>9 DEF Resolved
    <3>3. demand[d].waits \subseteq {c} => Realized(task[r].ids, demand[d].files, arr) = "ok"
      <4>1. ASSUME demand[d].waits \subseteq {c}
            PROVE  ChunksFor(task[r].ids, demand[d].files) \subseteq task[r].resolved \cup {c}
        BY <3>1, <4>1
      <4> QED
        BY <2>4, <4>1, ChunksRealize
    <3>4. demand[d] \in DemandType
      BY LoadTypes
    <3>5. PICK s \in {"waiting", "ok"} : demand'[d] = [demand[d] EXCEPT !.waits = @ \ {c}, !.status = s]
      BY <3>2, <3>3
    <3> QED
      BY <2>9, <3>1, <3>4, <3>5 DEF DemandType
  <2>10. ASSUME NEW d \in Demand, ~(demand[d].status = "waiting" /\ demand[d].owner = r)
         PROVE  demand'[d] = demand[d]
    BY <2>1, <2>10 DEF Resolved
  <2>11. FreshDemandsRealized'
    BY <2>9, <2>10 DEF LoadInv, FreshDemandsRealized
  <2>12. DemandInStep'
    <3> SUFFICES ASSUME NEW d \in Demand, demand'[d].status = "waiting"
                 PROVE  LET q == demand'[d].owner IN
                        /\ q \in Request /\ q <= lastRequestId' /\ task'[q].pc # "build"
                        /\ ChunksFor(task'[q].ids, demand'[d].files) \subseteq demand'[d].waits \cup task'[q].resolved
      BY DEF DemandInStep
    <3>1. CASE demand[d].status = "waiting" /\ demand[d].owner = r
      <4>1. r <= lastRequestId /\ u.pc # "build"
        BY <2>6, <3>1 DEF LoadInv, DemandInStep
      <4>2. ChunksFor(task'[r].ids, demand'[d].files) \subseteq demand'[d].waits \cup task'[r].resolved
        BY <2>6, <2>7, <2>9, <3>1
      <4> QED
        BY <1>1, <2>7, <2>9, <3>1, <4>1, <4>2
    <3>2. CASE ~(demand[d].status = "waiting" /\ demand[d].owner = r)
      <4>1. demand'[d] = demand[d] /\ demand[d].owner # r
        BY <2>10, <3>2
      <4> QED
        BY <1>1, <2>7, <4>1 DEF LoadInv, DemandInStep
    <3> QED
      BY <3>1, <3>2
  <2> QED
    BY <2>8, <2>11, <2>12 DEF LoadInv
<1> QED
  BY <1>2, <1>3

(* The other steps of a request. *)
LEMMA RequestStepLoads ==
  ASSUME IInv, IInv', LoadInv, Local, NEW r \in Request, RequestStep(r)
  PROVE  LoadInv'
<1>1. /\ task \in [Request -> TaskType] /\ task[r] \in TaskType /\ lastRequestId \in Nat
      /\ task[r].pc # "info"
  BY LoadTypes DEF LoadInv, NothingAsked
<1>2. CASE ChunkReply(r)
  BY <1>2, ChunkReplyLoads
<1>3. CASE ChunkAborted(r)
  BY <1>3, OtherRequestEnds DEF ChunkAborted, view, flags, owners, sources
<1>4. CASE ChunkFail(r) /\ ~Current(r)
  BY <1>4, OtherRequestEnds DEF ChunkFail, view, owners, sources
<1>5. CASE BuildResume(r) /\ ~Current(r)
  BY <1>5, OtherRequestEnds DEF BuildResume, flags, owners, sources
<1>6. CASE ChunkFail(r) /\ Current(r)
  <2>1. /\ task' = [task EXCEPT ![r].pc = "done"] /\ demand' = Rejected(r) /\ Finish
        /\ UNCHANGED <<refreshing, lastRequestId>>
    BY <1>6 DEF ChunkFail, sources
  <2>2. /\ \A q \in Request \ {r} : task'[q] = task[q]
        /\ task'[r].pc = "done" /\ task'[r].ids = task[r].ids /\ task'[r].resolved = task[r].resolved
    BY <1>1, <2>1 DEF TaskType
  <2>3. NothingAsked' /\ FlagHasLoader' /\ ControllersInStep' /\ UnmadeBlank'
    BY <2>1, <2>2, LoadIsOver DEF Finish, LoadInv, NothingAsked
  <2>4. \A d \in Demand : demand'[d] = demand[d] \/ demand'[d] = [demand[d] EXCEPT !.status = "rejected"]
    BY <2>1 DEF Rejected
  <2>5. lastRequestId' \in Nat /\ lastRequestId <= lastRequestId'
    BY <1>1, <2>1
  <2>6. DemandInStep' /\ FreshDemandsRealized'
    BY <2>2, <2>4, <2>5, DemandKeeps DEF LoadInv
  <2> QED
    BY <2>3, <2>6 DEF LoadInv
<1>7. CASE BuildResume(r) /\ Current(r)
  <2>1. PICK t : /\ t = [NoTask EXCEPT !.pc = "fetch", !.page = task[r].page, !.ids = task[r].ids, !.cur = 1,
                           !.queue = [k \in 1..(ChunkCount(task[r].ids) - 1) |-> k + 1]]
                 /\ task' = [task EXCEPT ![r] = t]
    BY <1>7 DEF BuildResume, StartLoading
  <2>2. t.pc = "fetch" /\ t.page = task[r].page /\ t.aborted = FALSE
    BY <2>1 DEF NoTask
  <2>3. /\ isLoadingFiles' /\ abortOwner' = r /\ loadController' = r
        /\ UNCHANGED <<activePageKey, lastRequestId, refreshing, demand>>
        /\ task[r].pc = "build"
    BY <1>7 DEF BuildResume, StartLoading, Local, sources
  <2>4. task'[r] = t /\ \A q \in Request \ {r} : task'[q] = task[q]
    BY <1>1, <2>1
  <2>5. NothingAsked' /\ UnmadeBlank'
    BY <2>2, <2>3, <2>4 DEF LoadInv, NothingAsked, UnmadeBlank
  <2>6. FlagHasLoader'
    BY <1>7, <2>2, <2>3, <2>4 DEF FlagHasLoader, Current
  <2>7. ControllersInStep'
    BY <1>1, <1>7, <2>2, <2>3, <2>4 DEF ControllersInStep, Current
  <2>8. lastRequestId' \in Nat /\ lastRequestId <= lastRequestId'
    BY <1>1, <2>3
  <2>9. DemandInStep' /\ FreshDemandsRealized'
    BY <2>3, <2>4, <2>8, DemandKeeps DEF LoadInv
  <2> QED
    BY <2>5, <2>6, <2>7, <2>9 DEF LoadInv
<1> QED
  BY <1>1, <1>2, <1>3, <1>4, <1>5, <1>6, <1>7 DEF RequestStep, InfoReply, InfoFail

(* A task that is woken or reordered keeps its list and its number. *)
LEMMA SteadyLoads ==
  ASSUME IInv, IInv', LoadInv,
         \A q \in Request :
           /\ task'[q].pc = task[q].pc \/ (task[q].pc = "paused" /\ task'[q].pc = "fetch")
           /\ task'[q].page = task[q].page /\ task'[q].ids = task[q].ids
           /\ task'[q].resolved = task[q].resolved /\ task'[q].aborted = task[q].aborted
           /\ task[q].pc = "none" => task'[q].cur = task[q].cur,
         UNCHANGED <<activePageKey, isLoadingFiles, lastRequestId, abortOwner, loadController, refreshing>>
  PROVE  NothingAsked' /\ FlagHasLoader' /\ ControllersInStep' /\ UnmadeBlank'
<1>1. NothingAsked' /\ UnmadeBlank'
  BY DEF LoadInv, NothingAsked, UnmadeBlank
<1>2. FlagHasLoader'
  BY DEF LoadInv, FlagHasLoader, Current
<1>3. ControllersInStep'
  BY DEF LoadInv, ControllersInStep
<1> QED
  BY <1>1, <1>2, <1>3

LEMMA SteadyDemands ==
  ASSUME IInv, IInv', LoadInv,
         \A q \in Request :
           /\ task'[q].pc = task[q].pc \/ (task[q].pc = "paused" /\ task'[q].pc = "fetch")
           /\ task'[q].ids = task[q].ids /\ task'[q].resolved = task[q].resolved,
         UNCHANGED lastRequestId,
         \A d \in Demand : demand'[d] = demand[d] \/ demand'[d] = [demand[d] EXCEPT !.status = "rejected"]
  PROVE  DemandInStep' /\ FreshDemandsRealized'
<1>1. lastRequestId' \in Nat /\ lastRequestId <= lastRequestId'
  BY LoadTypes
<1>2. \A q \in Request : task[q].pc # "build" => task'[q].pc # "build"
  OBVIOUS
<1> QED
  BY <1>1, <1>2, DemandKeeps DEF LoadInv

(* Waking a task moves it from its pause to its next chunk. *)
LEMMA WakeFields ==
  ASSUME NEW t \in TaskType
  PROVE  /\ Woken(t).pc = t.pc \/ (t.pc = "paused" /\ Woken(t).pc = "fetch")
         /\ Woken(t).page = t.page /\ Woken(t).ids = t.ids /\ Woken(t).resolved = t.resolved
         /\ Woken(t).aborted = t.aborted
         /\ t.pc = "none" => Woken(t).cur = t.cur
<1>1. CASE t.pc = "paused"
  BY <1>1 DEF Woken, NextChunk, TaskType
<1>2. CASE t.pc # "paused"
  BY <1>2 DEF Woken
<1> QED
  BY <1>1, <1>2

(* reprioritize moves the chunks of one task, and may wake it. *)
LEMMA ReprioritizeFields ==
  ASSUME IInv, NEW r \in Request, NEW fs, Reprioritize(r, fs)
  PROVE  \A q \in Request :
           /\ task'[q].pc = task[q].pc \/ (task[q].pc = "paused" /\ task'[q].pc = "fetch")
           /\ task'[q].page = task[q].page /\ task'[q].ids = task[q].ids
           /\ task'[q].resolved = task[q].resolved /\ task'[q].aborted = task[q].aborted
           /\ task[q].pc = "none" => task'[q].cur = task[q].cur
<1> DEFINE cs == ChunksFor(task[r].ids, fs)
           t == Reprioritized(task[r], cs)
<1>1. task \in [Request -> TaskType] /\ task[r] \in TaskType
  BY LoadTypes
<1>2. cs \in SUBSET Nat
  BY <1>1, ChunksForType DEF TaskType
<1>3. task' = [task EXCEPT ![r] = Woken(t)] \/ task' = [task EXCEPT ![r] = t]
  BY DEF Reprioritize
<1> HIDE DEF cs
<1>4. Among(task[r].queue, cs) \o Without(task[r].queue, cs) \in Seq(Nat)
  BY <1>1, ReorderedQueue DEF TaskType
<1>5. task[r].wanted \cup (cs \cap Elements(task[r].queue)) \in SUBSET Nat
  BY <1>1, <1>2 DEF TaskType
<1>6. /\ t \in TaskType /\ t.pc = task[r].pc /\ t.ids = task[r].ids /\ t.page = task[r].page
      /\ t.resolved = task[r].resolved /\ t.aborted = task[r].aborted /\ t.cur = task[r].cur
  BY <1>1, <1>4, <1>5 DEF Reprioritized, TaskType
<1> HIDE DEF t
<1>7. \A q \in Request \ {r} : task'[q] = task[q]
  BY <1>1, <1>3
<1>8. task'[r] \in {t, Woken(t)}
  BY <1>1, <1>3
<1> QED
  BY <1>6, <1>7, <1>8, WakeFields

LEMMA PausedLoads ==
  ASSUME IInv, IInv', LoadInv, NEW b, SetIsLoadingPaused(b)
  PROVE  LoadInv'
<1>1. /\ UNCHANGED <<activePageKey, isLoadingFiles, lastRequestId, abortOwner, loadController, refreshing, demand>>
      /\ task \in [Request -> TaskType]
  BY LoadTypes DEF SetIsLoadingPaused, view, owners, sources
<1>2. \A q \in Request :
        /\ task'[q].pc = task[q].pc \/ (task[q].pc = "paused" /\ task'[q].pc = "fetch")
        /\ task'[q].page = task[q].page /\ task'[q].ids = task[q].ids
        /\ task'[q].resolved = task[q].resolved /\ task'[q].aborted = task[q].aborted
        /\ task[q].pc = "none" => task'[q].cur = task[q].cur
  <2>1. CASE task' = task
    BY <2>1
  <2>2. CASE loadController # NoRequest /\ task' = [task EXCEPT ![loadController] = Woken(task[loadController])]
    <3>1. loadController \in Request
      BY <2>2 DEF IInv, LoaderOK, ViewOK, RequestId
    <3>2. /\ task[loadController] \in TaskType /\ task'[loadController] = Woken(task[loadController])
          /\ \A q \in Request \ {loadController} : task'[q] = task[q]
      BY <1>1, <2>2, <3>1
    <3> QED
      BY <3>1, <3>2, WakeFields
  <2> QED
    BY <2>1, <2>2 DEF SetIsLoadingPaused
<1>3. NothingAsked' /\ FlagHasLoader' /\ ControllersInStep' /\ UnmadeBlank'
  BY <1>1, <1>2, SteadyLoads
<1>4. DemandInStep' /\ FreshDemandsRealized'
  BY <1>1, <1>2, SteadyDemands
<1> QED
  BY <1>3, <1>4 DEF LoadInv

LEMMA PrioritizeLoads ==
  ASSUME IInv, IInv', LoadInv, NEW fs, Prioritize(fs)
  PROVE  LoadInv'
<1>1. /\ UNCHANGED <<activePageKey, isLoadingFiles, lastRequestId, abortOwner, loadController, refreshing, demand>>
      /\ loadController \in Request /\ Reprioritize(loadController, fs)
  BY DEF Prioritize, view, owners, sources, IInv, LoaderOK, ViewOK, RequestId
<1>2. \A q \in Request :
        /\ task'[q].pc = task[q].pc \/ (task[q].pc = "paused" /\ task'[q].pc = "fetch")
        /\ task'[q].page = task[q].page /\ task'[q].ids = task[q].ids
        /\ task'[q].resolved = task[q].resolved /\ task'[q].aborted = task[q].aborted
        /\ task[q].pc = "none" => task'[q].cur = task[q].cur
  BY <1>1, ReprioritizeFields
<1>3. NothingAsked' /\ FlagHasLoader' /\ ControllersInStep' /\ UnmadeBlank'
  BY <1>1, <1>2, SteadyLoads
<1>4. DemandInStep' /\ FreshDemandsRealized'
  BY <1>1, <1>2, SteadyDemands
<1> QED
  BY <1>3, <1>4 DEF LoadInv

(* A demand on the controller of the load that is under way finds the
   chunks that are resolved in the store.                                  *)
LEMMA DemandLoads ==
  ASSUME IInv, IInv', LoadInv, NEW d \in Demand, NEW r \in Request, NEW fs, DemandFetchMetadata(d, r, fs)
  PROVE  LoadInv'
<1> DEFINE cs == ChunksFor(task[r].ids, fs) \ task[r].resolved
           R == Realized(task[r].ids, fs, loadedFiles)
<1>1. /\ UNCHANGED <<activePageKey, isLoadingFiles, lastRequestId, abortOwner, loadController, refreshing>>
      /\ Reprioritize(r, fs) /\ Started(r) /\ task[r] \in TaskType
      /\ demand \in [Demand -> DemandType] /\ lastRequestId \in Nat
  BY LoadTypes DEF DemandFetchMetadata, view, owners, sources
<1>2. \A q \in Request :
        /\ task'[q].pc = task[q].pc \/ (task[q].pc = "paused" /\ task'[q].pc = "fetch")
        /\ task'[q].page = task[q].page /\ task'[q].ids = task[q].ids
        /\ task'[q].resolved = task[q].resolved /\ task'[q].aborted = task[q].aborted
        /\ task[q].pc = "none" => task'[q].cur = task[q].cur
  BY <1>1, ReprioritizeFields
<1>3. NothingAsked' /\ FlagHasLoader' /\ ControllersInStep' /\ UnmadeBlank'
  BY <1>1, <1>2, SteadyLoads
<1>4. PICK x :
        /\ demand' = [demand EXCEPT ![d] = x]
        /\ x = [status |-> IF cs = {} THEN R
                           ELSE IF task[r].pc = "done" THEN "rejected" ELSE "waiting",
                owner |-> r, files |-> fs, waits |-> cs,
                fresh |-> r = loadController /\ Current(r)]
  BY DEF DemandFetchMetadata
<1>5. x.fresh /\ cs = {} => R = "ok"
  <2>1. ASSUME r = loadController, Current(r), cs = {} PROVE R = "ok"
    <3>1. ChunksFor(task[r].ids, fs) \subseteq task[r].resolved
      BY <2>1
    <3>2. /\ DOMAIN loadedFiles = UNION {Positions(task[r].ids, c) : c \in task[r].resolved}
          /\ \A i \in DOMAIN loadedFiles : loadedFiles[i] = task[r].ids[i]
      BY <2>1, OwnerIsLive
    <3> QED
      BY <3>1, <3>2, ChunksRealize
  <2> QED
    BY <1>4, <2>1
<1>6. /\ x.fresh => x.status \notin {"unrealized", "wrong file"}
      /\ x.status = "waiting" => x.owner = r /\ x.files = fs /\ x.waits = cs
  BY <1>4, <1>5
<1>7. r <= lastRequestId /\ task'[r].pc # "build"
  <2>1. task[r].pc # "none" /\ task[r].pc # "build"
    BY <1>1 DEF Started, LoadInv, UnmadeBlank
  <2> QED
    BY <1>2, <2>1 DEF IInv, LoaderOK, FutureUnused
<1>8. demand'[d] = x /\ \A e \in Demand \ {d} : demand'[e] = demand[e]
  BY <1>1, <1>4
<1>9. FreshDemandsRealized'
  BY <1>6, <1>8 DEF LoadInv, FreshDemandsRealized
<1>10. DemandInStep'
  <2> SUFFICES ASSUME NEW e \in Demand, demand'[e].status = "waiting"
               PROVE  LET q == demand'[e].owner IN
                      /\ q \in Request /\ q <= lastRequestId' /\ task'[q].pc # "build"
                      /\ ChunksFor(task'[q].ids, demand'[e].files) \subseteq demand'[e].waits \cup task'[q].resolved
    BY DEF DemandInStep
  <2>1. CASE e = d
    <3>1. demand'[e].owner = r /\ demand'[e].files = fs /\ demand'[e].waits = cs
      BY <1>6, <1>8, <2>1
    <3> QED
      BY <1>1, <1>2, <1>7, <3>1
  <2>2. CASE e # d
    <3>1. PICK q \in Request :
            /\ q = demand[e].owner /\ q <= lastRequestId /\ task[q].pc # "build"
            /\ ChunksFor(task[q].ids, demand[e].files) \subseteq demand[e].waits \cup task[q].resolved
      BY <1>8, <2>2 DEF LoadInv, DemandInStep
    <3> QED
      BY <1>1, <1>2, <1>8, <2>2, <3>1
  <2> QED
    BY <2>1, <2>2
<1> QED
  BY <1>3, <1>9, <1>10 DEF LoadInv

(* A cancelled load leaves nothing in the store; nothing is to cancel when
   the flag is down.                                                       *)
LEMMA CancelLoads ==
  ASSUME IInv, IInv', LoadInv, CancelCurrentPageLoad
  PROVE  LoadInv'
<1>1. /\ task' = Aborting(task) /\ UNCHANGED <<activePageKey, refreshing, demand>> /\ lastRequestId \in Nat
      /\ loadController \in Nat
  BY LoadTypes DEF CancelCurrentPageLoad, sources
<1>2. \A q \in Request : /\ task'[q].pc = task[q].pc /\ task'[q].ids = task[q].ids
                         /\ task'[q].cur = task[q].cur /\ task'[q].resolved = task[q].resolved
                         /\ q # abortOwner => task'[q] = task[q]
  BY <1>1, AbortingFields
<1>3. CASE isLoadingFiles
  <2>1. Finish /\ lastRequestId' = NextRequest
    BY <1>3 DEF CancelCurrentPageLoad
  <2>2. NothingAsked' /\ FlagHasLoader' /\ ControllersInStep' /\ UnmadeBlank'
    BY <1>1, <1>2, <2>1, LoadIsOver DEF Finish, LoadInv, NothingAsked
  <2>3. lastRequestId' \in Nat /\ lastRequestId <= lastRequestId'
    BY <1>1, <2>1 DEF NextRequest
  <2>4. DemandInStep' /\ FreshDemandsRealized'
    BY <1>1, <1>2, <2>3, DemandKeeps DEF LoadInv
  <2> QED
    BY <2>2, <2>4 DEF LoadInv
<1>4. CASE ~isLoadingFiles
  <2>1. UNCHANGED <<isLoadingFiles, lastRequestId, abortOwner, loadController>>
    BY <1>4 DEF CancelCurrentPageLoad, owners
  <2>2. NothingAsked' /\ UnmadeBlank'
    BY <1>1, <1>2 DEF LoadInv, NothingAsked, UnmadeBlank
  <2>3. FlagHasLoader' /\ ControllersInStep'
    BY <1>2, <1>4, <2>1 DEF LoadInv, FlagHasLoader, ControllersInStep
  <2>4. lastRequestId' \in Nat /\ lastRequestId <= lastRequestId'
    BY <1>1, <2>1
  <2>5. DemandInStep' /\ FreshDemandsRealized'
    BY <1>1, <1>2, <2>4, DemandKeeps DEF LoadInv
  <2> QED
    BY <2>2, <2>3, <2>5 DEF LoadInv
<1> QED
  BY <1>3, <1>4

(* Edits of lists that the view does not show, and cancelled demands. *)
LEMMA UnseenLoads ==
  ASSUME IInv, IInv', LoadInv, UNCHANGED <<view, flags, lastRequestId, owners, task, refreshing>>,
         \A d \in Demand : demand'[d] = demand[d] \/ demand'[d] = [demand[d] EXCEPT !.status = "rejected"]
  PROVE  LoadInv'
<1>1. UNCHANGED <<activePageKey, isLoadingFiles, abortOwner, loadController>>
  BY DEF view, flags, owners
<1>2. NothingAsked' /\ FlagHasLoader' /\ ControllersInStep' /\ UnmadeBlank'
  BY <1>1, SteadyLoads
<1>3. DemandInStep' /\ FreshDemandsRealized'
  BY SteadyDemands
<1> QED
  BY <1>2, <1>3 DEF LoadInv

(* The edits of a page of the client. *)
LEMMA EditLoads ==
  ASSUME IInv, IInv', LoadInv, Local, NEW p \in Page, NEW l,
         EditSearchPage(l) \/ EditVirtualPage(p, l)
  PROVE  LoadInv'
<1>1. UNCHANGED <<demand, refreshing, activePageKey>>
  BY DEF EditSearchPage, EditVirtualPage
<1>2. ASSUME NEW r \in {NextRequest, NextRequest + 1}, NEW q \in Page, q = activePageKey,
             UpdatePageContents(r, q, FALSE)
      PROVE  LoadInv'
  BY <1>1, <1>2, UpdateLoads
<1>3. CASE UNCHANGED <<fileIds, loadedFiles, flags, lastRequestId, owners, task>>
  BY <1>1, <1>3, UnseenLoads DEF view
<1>4. SearchPage \in Page
  BY DEF Page
<1> QED
  BY <1>2, <1>3, <1>4 DEF EditSearchPage, EditVirtualPage

LEMMA OpenLoads ==
  ASSUME IInv, IInv', LoadInv, Local, NEW p \in VirtualPage, NEW l, OpenVirtualPage(p, l)
  PROVE  LoadInv'
<1>1. p \in Page /\ UNCHANGED <<demand, refreshing>> /\ UpdatePageContents(NextRequest, p, TRUE)
      /\ activePageKey' = p
  BY DEF OpenVirtualPage, Page
<1> QED
  BY <1>1, UpdateLoads

LEMMA UserStepLoads ==
  ASSUME IInv, IInv', LoadInv, Local, UserStep
  PROVE  LoadInv'
<1>1. /\ activePageKey \in Page /\ SearchPage \in Page
      /\ \A p \in VirtualPage : p \in Page
      /\ \A p \in Edited : p \in Page
  BY LoadTypes, ConstantsAssumption DEF Page
<1>2. ASSUME NEW p \in Page, SetPage(p) PROVE LoadInv'
  BY <1>2, UpdateLoads DEF SetPage, sources
<1>3. CASE UpdateActivePage
  BY <1>1, <1>3, UpdateLoads DEF UpdateActivePage, sources
<1>4. CASE CancelCurrentPageLoad
  BY <1>4, CancelLoads
<1>5. ASSUME NEW l, SearchResultsChange(l) PROVE LoadInv'
  <2>1. CASE activePageKey = SearchPage
    BY <1>1, <1>5, <2>1, UpdateLoads DEF SearchResultsChange
  <2>2. CASE activePageKey # SearchPage
    BY <1>5, <2>2, UnseenLoads DEF SearchResultsChange, view
  <2> QED
    BY <2>1, <2>2
<1>6. ASSUME NEW p \in VirtualPage, RemoveVirtualPage(p) PROVE LoadInv'
  <2>1. CASE p = activePageKey
    BY <1>1, <1>6, <2>1, UpdateLoads DEF RemoveVirtualPage
  <2>2. CASE p # activePageKey
    BY <1>6, <2>2, UnseenLoads DEF RemoveVirtualPage
  <2> QED
    BY <2>1, <2>2
<1>7. ASSUME NEW p \in Edited, NEW l, EditSearchPage(l) \/ EditVirtualPage(p, l) PROVE LoadInv'
  <2>1. p \in Page
    BY <1>7, <1>1
  <2>2. CASE EditSearchPage(l)
    BY <2>1, <2>2, EditLoads
  <2>3. CASE EditVirtualPage(p, l)
    BY <2>1, <2>3, EditLoads
  <2> QED
    BY <1>7, <2>2, <2>3
<1>8. ASSUME NEW p \in Edited, NEW f, AddFilesToPage(p, f) PROVE LoadInv'
  <2>1. PICK l : EditSearchPage(l) \/ EditVirtualPage(p, l)
    BY <1>8 DEF AddFilesToPage
  <2> QED
    BY <1>7, <2>1
<1>9. ASSUME NEW p \in Edited, NEW fs, RemoveFilesFromPage(p, fs) PROVE LoadInv'
  <2>1. PICK l : EditSearchPage(l) \/ EditVirtualPage(p, l)
    BY <1>9 DEF RemoveFilesFromPage
  <2> QED
    BY <1>7, <2>1
<1>10. CASE \E p \in Edited : SortFilesFromView(p)
  BY <1>1, <1>10, OpenLoads, EditLoads DEF SortFilesFromView
<1>11. ~RefreshStart
  BY DEF RefreshStart, Local
<1>12. CASE \E d \in Demand : CancelDemand(d)
  BY <1>12, UnseenLoads, LoadTypes DEF CancelDemand, sources
<1> QED
  BY <1>2, <1>3, <1>4, <1>5, <1>6, <1>8, <1>9, <1>10, <1>11, <1>12, OpenLoads, PausedLoads,
     PrioritizeLoads, DemandLoads DEF UserStep

LEMMA NextLoads ==
  ASSUME IInv, IInv', LoadInv, Local, [Next]_vars
  PROVE  LoadInv'
<1>1. CASE UNCHANGED vars
  BY <1>1, UnseenLoads DEF vars, sources
<1>2. ASSUME NEW p \in HydrusPage PROVE FALSE
  BY <1>2 DEF Local
<1> QED
  BY <1>1, <1>2, RequestStepLoads, UserStepLoads DEF Next

LEMMA InitLoads == Init => LoadInv
<1> SUFFICES ASSUME Init PROVE LoadInv
  OBVIOUS
<1>1. /\ \A r \in Request : task[r] = NoTask /\ r # 0
      /\ \A d \in Demand : demand[d] = NoDemand
      /\ refreshing = {} /\ isLoadingFiles = FALSE /\ lastRequestId = 0
      /\ abortOwner = 0 /\ loadController = 0
  BY RequestType DEF Init, NoRequest
<1>2. NoTask.pc = "none" /\ NoTask.cur = 0 /\ NoDemand.status = "none" /\ NoDemand.fresh = FALSE
  BY DEF NoTask, NoDemand
<1>3. NothingAsked /\ FlagHasLoader /\ UnmadeBlank
  BY <1>1, <1>2 DEF NothingAsked, FlagHasLoader, UnmadeBlank
<1>4. ControllersInStep
  BY <1>1 DEF ControllersInStep
<1>5. DemandInStep /\ FreshDemandsRealized
  BY <1>1, <1>2 DEF DemandInStep, FreshDemandsRealized
<1> QED
  BY <1>3, <1>4, <1>5 DEF LoadInv

(* The pages that live in the client: the store never says that it loads
   when nobody does (pageStore.ts:230-420).                                *)
THEOREM FlagTellsOfLoader ==
  ASSUME Local
  PROVE  Spec => []LoadingHasLoader
<1>1. LoadInv => LoadingHasLoader
  BY DEF LoadInv, FlagHasLoader, LoadingHasLoader
<1>2. IInv /\ LoadInv /\ [Next]_vars /\ IInv' => LoadInv'
  BY NextLoads
<1>3. Spec => []IInv
  BY InvariantHolds DEF Local
<1> QED
  BY <1>1, <1>2, <1>3, InitLoads, PTL DEF Spec

(* A demand on the controller of the load that is under way gets metadata
   of its files, or is told: the chunks it does not wait for are in the
   store, whatever overtakes it (pageStore.ts:300-390).                    *)
THEOREM DemandsRealized ==
  ASSUME Local
  PROVE  Spec => []FreshDemandsRealized
<1>1. LoadInv => FreshDemandsRealized
  BY DEF LoadInv
<1>2. IInv /\ LoadInv /\ [Next]_vars /\ IInv' => LoadInv'
  BY NextLoads
<1>3. Spec => []IInv
  BY InvariantHolds DEF Local
<1> QED
  BY <1>1, <1>2, <1>3, InitLoads, PTL DEF Spec
=============================================================================
