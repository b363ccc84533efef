------------------------------ MODULE RemoteFile ------------------------------
(***************************************************************************)
(* A file of the server read in pieces (web/hydrui-util/src/stream.ts) and *)
(* the two that read it: the decoders of pictures, by offset, and          *)
(* StreamFile (web/hydrui-client/src/file/video/StreamFile.ts), which      *)
(* plays a video at a cursor while it loads the rest.                      *)
(*                                                                         *)
(* The calls are asynchronous functions on one thread. At most one of them *)
(* fetches; the others wait for currentRequest, the promise of the range   *)
(* it is fetching, and look again. Bytes are represented by the chunk they *)
(* are in: the buffer is the set of the chunks that have been filled.      *)
(***************************************************************************)
EXTENDS Naturals, FiniteSets, Sequences, FiniteSetsExt

CONSTANTS
  FileSize, ChunkSize,
  MaximumRequestChunks,
  Call,       \* calls of read and prefetch by offset
  ReadSizes,  \* how much a call asks for
  MaxStream   \* bound: reads and seeks of the player

ASSUME SizesAssumption ==
  FileSize \in Nat \ {0} /\ ChunkSize \in Nat \ {0} /\ MaximumRequestChunks \in Nat \ {0}
ASSUME CallsAssumption ==
  ReadSizes \subseteq Nat /\ MaxStream \in Nat
  /\ {"loader", "player", "nobody"} \cap Call = {}

VARIABLES
  file,         \* what createRemoteFile has made
  fetched,      \* chunksFetched
  fetching,     \* the call whose promise is currentRequest, if any
  call,         \* the local state of every call
  cursor,       \* of the player
  loader,       \* StreamFile: loaded and loading, totalPrefetched
  aborted       \* the AbortSignal

vars == <<file, fetched, fetching, call, cursor, loader, aborted>>

Calls == Call \cup {"loader", "player"}
Nobody == "nobody"
NotCalled == [step |-> "none", count |-> 0]

LastChunk == (FileSize - 1) \div ChunkSize
Chunks == 0..LastChunk

BlocksToFetch(offset, size) ==
  LET lastIndex == IF size > 0 THEN offset + size - 1 ELSE offset
  IN  {i \in Chunks : offset \div ChunkSize <= i /\ i <= lastIndex \div ChunkSize} \ fetched

\* The first of the contiguous ranges of a set of blocks.
FirstRange(blocks) ==
  LET start == Min(blocks)
  IN  {b \in blocks : start..b \subseteq blocks /\ b - start < MaximumRequestChunks}

Init ==
  /\ file = "none"
  /\ fetched = {}
  /\ fetching = Nobody
  /\ call = [c \in Calls |-> NotCalled]
  /\ cursor = 0
  /\ loader = [step |-> "idle", prefetched |-> 0]
  /\ aborted = FALSE

----------------------------------------------------------------------------
(* createRemoteFile: a blob, a small file, or one whose server does not    *)
(* answer a range is fetched whole. StreamFile always makes a RemoteFile.  *)

CreateRemoteFile ==
  /\ file = "none"
  /\ file' \in {"head", "remote", "get"}
  /\ UNCHANGED <<fetched, fetching, call, cursor, loader, aborted>>

HeadAnswered ==
  /\ file = "head"
  /\ \E ok, ranges, sized, small \in BOOLEAN :
       file' = IF ~ok \/ ~sized THEN "failed" ELSE IF ranges /\ ~small THEN "remote" ELSE "get"
  /\ UNCHANGED <<fetched, fetching, call, cursor, loader, aborted>>

FileFetched ==
  /\ file = "get"
  /\ \/ file' = "memory" /\ fetched' = Chunks
     \/ file' = "failed" /\ UNCHANGED fetched
  /\ UNCHANGED <<fetching, call, cursor, loader, aborted>>

Open == file \in {"memory", "remote"}

----------------------------------------------------------------------------
(* read and prefetch.                                                      *)

\* A call that looks only when it begins, and trusts what it waited for.
LookedOnce(c, offset, size, job) ==
  LET blocks == BlocksToFetch(offset, size)
      done == blocks = {} \/ job.step = "woken"
  IN  CASE done -> [job EXCEPT !.step = "ready"]
        [] ~done /\ fetching # Nobody -> [job EXCEPT !.step = "waiting"]
        [] ~done /\ fetching = Nobody -> [job EXCEPT !.step = "fetching", !.left = blocks]

\* The look at the chunks, at the beginning and after each wait: everything
\* is there; somebody is fetching; or this call fetches.
Looked(c, offset, size, job) ==
  LET blocks == BlocksToFetch(offset, size)
  IN  CASE blocks = {} -> [job EXCEPT !.step = "ready"]
        [] blocks # {} /\ fetching # Nobody -> [job EXCEPT !.step = "waiting"]
        [] blocks # {} /\ fetching = Nobody ->
             [job EXCEPT !.step = "fetching", !.left = blocks]

Look(c, job) ==
  LET looked == Looked(c, job.offset, job.size, job)
  IN  /\ call' = [call EXCEPT ![c] = looked]
      /\ fetching' = IF looked.step = "fetching" THEN c ELSE fetching

\* The bounds of offsetForRead and prefetch.
InBounds(offset, size) == offset + size <= FileSize

Begin(c, op, offset, size) ==
  Look(c, [op |-> op, offset |-> offset, size |-> size, step |-> "new", left |-> {},
           count |-> call[c].count + 1])

\* What is left of a call that has ended.
Over(job, step) == [step |-> step, count |-> job.count]

Ended(step) == step \in {"none", "done", "failed"}

BeginCall(c) ==
  /\ Open /\ c \in Call /\ call[c].step = "none"
  /\ \E op \in {"read", "prefetch"}, offset \in 0..FileSize, size \in ReadSizes :
       /\ op = "read" => ~aborted
       /\ InBounds(offset, size)
       /\ Begin(c, op, offset, size)
  /\ UNCHANGED <<file, fetched, cursor, loader, aborted>>

\* The calls that wait for the promise of the range; the next promise is
\* there before it is resolved.
Woken ==
  [c \in Calls |-> IF call[c].step = "waiting" THEN [call[c] EXCEPT !.step = "woken"] ELSE call[c]]

RangeFetched(c) ==
  /\ call[c].step = "fetching"
  /\ LET range == FirstRange(call[c].left)
         left == call[c].left \ range
     IN  /\ fetched' = fetched \cup range
         /\ fetching' = IF left = {} THEN Nobody ELSE c
         /\ call' = [Woken EXCEPT ![c].left = left,
                                             ![c].step = IF left = {} THEN "ready" ELSE @]
  /\ UNCHANGED <<file, cursor, loader, aborted>>

\* A failure that is not told to those who wait.
FetchFailsAlone(c) ==
  /\ call[c].step = "fetching"
  /\ fetching' = Nobody
  /\ call' = [call EXCEPT ![c] = Over(@, "failed")]
  /\ UNCHANGED <<file, fetched, cursor, loader, aborted>>

\* Also the end of a fetch that has been aborted. Those who wait fail too.
FetchFails(c) ==
  /\ call[c].step = "fetching"
  /\ fetching' = Nobody
  /\ call' = [d \in Calls |-> IF d = c \/ call[d].step = "waiting" THEN Over(call[d], "failed")
                            ELSE call[d]]
  /\ UNCHANGED <<file, fetched, cursor, loader, aborted>>

LookAgain(c) ==
  /\ call[c].step = "woken"
  /\ Look(c, call[c])
  /\ UNCHANGED <<file, fetched, cursor, loader, aborted>>

\* readFn runs, and the cursor of the player moves on from where it is now.
Return(c) ==
  /\ call[c].step = "ready" /\ c # "loader"
  /\ call' = [call EXCEPT ![c] = Over(@, "done")]
  /\ cursor' = IF c = "player" THEN cursor + call[c].size ELSE cursor
  /\ UNCHANGED <<file, fetched, fetching, loader, aborted>>

----------------------------------------------------------------------------
(* StreamFile.                                                             *)

PlayerRead ==
  /\ file = "remote" /\ ~aborted
  /\ Ended(call["player"].step) /\ call["player"].count < MaxStream
  /\ cursor < FileSize
  /\ \E n \in ReadSizes \ {0} :
       Begin("player", "read", cursor, Min({n, FileSize - cursor}))
  /\ UNCHANGED <<file, fetched, cursor, loader, aborted>>

\* Nothing waits for a read under way, whose size is added to the new place.
PlayerSeek ==
  /\ file = "remote" /\ call["player"].count < MaxStream
  /\ cursor' \in 0..FileSize
  /\ call' = [call EXCEPT !["player"].count = @ + 1]
  /\ UNCHANGED <<file, fetched, fetching, loader, aborted>>

\* load, and each turn of _prefetchAll.
LoaderPrefetches ==
  /\ file = "remote"
  /\ \/ loader.step = "idle" /\ Ended(call["loader"].step)
     \/ loader.step = "loading" /\ call["loader"].step = "done"
  /\ loader.prefetched < FileSize
  /\ ~aborted
  /\ Begin("loader", "prefetch", loader.prefetched,
           Min({ChunkSize, FileSize - loader.prefetched}))
  /\ loader' = [loader EXCEPT !.step = "loading"]
  /\ UNCHANGED <<file, fetched, cursor, aborted>>

LoaderAdvances ==
  /\ call["loader"].step = "ready"
  /\ call' = [call EXCEPT !["loader"] = Over(@, "done")]
  /\ loader' = [loader EXCEPT !.prefetched = @ + call["loader"].size]
  /\ UNCHANGED <<file, fetched, fetching, cursor, aborted>>

LoaderEnds ==
  /\ loader.step = "loading"
  /\ \/ call["loader"].step = "failed" \/ (aborted /\ call["loader"].step = "done")
     \/ loader.prefetched = FileSize
  /\ loader' = [loader EXCEPT !.step = IF loader.prefetched = FileSize THEN "loaded" ELSE "failed"]
  /\ UNCHANGED <<file, fetched, fetching, call, cursor, aborted>>

Abort ==
  /\ file = "remote" /\ ~aborted /\ aborted' = TRUE
  /\ UNCHANGED <<file, fetched, fetching, call, cursor, loader>>

CallStep(c) == RangeFetched(c) \/ FetchFails(c) \/ LookAgain(c) \/ Return(c)

Next ==
  \/ CreateRemoteFile \/ HeadAnswered \/ FileFetched
  \/ \E c \in Calls : BeginCall(c) \/ CallStep(c)
  \/ PlayerRead \/ PlayerSeek
  \/ LoaderPrefetches \/ LoaderAdvances \/ LoaderEnds
  \/ Abort

Spec == Init /\ [][Next]_vars

\* Every fetch is answered or fails, and what was awaited goes on.
FairSpec ==
  /\ Spec
  /\ \A c \in Calls : WF_vars(CallStep(c))
  /\ WF_vars(LoaderPrefetches /\ loader.step = "loading")
  /\ WF_vars(LoaderAdvances) /\ WF_vars(LoaderEnds)

----------------------------------------------------------------------------
(* Properties.                                                             *)

Span(offset, size) ==
  {i \in Chunks : size > 0 /\ offset \div ChunkSize <= i /\ i <= (offset + size - 1) \div ChunkSize}

TypeOK ==
  /\ file \in {"none", "head", "get", "memory", "remote", "failed"}
  /\ fetched \subseteq Chunks /\ fetching \in Calls \cup {Nobody}
  /\ \A c \in Calls : call[c].step \in
       {"none", "waiting", "woken", "fetching", "ready", "done", "failed"}
  /\ loader.prefetched \in 0..FileSize /\ aborted \in BOOLEAN

\* What a read is given has been fetched, every chunk of it, whoever fetched
\* them and in however many requests; the part of a video that is shown as
\* loaded has been fetched too (stream.ts:204-251, StreamFile.ts:69-82).
ReadsAreFilled ==
  /\ \A c \in Calls : call[c].step = "ready" => Span(call[c].offset, call[c].size) \subseteq fetched
  /\ Span(0, loader.prefetched) \subseteq fetched

\* One request at a time, for chunks that nobody has fetched before, and as
\* long as one is under way whoever waits for it can be woken
\* (stream.ts:238-244, 277-317).
OneRequest ==
  /\ \A c \in Calls : call[c].step = "fetching" <=> fetching = c
  /\ \A c \in Calls : call[c].step = "fetching" => call[c].left \cap fetched = {}
  /\ \A c \in Calls : call[c].step = "waiting" => fetching # Nobody

\* A call ends, well or not, and so does the loading of a video.
CallsEnd ==
  /\ \A c \in Calls : (~Ended(call[c].step) ~> Ended(call[c].step))
  /\ loader.step = "loading" ~> loader.step \in {"loaded", "failed"}
===============================================================================
