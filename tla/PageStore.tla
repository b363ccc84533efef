------------------------------ MODULE PageStore ------------------------------
(***************************************************************************)
(* The page loader of the Hydrui client: store/pageStore.ts.               *)
(*                                                                         *)
(* Every call of updatePageContents is a REQUEST.  It takes the next       *)
(* lastRequestId, finds the list of file IDs of the page (a Hydrus page    *)
(* asks the server, a search or virtual page has it at hand), shows the    *)
(* list, and then loads the metadata chunk by chunk.  Requests are         *)
(* asynchronous functions on one JavaScript thread: an action of this      *)
(* module is what runs between two awaits.                                 *)
(*                                                                         *)
(* Abstractions.  Metadata is represented by the ID of the file it is      *)
(* about.  Positions count from 1.  fileIdToIndex, in the store and in a   *)
(* request, is the inverse of the list it is set with and is not kept.     *)
(* Names, errors, counts, selections and tabs are left out.                *)
(***************************************************************************)
EXTENDS Integers, Sequences, FiniteSets

CONSTANTS
  File,               \* file IDs
  SearchPage,         \* SEARCH_PAGE_KEY
  HydrusPage,         \* keys of the pages the Hydrus server has
  VirtualPage,        \* keys of the pages that live in this client
  Lists,              \* the lists of files a server or a search may answer
  ChunkSize,          \* CHUNK_SIZE
  YieldEvery,         \* how many chunks are built before the builder yields
  EagerLoadThreshold, \* longer lists start paused
  HasAbortController, \* FALSE in browsers without AbortController
  MaxRequests,        \* bound: requests of one session
  Edited,             \* bound: the client's own pages whose list is edited
  Demand              \* interactive actions that wait for metadata

Page == {SearchPage} \cup HydrusPage \cup VirtualPage
Request == 1..MaxRequests
NoRequest == 0

(* Lists of files name no file twice. *)
FileList == {l \in Seq(File) : \A i, j \in 1..Len(l) : l[i] = l[j] => i = j}

ASSUME ConstantsAssumption ==
  /\ SearchPage \notin HydrusPage \cup VirtualPage
  /\ HydrusPage \cap VirtualPage = {}
  /\ Lists \subseteq FileList
  /\ ChunkSize \in Nat \ {0}
  /\ YieldEvery \in Nat \ {0}
  /\ EagerLoadThreshold \in Nat
  /\ HasAbortController \in BOOLEAN
  /\ MaxRequests \in Nat
  /\ Edited \subseteq {SearchPage} \cup VirtualPage

VARIABLES
  activePageKey,
  fileIds,            \* the list the view shows
  loadedFiles,        \* sparse array: position -> metadata
  isLoadingFiles, isLoadingPaused, isLoadingAwake,
  lastRequestId,
  abortOwner,         \* the request whose AbortController is in the store
  loadController,     \* the request whose metadataLoadController is in the store
  virtualPages,       \* key -> list, for the virtual pages that exist
  searchResults,      \* of the search store
  task,               \* the local state of every request
  refreshing,         \* Hydrus pages with a refreshPage call under way
  demand              \* the demandFetchMetadata calls

flags == <<isLoadingFiles, isLoadingPaused, isLoadingAwake>>
owners == <<abortOwner, loadController>>
sources == <<virtualPages, searchResults, refreshing>>
view == <<activePageKey, fileIds, loadedFiles>>
vars == <<view, flags, lastRequestId, owners, sources, task, demand>>
-----------------------------------------------------------------------------
(* Chunks of a list are numbered from 1. *)
ChunkOf(i) == ((i - 1) \div ChunkSize) + 1
ChunkCount(l) == (Len(l) + ChunkSize - 1) \div ChunkSize
Positions(l, c) == {i \in 1..Len(l) : ChunkOf(i) = c}
ChunksFor(l, fs) == {ChunkOf(i) : i \in {j \in 1..Len(l) : l[j] \in fs}}

(***************************************************************************)
(* The elements of q at the positions I, in order.  It is what the code's  *)
(* filter makes of an array, and Object.values() of a sparse one.          *)
(***************************************************************************)
Nth(I, k) == CHOOSE i \in I : Cardinality({j \in I : j <= i}) = k
Pick(q, I) == [k \in 1..Cardinality(I) |-> q[Nth(I, k)]]

Elements(q) == {q[i] : i \in 1..Len(q)}
Among(q, S) == Pick(q, {i \in 1..Len(q) : q[i] \in S})
Without(q, S) == Pick(q, {i \in 1..Len(q) : q[i] \notin S})
Compact(f) == Pick(f, DOMAIN f)

EmptyArray == <<>>
(* Mutants of Store: earlier chunks are lost; a chunk goes to the front. *)
StoreOnly(f, l, c) == [i \in Positions(l, c) |-> l[i]]
StoreInFront(f, l, c) ==
  LET n == Cardinality(Positions(l, c))
  IN [i \in DOMAIN f \cup 1..n |->
        IF i <= n THEN l[(c - 1) * ChunkSize + i] ELSE f[i]]

Store(f, l, c) ==
  [i \in DOMAIN f \cup Positions(l, c) |->
     IF i \in Positions(l, c) THEN l[i] ELSE f[i]]

(***************************************************************************)
(* The locals of a request: its page and list, fileIdChunks (queue), the   *)
(* chunk being fetched, demandSet, the chunks whose promise is resolved,   *)
(* the state of its AbortController, and whether wakeupRef holds the       *)
(* function of a pauseWait call.                                           *)
(***************************************************************************)
PC == {"none", "info", "build", "fetch", "paused", "done"}

NoTask == [pc |-> "none", page |-> SearchPage, ids |-> <<>>, queue |-> <<>>,
           cur |-> 0, wanted |-> {}, resolved |-> {}, aborted |-> FALSE,
           armed |-> FALSE]

NoDemand == [status |-> "none", owner |-> NoRequest, files |-> {},
             waits |-> {}, fresh |-> FALSE]

Init ==
  /\ activePageKey = SearchPage
  /\ fileIds = <<>>
  /\ loadedFiles = EmptyArray
  /\ isLoadingFiles = FALSE
  /\ isLoadingPaused = FALSE
  /\ isLoadingAwake = FALSE
  /\ lastRequestId = 0
  /\ abortOwner = NoRequest
  /\ loadController = NoRequest
  /\ virtualPages = [p \in {} |-> <<>>]
  /\ searchResults = <<>>
  /\ task = [r \in Request |-> NoTask]
  /\ refreshing = {}
  /\ demand = [d \in Demand |-> NoDemand]
-----------------------------------------------------------------------------
(* Helpers of the loader. *)

(* "Is this still the current request", with the values of this state. *)
(* Mutant of Current: only the page is compared. *)
OnItsPage(r) == activePageKey = task[r].page
Current(r) == lastRequestId = r /\ activePageKey = task[r].page

(* state.currentAbortController.abort(), if there is one. *)
(* Mutant of Aborting: the request before is left running. *)
NotAborting(t) == t
Aborting(t) ==
  IF abortOwner = NoRequest THEN t ELSE [t EXCEPT ![abortOwner].aborted = TRUE]

(* fileIdChunks.shift(), and the call of getFileMetadata that follows it. *)
(* Mutant of NextChunk: the chunk stays in the queue. *)
PeekChunk(t) == [t EXCEPT !.pc = "fetch", !.cur = Head(t.queue)]
NextChunk(t) ==
  [t EXCEPT !.pc = "fetch", !.cur = Head(t.queue), !.queue = Tail(t.queue)]

(* Mutant of Reprioritized: nothing is demanded, only reordered. *)
Reordered(t, cs) ==
  [t EXCEPT !.queue = Among(t.queue, cs) \o Without(t.queue, cs)]

Reprioritized(t, cs) ==
  [t EXCEPT !.queue = Among(t.queue, cs) \o Without(t.queue, cs),
            !.wanted = @ \cup (cs \cap Elements(t.queue))]

(* wakeupRef.value(): a function that was called before only sets the flag. *)
Woken(t) == IF t.pc = "paused" THEN NextChunk(t) ELSE t

(* What getRealizedFiles makes of the files fs of a request with the list l
   when the store's loadedFiles is arr.                                    *)
Realized(l, fs, arr) ==
  LET wanted == {i \in 1..Len(l) : l[i] \in fs}
  IN CASE ~(wanted \subseteq DOMAIN arr)           -> "unrealized"
       [] wanted \subseteq DOMAIN arr /\ \E i \in wanted : arr[i] # l[i] -> "wrong file"
       [] OTHER                                    -> "ok"

(* rejectUnfulfilledPromises of request r. *)
Rejected(r) ==
  [d \in Demand |->
     IF demand[d].status = "waiting" /\ demand[d].owner = r
     THEN [demand[d] EXCEPT !.status = "rejected"] ELSE demand[d]]

(* Mutant of Resolved: any chunk settles a demand. *)
ResolvedByAny(r, c, arr) ==
  [d \in Demand |->
     IF demand[d].status # "waiting" \/ demand[d].owner # r THEN demand[d]
     ELSE [demand[d] EXCEPT
             !.waits = {},
             !.status = Realized(task[r].ids, demand[d].files, arr)]]

(* Chunk c of request r is resolved, with arr as loadedFiles. *)
Resolved(r, c, arr) ==
  [d \in Demand |->
     IF demand[d].status # "waiting" \/ demand[d].owner # r THEN demand[d]
     ELSE [demand[d] EXCEPT
             !.waits = @ \ {c},
             !.status = IF demand[d].waits \subseteq {c}
                        THEN Realized(task[r].ids, demand[d].files, arr)
                        ELSE "waiting"]]
-----------------------------------------------------------------------------
(***************************************************************************)
(* updateWithFileIds, up to its first await: the list l of page p, which   *)
(* is the active page, for request r.  clear says that setPage emptied the *)
(* view in the same step, mark that the caller set the two loading flags.  *)
(***************************************************************************)
ShowNothing(r, p) ==
  /\ fileIds' = <<>>
  /\ loadedFiles' = EmptyArray
  /\ isLoadingFiles' = FALSE
  /\ isLoadingAwake' = FALSE
  /\ task' = [Aborting(task) EXCEPT ![r] = [NoTask EXCEPT
                 !.pc = "done", !.page = p]]
  /\ UNCHANGED <<isLoadingPaused, owners>>

StartLoading(r, p, l, t) ==
  /\ fileIds' = l
  /\ loadedFiles' = EmptyArray
  /\ isLoadingFiles' = TRUE
  /\ isLoadingAwake' = TRUE
  /\ isLoadingPaused' = (Len(l) > EagerLoadThreshold)
  /\ abortOwner' = IF HasAbortController THEN r ELSE NoRequest
  /\ loadController' = r
  /\ task' = [t EXCEPT ![r] = [NoTask EXCEPT
                 !.pc = "fetch", !.page = p, !.ids = l, !.cur = 1,
                 !.queue = [k \in 1..(ChunkCount(l) - 1) |-> k + 1]]]

(* setPage's reset of the view and the callers' loading flags. *)
Mark(clear, mark) ==
  /\ fileIds' = IF clear THEN <<>> ELSE fileIds
  /\ loadedFiles' = IF clear THEN EmptyArray ELSE loadedFiles
  /\ isLoadingFiles' = (mark \/ isLoadingFiles)
  /\ isLoadingAwake' = (mark \/ isLoadingAwake)
  /\ UNCHANGED <<isLoadingPaused, owners>>

(* Every YieldEvery chunks the builder yields; the yields are one here,
   since all of them lead to the same check.                               *)
KeepBuilding(r, p, l, clear, mark) ==
  /\ Mark(clear, mark)
  /\ task' = [Aborting(task) EXCEPT ![r] = [NoTask EXCEPT
                 !.pc = "build", !.page = p, !.ids = l]]

UpdateWithFileIds(r, p, l, clear, mark) ==
  IF l = <<>> THEN ShowNothing(r, p)
  ELSE IF ChunkCount(l) >= YieldEvery THEN KeepBuilding(r, p, l, clear, mark)
  ELSE StartLoading(r, p, l, Aborting(task))

(* A request that is not the last one any more leaves at the first chunk;
   its list was empty, or it has aborted the request in the store.         *)
UpdateTooLate(r, l) ==
  IF l = <<>> THEN ShowNothing(r, task[r].page)
  ELSE /\ task' = [Aborting(task) EXCEPT ![r].pc = "done"]
       /\ UNCHANGED <<fileIds, loadedFiles, flags, owners>>

(* updatePageContents of the active page, as request r. *)
UpdatePageContents(r, p, clear) ==
  /\ r \in Request
  /\ lastRequestId' = r
  /\ CASE p \in HydrusPage ->
            /\ Mark(clear, clear)
            /\ task' = [task EXCEPT ![r] = [NoTask EXCEPT
                           !.pc = "info", !.page = p]]
       [] p = SearchPage ->
            UpdateWithFileIds(r, p, searchResults', clear, TRUE)
       [] p \in VirtualPage ->
            UpdateWithFileIds(r, p, virtualPages'[p], clear, clear)

(* Mutant of Finish: the flags are forgotten. *)
ForgetOwners ==
  /\ UNCHANGED <<isLoadingFiles, isLoadingAwake>>
  /\ abortOwner' = NoRequest
  /\ loadController' = NoRequest

(* The end of a request that is current: nothing loads any more. *)
Finish ==
  /\ isLoadingFiles' = FALSE
  /\ isLoadingAwake' = FALSE
  /\ abortOwner' = NoRequest
  /\ loadController' = NoRequest
-----------------------------------------------------------------------------
(* Steps of a request. *)

(* getPageInfo answers with the list l, or fails.  The page must still be
   the active one; that the request is the last is not looked at.          *)
InfoReply(r, l) ==
  /\ task[r].pc = "info"
  /\ IF activePageKey # task[r].page
     THEN /\ task' = [task EXCEPT ![r].pc = "done"]
          /\ UNCHANGED <<fileIds, loadedFiles, flags, owners>>
     ELSE IF r = lastRequestId
     THEN UpdateWithFileIds(r, task[r].page, l, FALSE, FALSE)
     ELSE UpdateTooLate(r, l)
  /\ UNCHANGED <<activePageKey, lastRequestId, sources, demand>>

InfoFail(r) ==
  /\ task[r].pc = "info"
  /\ task' = [task EXCEPT ![r].pc = "done"]
  /\ IF activePageKey = task[r].page
     THEN isLoadingFiles' = FALSE /\ isLoadingAwake' = FALSE
     ELSE UNCHANGED <<isLoadingFiles, isLoadingAwake>>
  /\ UNCHANGED <<view, isLoadingPaused, lastRequestId, owners, sources, demand>>

BuildResume(r) ==
  /\ task[r].pc = "build"
  /\ IF Current(r)
     THEN StartLoading(r, task[r].page, task[r].ids, task)
     ELSE /\ task' = [task EXCEPT ![r].pc = "done"]
          /\ UNCHANGED <<fileIds, loadedFiles, flags, owners>>
  /\ UNCHANGED <<activePageKey, lastRequestId, sources, demand>>

(* The rest of the loop body once a chunk is in: the loop ends, pauses, or
   goes on with the next chunk.                                            *)
AfterChunk(r, t) ==
  CASE t.queue = <<>> ->
         /\ Finish
         /\ task' = [task EXCEPT ![r] = [t EXCEPT !.pc = "done"]]
    [] t.queue # <<>> /\ t.wanted = {} /\ isLoadingPaused ->
         /\ isLoadingAwake' = FALSE
         /\ task' = [task EXCEPT ![r] = [t EXCEPT !.pc = "paused", !.armed = TRUE]]
         /\ UNCHANGED <<isLoadingFiles, owners>>
    [] OTHER ->
         /\ task' = [task EXCEPT ![r] = NextChunk(
                       [t EXCEPT !.armed = @ /\ t.wanted # {}])]
         /\ UNCHANGED <<isLoadingFiles, isLoadingAwake, owners>>

(* getFileMetadata answers for the current chunk. *)
ChunkReply(r) ==
  /\ task[r].pc = "fetch"
  /\ ~task[r].aborted
  /\ LET c == task[r].cur
         arr == Store(loadedFiles, task[r].ids, c)
     IN IF Current(r)
        THEN /\ loadedFiles' = arr
             /\ demand' = Resolved(r, c, arr)
             /\ AfterChunk(r, [task[r] EXCEPT !.resolved = @ \cup {c},
                                              !.wanted = @ \ {c}])
        ELSE /\ task' = [task EXCEPT ![r].pc = "done"]
             /\ demand' = Rejected(r)
             /\ UNCHANGED <<loadedFiles, isLoadingFiles, isLoadingAwake, owners>>
  /\ UNCHANGED <<activePageKey, fileIds, isLoadingPaused, lastRequestId, sources>>

(* getFileMetadata fails for another reason than an abort. *)
ChunkFail(r) ==
  /\ task[r].pc = "fetch"
  /\ ~task[r].aborted
  /\ task' = [task EXCEPT ![r].pc = "done"]
  /\ demand' = Rejected(r)
  /\ IF Current(r) THEN Finish
     ELSE UNCHANGED <<isLoadingFiles, isLoadingAwake, owners>>
  /\ UNCHANGED <<view, isLoadingPaused, lastRequestId, sources>>

(* getFileMetadata was aborted: an AbortError changes no flag. *)
ChunkAborted(r) ==
  /\ task[r].pc = "fetch"
  /\ task[r].aborted
  /\ task' = [task EXCEPT ![r].pc = "done"]
  /\ demand' = Rejected(r)
  /\ UNCHANGED <<view, flags, lastRequestId, owners, sources>>
-----------------------------------------------------------------------------
(* What the user and the rest of the client call. *)

NextRequest == lastRequestId + 1

SetPage(p) ==
  /\ p \in VirtualPage => p \in DOMAIN virtualPages
  /\ activePageKey' = p
  /\ UNCHANGED <<sources, demand>>
  /\ UpdatePageContents(NextRequest, p, TRUE)

(* updatePageContents for the active page: drag and drop, a URL import, the
   first authentication, addFilesToPage of a Hydrus page.  For another page
   it does nothing.                                                        *)
UpdateActivePage ==
  /\ UNCHANGED <<activePageKey, sources, demand>>
  /\ UpdatePageContents(NextRequest, activePageKey, FALSE)

(* refreshPage: the flags are set, the server refreshes, the page is polled
   until it is ready, and the contents are updated.                        *)
RefreshStart ==
  /\ activePageKey \in HydrusPage
  /\ refreshing' = refreshing \cup {activePageKey}
  /\ isLoadingFiles' = TRUE
  /\ isLoadingAwake' = TRUE
  /\ UNCHANGED <<view, isLoadingPaused, lastRequestId, owners, virtualPages,
                 searchResults, task, demand>>

RefreshEnd(p) ==
  /\ p \in refreshing
  /\ refreshing' = refreshing \ {p}
  /\ UNCHANGED <<activePageKey, virtualPages, searchResults, demand>>
  /\ IF p = activePageKey
     THEN UpdatePageContents(NextRequest, p, FALSE)
     ELSE UNCHANGED <<fileIds, loadedFiles, flags, lastRequestId, owners, task>>

(* refreshPage throws: nothing takes the flags back. *)
RefreshFail(p) ==
  /\ p \in refreshing
  /\ refreshing' = refreshing \ {p}
  /\ UNCHANGED <<view, flags, lastRequestId, owners, virtualPages,
                 searchResults, task, demand>>

(* cancelCurrentPageLoad keeps what was loaded.  The task is not woken and
   its promises stay as they are until its abort reaches it.               *)
CancelCurrentPageLoad ==
  /\ task' = Aborting(task)
  /\ IF isLoadingFiles
     THEN /\ NextRequest \in Request
          /\ fileIds' = Compact(loadedFiles)
          /\ loadedFiles' = Compact(loadedFiles)
          /\ lastRequestId' = NextRequest
          /\ Finish
     ELSE UNCHANGED <<fileIds, loadedFiles, isLoadingFiles, isLoadingAwake,
                     lastRequestId, owners>>
  /\ UNCHANGED <<activePageKey, isLoadingPaused, sources, demand>>

(* A change of searchResults, even to an equal list, calls updatePageContents
   for the search page.                                                    *)
SearchResultsChange(l) ==
  /\ searchResults' = l
  /\ UNCHANGED <<activePageKey, virtualPages, refreshing, demand>>
  /\ IF activePageKey = SearchPage
     THEN UpdatePageContents(NextRequest, SearchPage, FALSE)
     ELSE UNCHANGED <<fileIds, loadedFiles, flags, lastRequestId, owners, task>>

(* A list becomes a tab of its own: addVirtualPage, or updateVirtualPage of
   a tab that was there, and setPage.  Popups, searches for a tag, the
   selection, and a filtered Hydrus page end like this.                    *)
OpenVirtualPage(p, l) ==
  /\ activePageKey' = p
  /\ virtualPages' = [q \in DOMAIN virtualPages \cup {p} |->
                        IF q = p THEN l ELSE virtualPages[q]]
  /\ UNCHANGED <<searchResults, refreshing, demand>>
  /\ UpdatePageContents(NextRequest, p, TRUE)

(* Removing the active virtual page goes to the search page first. *)
RemoveVirtualPage(p) ==
  /\ p \in DOMAIN virtualPages
  /\ virtualPages' = [q \in DOMAIN virtualPages \ {p} |-> virtualPages[q]]
  /\ UNCHANGED <<searchResults, refreshing, demand>>
  /\ IF p = activePageKey
     THEN /\ activePageKey' = SearchPage
          /\ UpdatePageContents(NextRequest, SearchPage, TRUE)
     ELSE UNCHANGED <<view, flags, lastRequestId, owners, task>>

(***************************************************************************)
(* The edits of a page that lives in the client, which end in a new list.  *)
(* For the search page they set searchResults, which updates the page, and *)
(* then update it again at once: nothing but its number is left of the     *)
(* first update.                                                           *)
(***************************************************************************)
EditSearchPage(l) ==
  /\ searchResults' = l
  /\ UNCHANGED <<activePageKey, virtualPages, refreshing, demand>>
  /\ IF activePageKey = SearchPage
     THEN UpdatePageContents(NextRequest + 1, SearchPage, FALSE)
     ELSE UNCHANGED <<fileIds, loadedFiles, flags, lastRequestId, owners, task>>

EditVirtualPage(p, l) ==
  /\ virtualPages' = [virtualPages EXCEPT ![p] = l]
  /\ UNCHANGED <<activePageKey, searchResults, refreshing, demand>>
  /\ IF p = activePageKey
     THEN UpdatePageContents(NextRequest, p, FALSE)
     ELSE UNCHANGED <<fileIds, loadedFiles, flags, lastRequestId, owners, task>>

AddFilesToPage(p, f) ==
  \/ /\ p = SearchPage
     /\ f \notin Elements(searchResults)
     /\ EditSearchPage(Append(searchResults, f))
  \/ /\ p \in DOMAIN virtualPages
     /\ f \notin Elements(virtualPages[p])
     /\ EditVirtualPage(p, Append(virtualPages[p], f))

(* Also the end of filterFilesFromView, whose list may be an older one. *)
RemoveFilesFromPage(p, fs) ==
  \/ /\ p = SearchPage
     /\ EditSearchPage(Without(searchResults, fs))
  \/ /\ p \in DOMAIN virtualPages
     /\ EditVirtualPage(p, Without(virtualPages[p], fs))

Orders(S) ==
  {l \in [1..Cardinality(S) -> S] : \A i, j \in DOMAIN l : l[i] = l[j] => i = j}

(* sortFilesFromView of a page that is not loading: a Hydrus page opens as
   a new virtual page p, any other page is edited.  (A failed load may leave
   holes in loadedFiles, which sort into undefined IDs: left out.)         *)
SortFilesFromView(p) ==
  /\ ~isLoadingFiles
  /\ DOMAIN loadedFiles = 1..Cardinality(DOMAIN loadedFiles)
  /\ \E l \in Orders({fileIds[i] : i \in DOMAIN loadedFiles}) :
       \/ /\ activePageKey \in HydrusPage
          /\ p \in VirtualPage \ DOMAIN virtualPages
          /\ OpenVirtualPage(p, l)
       \/ /\ p = activePageKey
          /\ p = SearchPage
          /\ EditSearchPage(l)
       \/ /\ p = activePageKey
          /\ p \in DOMAIN virtualPages
          /\ EditVirtualPage(p, l)

(* setIsLoadingPaused, and the wakeup of the loader in the store. *)
SetIsLoadingPaused(b) ==
  /\ b # isLoadingPaused
  /\ isLoadingPaused' = b
  /\ IF ~b /\ loadController # NoRequest
     THEN LET t == task[loadController]
          IN /\ isLoadingAwake' = (t.armed \/ isLoadingAwake)
             /\ task' = [task EXCEPT ![loadController] = Woken(t)]
     ELSE UNCHANGED <<isLoadingAwake, task>>
  /\ UNCHANGED <<view, isLoadingFiles, lastRequestId, owners, sources, demand>>

(* reprioritize on the controller of r: the view tells what it shows. *)
Reprioritize(r, fs) ==
  LET t == Reprioritized(task[r], ChunksFor(task[r].ids, fs))
      wakes == t.wanted # {}
  IN /\ isLoadingAwake' = ((wakes /\ t.armed) \/ isLoadingAwake)
     /\ task' = [task EXCEPT ![r] = IF wakes THEN Woken(t) ELSE t]

Prioritize(fs) ==
  /\ loadController # NoRequest
  /\ Reprioritize(loadController, fs)
  /\ UNCHANGED <<view, isLoadingFiles, isLoadingPaused, lastRequestId, owners,
                 sources, demand>>

(* A request has a controller once it has started to load.  Menus and
   shortcuts keep the controller of the moment they were made.             *)
Started(r) == task[r].ids # <<>> /\ task[r].pc # "build" /\ task[r].cur # 0

(* demandFetchMetadata(fs) on the controller of r.  Promises of chunks that
   were resolved are gone, those of a request that has ended are rejected. *)
DemandFetchMetadata(d, r, fs) ==
  LET t == task[r]
      cs == ChunksFor(t.ids, fs) \ t.resolved
  IN /\ demand[d].status = "none"
     /\ Started(r)
     /\ Reprioritize(r, fs)
     /\ demand' = [demand EXCEPT ![d] =
          [status |-> IF cs = {} THEN Realized(t.ids, fs, loadedFiles)
                      ELSE IF t.pc = "done" THEN "rejected" ELSE "waiting",
           owner |-> r, files |-> fs, waits |-> cs,
           fresh |-> r = loadController /\ Current(r)]]
     /\ UNCHANGED <<view, isLoadingFiles, isLoadingPaused, lastRequestId, owners,
                    sources>>

(* The Cancel button of the toast waitForChunks shows. *)
CancelDemand(d) ==
  /\ demand[d].status = "waiting"
  /\ demand' = [demand EXCEPT ![d].status = "rejected"]
  /\ UNCHANGED <<view, flags, lastRequestId, owners, sources, task>>
-----------------------------------------------------------------------------
RequestStep(r) ==
  \/ \E l \in Lists : InfoReply(r, l)
  \/ InfoFail(r)
  \/ BuildResume(r)
  \/ ChunkReply(r)
  \/ ChunkFail(r)
  \/ ChunkAborted(r)

UserStep ==
  \/ \E p \in Page : SetPage(p)
  \/ UpdateActivePage
  \/ RefreshStart
  \/ CancelCurrentPageLoad
  \/ \E l \in Lists : SearchResultsChange(l)
  \/ \E p \in VirtualPage, l \in Lists : OpenVirtualPage(p, l)
  \/ \E p \in VirtualPage : RemoveVirtualPage(p)
  \/ \E p \in Edited, f \in File : AddFilesToPage(p, f)
  \/ \E p \in Edited, fs \in (SUBSET File) \ {{}} : RemoveFilesFromPage(p, fs)
  \/ \E p \in Edited : SortFilesFromView(p)
  \/ \E b \in BOOLEAN : SetIsLoadingPaused(b)
  \/ \E fs \in SUBSET File : Prioritize(fs)
  \/ \E d \in Demand, r \in Request, fs \in (SUBSET File) \ {{}} :
        fs \subseteq Elements(task[r].ids) /\ DemandFetchMetadata(d, r, fs)
  \/ \E d \in Demand : CancelDemand(d)

Next ==
  \/ \E r \in Request : RequestStep(r)
  \/ UserStep
  \/ \E p \in HydrusPage : RefreshEnd(p) \/ RefreshFail(p)

Spec == Init /\ [][Next]_vars

(* Every call of the server is answered or fails, and an aborted one is
   rejected, after which JavaScript runs what waits for it.                *)
Fairness == \A r \in Request : WF_vars(RequestStep(r))

FairSpec == Spec /\ Fairness
-----------------------------------------------------------------------------
TaskType ==
  [pc : PC, page : Page, ids : FileList, queue : Seq(Nat), cur : Nat,
   wanted : SUBSET Nat, resolved : SUBSET Nat, aborted : BOOLEAN,
   armed : BOOLEAN]

DemandType ==
  [status : {"none", "waiting", "ok", "rejected", "unrealized", "wrong file"},
   owner : Request \cup {NoRequest}, files : SUBSET File, waits : SUBSET Nat,
   fresh : BOOLEAN]

(* Types: every state of the store, of a request and of a demand has the
   shape the TypeScript types give it, and no list has a file twice.       *)
TypeOK ==
  /\ activePageKey \in Page
  /\ \A i \in DOMAIN fileIds : i = 1 \/ i - 1 \in DOMAIN fileIds
  /\ fileIds \in FileList
  /\ DOMAIN loadedFiles \subseteq Nat
  /\ \A i \in DOMAIN loadedFiles : loadedFiles[i] \in File
  /\ isLoadingFiles \in BOOLEAN
  /\ isLoadingPaused \in BOOLEAN
  /\ isLoadingAwake \in BOOLEAN
  /\ lastRequestId \in Request \cup {NoRequest}
  /\ abortOwner \in Request \cup {NoRequest}
  /\ loadController \in Request \cup {NoRequest}
  /\ DOMAIN virtualPages \subseteq VirtualPage
  /\ \A p \in DOMAIN virtualPages : virtualPages[p] \in FileList
  /\ searchResults \in FileList
  /\ refreshing \subseteq HydrusPage
  /\ task \in [Request -> TaskType]
  /\ demand \in [Demand -> DemandType]

(* The requests whose loading loop runs. *)
Loading == {r \in Request : task[r].pc \in {"fetch", "paused"}}
Live == {r \in Loading : ~task[r].aborted}

(* Whatever requests overlap, a metadata entry in the store is the entry of
   the file the list has at that position: the thumbnail, the tags and the
   actions of a grid cell are those of the cell's file.  The loader writes
   by position, into an array that other requests replace.                 *)
LoadedMatchesIds ==
  \A i \in DOMAIN loadedFiles :
    i \in 1..Len(fileIds) /\ loadedFiles[i] = fileIds[i]

(* At most one loader is not aborted: a new load, a cancel and an empty page
   all stop the one before, also while a list is being built.              *)
OneLiveLoader == \A r, q \in Live : r = q

(* The loader of the current request works on the list that is shown, and
   what is loaded is exactly what its resolved chunks brought.             *)
LoaderShowsItsList ==
  \A r \in Live :
    Current(r) =>
      /\ fileIds = task[r].ids
      /\ DOMAIN loadedFiles =
           UNION {Positions(task[r].ids, c) : c \in task[r].resolved}

(* Where no reply can overtake another (no Hydrus page), the page says that
   it is loading only while the last request has a loader that is not
   aborted: the progress bar never stays behind.                           *)
LoadingHasLoader ==
  isLoadingFiles =>
    \/ refreshing # {}
    \/ \E r \in Request :
         /\ Current(r)
         /\ task[r].pc \in {"info", "build", "fetch", "paused"}
         /\ ~task[r].aborted

(* demandFetchMetadata on the controller of the load that is under way gives
   the metadata it was asked for or is rejected.                           *)
FreshDemandsRealized ==
  \A d \in Demand :
    demand[d].fresh => demand[d].status \notin {"unrealized", "wrong file"}

(* The store implements the view of the specification PageView. *)
View == INSTANCE PageView WITH
  Key <- Page, page <- activePageKey, list <- fileIds, shown <- loadedFiles

ImplementsPageView == View!Spec

(* A load ends, or it waits for the user because it is paused. *)
LoadEnds ==
  isLoadingFiles ~>
    (~isLoadingFiles \/ \E r \in Request : Current(r) /\ task[r].pc = "paused")

(* An interactive action that waits for metadata gets it or is told, also
   on a paused page, and also when its page is gone.                       *)
DemandsSettle ==
  \A d \in Demand : demand[d].status = "waiting" ~> demand[d].status # "waiting"
=============================================================================
