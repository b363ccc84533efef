------------------------------ MODULE SearchStore ------------------------------
(***************************************************************************)
(* The search of the Hydrui client: store/searchStore.ts.                  *)
(*                                                                         *)
(* performSearch numbers its searches with serial, aborts the one before,  *)
(* asks the server and stores the answer, if it is still the last search.  *)
(* The user changes the query, and with autoSearch every change schedules  *)
(* a search by setTimeout.                                                 *)
(*                                                                         *)
(* JavaScript runs one task at a time and drains its promise callbacks     *)
(* before the next: a search whose promise is settled goes on before       *)
(* anything else happens.                                                  *)
(*                                                                         *)
(* Abstractions.  A query stands for tags, sort order and direction.  The  *)
(* results and the error are represented by the serial of the search they  *)
(* are from, 0 for none.                                                   *)
(***************************************************************************)
EXTENDS Integers, FiniteSets

CONSTANTS
  Query,      \* searchTags, searchSort and searchAscending, with some tag
  NoTags,     \* the query without a tag
  MaxSearches \* bound: searches of one session

Search == 1..MaxSearches
None == 0

ASSUME SearchAssumption ==
  /\ NoTags \notin Query
  /\ MaxSearches \in Nat

VARIABLES
  query,         \* the search bar
  autoSearch,
  searchStatus,
  searchResults, \* the search that the results are from
  searchError,   \* the search that the error is from
  cancelSearch,  \* the search that the cancelSearch of the store aborts
  serial,
  timers,        \* calls of performSearch that setTimeout has scheduled
  search         \* the local state of every search

bar == <<query, autoSearch>>
shown == <<searchStatus, searchResults, searchError>>
vars == <<bar, shown, cancelSearch, serial, timers, search>>

Outcome == {"answered", "failed", "aborted"}

NoSearch == [pc |-> "none", query |-> NoTags, outcome |-> "answered"]

(* The query of the last session is restored, its results are not. *)
Init ==
  /\ query \in Query \cup {NoTags}
  /\ autoSearch \in BOOLEAN
  /\ searchStatus = "initial"
  /\ searchResults = None
  /\ searchError = None
  /\ cancelSearch = None
  /\ serial = 0
  /\ timers = 0
  /\ search = [s \in Search |-> NoSearch]
-----------------------------------------------------------------------------
Sent == {s \in Search : search[s].pc = "sent"}
Settled == {s \in Search : search[s].pc = "settled"}

(* No promise callback waits: the next task may run. *)
Idle == Settled = {}

(* Promises settle once. *)
Settle(s, outcome) == [search[s] EXCEPT !.pc = "settled", !.outcome = outcome]

(* The call of the cancelSearch in the store, if there is one. *)
Aborting ==
  [s \in Search |->
     IF s = cancelSearch /\ s \in Sent THEN Settle(s, "aborted") ELSE search[s]]

PerformSearch ==
  /\ serial + 1 \in Search
  /\ serial' = serial + 1
  /\ UNCHANGED bar
  /\ \/ /\ query = NoTags
        /\ searchResults' = None
        /\ searchStatus' = "loaded"
        /\ cancelSearch' = None
        /\ search' = Aborting
        /\ UNCHANGED searchError
     \/ /\ query # NoTags
        /\ searchStatus' = "loading"
        /\ searchError' = None
        /\ cancelSearch' = serial'
        /\ search' = [Aborting EXCEPT ![serial'] =
                        [pc |-> "sent", query |-> query, outcome |-> "answered"]]
        /\ UNCHANGED searchResults

(* The search button, or Enter in an empty search bar. *)
UserSearch ==
  /\ Idle
  /\ serial + timers < MaxSearches
  /\ PerformSearch
  /\ UNCHANGED timers

(* Mutants of TimerFires: the search is forgotten; it is never scheduled. *)
TimerExpires ==
  /\ Idle
  /\ timers > 0
  /\ timers' = timers - 1
  /\ UNCHANGED <<bar, shown, cancelSearch, serial, search>>

TimerFires ==
  /\ Idle
  /\ timers > 0
  /\ timers' = timers - 1
  /\ PerformSearch

(* setSearchTags, setSearchSort and setSearchAscending. *)
SetQuery(q) ==
  /\ Idle
  /\ serial + timers < MaxSearches
  /\ query' = q
  /\ timers' = IF autoSearch THEN timers + 1 ELSE timers
  /\ UNCHANGED <<autoSearch, shown, cancelSearch, serial, search>>

SetAutoSearch(b) ==
  /\ Idle
  /\ autoSearch' = b
  /\ UNCHANGED <<query, shown, cancelSearch, serial, timers, search>>

(* cancelCurrentPageLoad of the page store. *)
CancelCurrentPageLoad ==
  /\ Idle
  /\ search' = Aborting
  /\ UNCHANGED <<bar, shown, cancelSearch, serial, timers>>
-----------------------------------------------------------------------------
(* searchFiles answers, or fails. *)
Reply(s, outcome) ==
  /\ Idle
  /\ s \in Sent
  /\ search' = [search EXCEPT ![s] = Settle(s, outcome)]
  /\ UNCHANGED <<bar, shown, cancelSearch, serial, timers>>

(* Mutants of Continue: the serial is not compared; an aborted search
   changes nothing.                                                        *)
ContinueAnyway(s) ==
  /\ s \in Settled
  /\ searchStatus' = "loaded"
  /\ searchResults' = IF search[s].outcome = "answered" THEN s ELSE None
  /\ searchError' = IF search[s].outcome = "failed" THEN s ELSE searchError
  /\ cancelSearch' = None
  /\ search' = [search EXCEPT ![s].pc = "done"]
  /\ UNCHANGED <<bar, serial, timers>>

IgnoreAborted(s) ==
  /\ s \in Settled
  /\ IF serial # s \/ search[s].outcome = "aborted"
     THEN UNCHANGED shown
     ELSE /\ searchStatus' = "loaded"
          /\ searchResults' = IF search[s].outcome = "answered" THEN s ELSE None
          /\ searchError' = IF search[s].outcome = "failed" THEN s ELSE searchError
  /\ cancelSearch' = None
  /\ search' = [search EXCEPT ![s].pc = "done"]
  /\ UNCHANGED <<bar, serial, timers>>

(* The rest of performSearch after its await, catch and finally included:
   the finally clears cancelSearch, whichever search it belongs to.        *)
Continue(s) ==
  /\ s \in Settled
  /\ IF serial # s
     THEN UNCHANGED shown
     ELSE /\ searchStatus' = "loaded"
          /\ searchResults' = IF search[s].outcome = "answered" THEN s ELSE None
          /\ searchError' = CASE search[s].outcome = "answered" -> searchError
                              [] search[s].outcome = "failed"   -> s
                              [] search[s].outcome = "aborted"  -> None
  /\ cancelSearch' = None
  /\ search' = [search EXCEPT ![s].pc = "done"]
  /\ UNCHANGED <<bar, serial, timers>>

SearchStep(s) ==
  \/ \E outcome \in {"answered", "failed"} : Reply(s, outcome)
  \/ Continue(s)

Next ==
  \/ UserSearch
  \/ TimerFires
  \/ \E q \in Query \cup {NoTags} : SetQuery(q)
  \/ \E b \in BOOLEAN : SetAutoSearch(b)
  \/ CancelCurrentPageLoad
  \/ \E s \in Search : SearchStep(s)

Spec == Init /\ [][Next]_vars

(* A timer fires, and a request of the server is answered or fails. *)
FairSpec ==
  /\ Spec
  /\ WF_vars(TimerFires)
  /\ \A s \in Search : WF_vars(SearchStep(s))
-----------------------------------------------------------------------------
SearchType ==
  [pc : {"none", "sent", "settled", "done"}, query : Query \cup {NoTags},
   outcome : Outcome]

(* Types: the store and the searches have the shapes searchStore.ts declares
   for them.                                                               *)
TypeOK ==
  /\ query \in Query \cup {NoTags}
  /\ autoSearch \in BOOLEAN
  /\ searchStatus \in {"initial", "loading", "loaded"}
  /\ searchResults \in Search \cup {None}
  /\ searchError \in Search \cup {None}
  /\ cancelSearch \in Search \cup {None}
  /\ serial \in 0..MaxSearches
  /\ timers \in 0..MaxSearches
  /\ search \in [Search -> SearchType]

(* In whatever order the server answers, the results that are shown as
   loaded, and the error, are from the last search that asked it: a late
   answer of an older query never replaces those of a newer one.           *)
LoadedIsLatest ==
  searchStatus = "loaded" =>
    /\ searchResults # None => searchResults = serial
    /\ searchError # None =>
         \A s \in Search : s > searchError => search[s].pc = "none"

(* The page says that it is searching only while the last search is still to
   be answered: an abort or an old answer never leaves it that way.        *)
SearchingHasRequest ==
  searchStatus = "loading" =>
    \E s \in Search : s = serial /\ search[s].pc \in {"sent", "settled"}

(* "Abort existing request, if one exists": one request at a time. *)
OneRequest == Idle => Cardinality(Sent) <= 1

(* With auto-search a change of the query is followed by the results of the
   query as it is then, or by its error, unless the query changes again.   *)
AutoSearchCatchesUp ==
  \A q \in Query :
    (timers > 0 /\ query = q) ~>
      \/ query # q
      \/ searchStatus = "loaded" /\ serial # 0 /\ search[serial].query = q
=============================================================================
