----------------------------- MODULE Screen_proofs -----------------------------
(***************************************************************************)
(* Theorems about what the user sees of a search: the store that performs  *)
(* it, the bar it is typed into, and the page that shows its files; for    *)
(* any numbers of searches, texts, tags, crashes, pages, files, lists and  *)
(* operations. The three components have separate state; each has an       *)
(* invariant of its own.                                                   *)
(***************************************************************************)
EXTENDS SearchStore, SearchBar, PageGrid, Induction, SequenceTheorems

-----------------------------------------------------------------------------
(* The search store. That what is shown is from the last search is not     *)
(* inductive: one has to know that serials are never used twice, and that  *)
(* a search that is shown as under way is the last one and is still to be  *)
(* answered.                                                               *)

(* The serials are used in order, each once. *)
InOrder ==
  /\ serial + timers <= MaxSearches
  /\ searchError <= serial
  /\ \A s \in Search : s > serial => search[s].pc = "none"

(* The results and the error of LoadedIsLatest, the error also while a
   search is under way.                                                    *)
ResultsLatest ==
  searchStatus = "loaded" /\ searchResults # None => searchResults = serial

ErrorLatest ==
  searchError # None => \A s \in Search : s > searchError => search[s].pc = "none"

SearchInv == TypeOK /\ InOrder /\ ResultsLatest /\ ErrorLatest /\ SearchingHasRequest

(* Searches are numbered from 1, and start without a state. *)
LEMMA SearchFacts ==
  /\ Search \subseteq Nat \ {0}
  /\ \A s \in Search : s <= MaxSearches
  /\ None \notin Search
  /\ NoSearch \in SearchType
BY SearchAssumption DEF Search, None, NoSearch, SearchType, Outcome
-----------------------------------------------------------------------------
(* Aborting a search leaves it where it was, or settles it. *)
LEMMA AbortingFacts ==
  ASSUME search \in [Search -> SearchType]
  PROVE  /\ Aborting \in [Search -> SearchType]
         /\ \A s \in Search : search[s].pc = "none" <=> Aborting[s].pc = "none"
         /\ \A s \in Search : search[s].pc \in {"sent", "settled"} =>
                                Aborting[s].pc \in {"sent", "settled"}
<1>1. \A s \in Search : Settle(s, "aborted") \in SearchType
                        /\ Settle(s, "aborted").pc = "settled"
  BY DEF Settle, SearchType, Outcome
<1> QED
  BY <1>1 DEF Aborting, Sent

(* A step that only moves searches from sent to settled keeps SearchInv. *)
LEMMA SettlingKeeps ==
  ASSUME SearchInv, search' \in [Search -> SearchType],
         \A s \in Search : search[s].pc = "none" <=> search'[s].pc = "none",
         \A s \in Search : search[s].pc \in {"sent", "settled"} =>
                             search'[s].pc \in {"sent", "settled"},
         UNCHANGED <<bar, shown, cancelSearch, serial, timers>>
  PROVE  SearchInv'
<1> USE DEF SearchInv, bar, shown
<1>1. TypeOK'
  BY DEF TypeOK
<1>2. InOrder' /\ ResultsLatest' /\ ErrorLatest'
  BY DEF InOrder, ResultsLatest, ErrorLatest
<1>3. SearchingHasRequest'
  BY DEF SearchingHasRequest
<1> QED
  BY <1>1, <1>2, <1>3

(* A search after the next one was not made. *)
LEMMA LaterUnused ==
  ASSUME SearchInv, NEW s \in Search, s > serial + 1
  PROVE  search[s].pc = "none"
<1>1. s \in Nat /\ serial \in Nat
  BY SearchFacts, SearchAssumption DEF SearchInv, TypeOK
<1>2. s > serial
  BY <1>1
<1> QED
  BY <1>2 DEF SearchInv, InOrder

(* A new search, with one timer less or the same, and a slot left for it. *)
LEMMA PerformSearchStep ==
  ASSUME SearchInv, PerformSearch, timers' \in 0..MaxSearches,
         serial + 1 + timers' <= MaxSearches
  PROVE  SearchInv'
<1> USE SearchFacts, SearchAssumption DEF SearchInv
<1>1. /\ serial + 1 \in Search /\ serial' = serial + 1 /\ serial \in Nat
      /\ query' = query /\ autoSearch' = autoSearch
      /\ searchError \in Nat /\ searchError <= serial
  BY DEF PerformSearch, bar, TypeOK, InOrder, None
<1>2. /\ Aborting \in [Search -> SearchType]
      /\ \A s \in Search : search[s].pc = "none" <=> Aborting[s].pc = "none"
  BY AbortingFacts DEF TypeOK
<1>0. serial' + timers' <= MaxSearches /\ searchError <= serial' /\ 0 <= serial'
  <2>1. serial' + timers' <= MaxSearches
    <3>1. serial' + timers' = serial + 1 + timers'
      BY <1>1
    <3> QED
      BY <3>1
  <2>2. searchError <= serial' /\ 0 <= serial'
    BY <1>1
  <2> QED
    BY <2>1, <2>2
<1>3. CASE query = NoTags
  <2>1. /\ searchResults' = None /\ searchStatus' = "loaded"
        /\ cancelSearch' = None /\ search' = Aborting
        /\ searchError' = searchError
    BY <1>3 DEF PerformSearch
  <2>2. TypeOK'
    BY <1>1, <1>2, <2>1 DEF TypeOK
  <2>3. InOrder'
    <3>1. \A s \in Search : s > serial' => search'[s].pc = "none"
      BY <1>1, <1>2, <2>1, LaterUnused
    <3>2. serial' + timers' <= MaxSearches /\ searchError' <= serial'
      BY <1>0, <2>1
    <3> QED
      BY <3>1, <3>2 DEF InOrder
  <2>4. ErrorLatest'
    BY <1>2, <2>1 DEF ErrorLatest
  <2>5. ResultsLatest' /\ SearchingHasRequest'
    BY <2>1 DEF ResultsLatest, SearchingHasRequest
  <2> QED
    BY <2>2, <2>3, <2>4, <2>5
<1>4. CASE query # NoTags
  <2> DEFINE new == [pc |-> "sent", query |-> query, outcome |-> "answered"]
  <2>1. /\ searchStatus' = "loading" /\ searchError' = None
        /\ cancelSearch' = serial'
        /\ search' = [Aborting EXCEPT ![serial'] = new]
        /\ searchResults' = searchResults
    BY <1>4 DEF PerformSearch
  <2>2. new \in SearchType /\ new.pc = "sent"
    BY DEF TypeOK, SearchType, Outcome
  <2> HIDE DEF new
  <2>3. /\ search' \in [Search -> SearchType]
        /\ search'[serial'].pc = "sent"
        /\ \A s \in Search : s # serial' => search'[s] = Aborting[s]
    BY <1>1, <1>2, <2>1, <2>2
  <2>4. TypeOK'
    BY <1>1, <2>1, <2>3 DEF TypeOK
  <2>5. InOrder'
    <3>1. \A s \in Search : s > serial' => search'[s].pc = "none"
      <4> SUFFICES ASSUME NEW s \in Search, s > serial'
                   PROVE  search'[s].pc = "none"
        OBVIOUS
      <4>1. s # serial' /\ s > serial + 1
        BY <1>1
      <4>2. search[s].pc = "none"
        BY <4>1, LaterUnused
      <4> QED
        BY <1>2, <2>3, <4>1, <4>2
    <3>2. serial' + timers' <= MaxSearches /\ searchError' <= serial'
      BY <1>0, <2>1 DEF None
    <3> QED
      BY <3>1, <3>2 DEF InOrder
  <2>6. ResultsLatest' /\ ErrorLatest' /\ SearchingHasRequest'
    BY <1>1, <2>1, <2>3 DEF ResultsLatest, ErrorLatest, SearchingHasRequest
  <2> QED
    BY <2>4, <2>5, <2>6
<1> QED
  BY <1>3, <1>4

(* The search button keeps the invariant. *)
LEMMA UserSearchStep ==
  ASSUME SearchInv, UserSearch
  PROVE  SearchInv'
<1>1. /\ PerformSearch /\ timers' = timers /\ timers \in 0..MaxSearches
      /\ serial \in Nat /\ serial + timers < MaxSearches
  BY SearchAssumption DEF UserSearch, SearchInv, TypeOK
<1>2. serial + 1 + timers' <= MaxSearches
  BY <1>1, SearchAssumption
<1> QED
  BY <1>1, <1>2, PerformSearchStep

(* A search that was scheduled keeps the invariant. *)
LEMMA TimerFiresStep ==
  ASSUME SearchInv, TimerFires
  PROVE  SearchInv'
<1>1. /\ PerformSearch /\ timers' = timers - 1 /\ timers > 0
      /\ timers \in 0..MaxSearches /\ serial \in Nat
      /\ serial + timers <= MaxSearches
  BY SearchAssumption DEF TimerFires, SearchInv, TypeOK, InOrder
<1>2. timers' \in 0..MaxSearches /\ serial + 1 + timers' <= MaxSearches
  BY <1>1, SearchAssumption
<1> QED
  BY <1>1, <1>2, PerformSearchStep

(* A change of the query keeps the invariant. *)
LEMMA SetQueryStep ==
  ASSUME SearchInv, NEW q \in Query \cup {NoTags}, SetQuery(q)
  PROVE  SearchInv'
<1> USE SearchAssumption DEF SearchInv
<1>1. /\ query' = q /\ UNCHANGED <<autoSearch, shown, cancelSearch, serial, search>>
      /\ timers' \in {timers, timers + 1} /\ serial + timers < MaxSearches
      /\ serial \in Nat /\ timers \in Nat
  BY DEF SetQuery, TypeOK
<1>2. timers' \in 0..MaxSearches /\ serial + timers' <= MaxSearches
  <2>1. CASE timers' = timers
    BY <1>1, <2>1
  <2>2. CASE timers' = timers + 1
    BY <1>1, <2>2
  <2> QED
    BY <1>1, <2>1, <2>2
<1>3. TypeOK'
  BY <1>1, <1>2 DEF TypeOK, shown
<1>4. InOrder' /\ ResultsLatest' /\ ErrorLatest' /\ SearchingHasRequest'
  BY <1>1, <1>2
     DEF InOrder, ResultsLatest, ErrorLatest, SearchingHasRequest, shown
<1> QED
  BY <1>3, <1>4

(* A change of autoSearch keeps the invariant. *)
LEMMA SetAutoSearchStep ==
  ASSUME SearchInv, NEW b \in BOOLEAN, SetAutoSearch(b)
  PROVE  SearchInv'
<1> USE DEF SearchInv, SetAutoSearch, shown
<1>1. TypeOK'
  BY DEF TypeOK
<1>2. InOrder' /\ ResultsLatest' /\ ErrorLatest' /\ SearchingHasRequest'
  BY DEF InOrder, ResultsLatest, ErrorLatest, SearchingHasRequest
<1> QED
  BY <1>1, <1>2

(* An abort by the page store keeps the invariant. *)
LEMMA CancelCurrentPageLoadStep ==
  ASSUME SearchInv, CancelCurrentPageLoad
  PROVE  SearchInv'
BY AbortingFacts, SettlingKeeps DEF CancelCurrentPageLoad, SearchInv, TypeOK

(* An answer of the server keeps the invariant. *)
LEMMA ReplyStep ==
  ASSUME SearchInv, NEW s \in Search, NEW outcome \in {"answered", "failed"},
         Reply(s, outcome)
  PROVE  SearchInv'
<1>1. search \in [Search -> SearchType] /\ search[s].pc = "sent"
  BY DEF Reply, Sent, SearchInv, TypeOK
<1>2. Settle(s, outcome) \in SearchType /\ Settle(s, outcome).pc = "settled"
  BY <1>1 DEF Settle, SearchType, Outcome
<1>3. search' = [search EXCEPT ![s] = Settle(s, outcome)]
  BY DEF Reply
<1>4. /\ search' \in [Search -> SearchType]
      /\ search'[s].pc = "settled"
      /\ \A q \in Search : q # s => search'[q] = search[q]
  BY <1>1, <1>2, <1>3
<1> QED
  BY <1>1, <1>4, SettlingKeeps DEF Reply

(* The rest of performSearch keeps the invariant: only the last search
   shows its outcome. *)
LEMMA ContinueStep ==
  ASSUME SearchInv, NEW s \in Search, Continue(s)
  PROVE  SearchInv'
<1> USE SearchFacts, SearchAssumption DEF SearchInv
<1>1. /\ search \in [Search -> SearchType] /\ search[s].pc = "settled"
      /\ search' = [search EXCEPT ![s].pc = "done"]
      /\ UNCHANGED <<query, autoSearch, serial, timers>> /\ cancelSearch' = None
      /\ serial \in Nat /\ s \in Nat
  BY DEF Continue, Settled, bar, TypeOK
<1>2. /\ search' \in [Search -> SearchType]
      /\ search'[s].pc = "done"
      /\ \A q \in Search : q # s => search'[q] = search[q]
  BY <1>1 DEF SearchType
<1>3. s <= serial
  BY <1>1 DEF InOrder
<1>4. CASE serial # s
  <2>1. UNCHANGED shown
    BY <1>4 DEF Continue
  <2>2. TypeOK'
    BY <1>1, <1>2, <2>1 DEF TypeOK, shown
  <2>3. InOrder' /\ ResultsLatest'
    BY <1>1, <1>2, <1>3, <2>1 DEF InOrder, ResultsLatest, shown
  <2>4. ErrorLatest'
    BY <1>1, <1>2, <2>1 DEF ErrorLatest, shown
  <2>5. SearchingHasRequest'
    BY <1>1, <1>2, <1>4, <2>1 DEF SearchingHasRequest, shown
  <2> QED
    BY <2>2, <2>3, <2>4, <2>5
<1>5. CASE serial = s
  <2>1. /\ searchStatus' = "loaded"
        /\ searchResults' \in {s, None}
        /\ searchError' \in {searchError, s, None}
    BY <1>1, <1>5 DEF Continue, SearchType, Outcome
  <2>2. TypeOK'
    BY <1>1, <1>2, <2>1 DEF TypeOK
  <2>3. InOrder' /\ ResultsLatest' /\ SearchingHasRequest'
    BY <1>1, <1>2, <1>3, <1>5, <2>1
       DEF InOrder, ResultsLatest, SearchingHasRequest, None
  <2>4. ErrorLatest'
    <3>1. CASE searchError' = searchError
      BY <1>1, <1>2, <3>1 DEF ErrorLatest
    <3>2. CASE searchError' = s
      BY <1>2, <1>5, <3>2 DEF ErrorLatest, InOrder
    <3>3. CASE searchError' = None
      BY <3>3 DEF ErrorLatest
    <3> QED
      BY <2>1, <3>1, <3>2, <3>3
  <2> QED
    BY <2>2, <2>3, <2>4
<1> QED
  BY <1>4, <1>5

(* The invariant is inductive. *)
LEMMA SearchNextKeeps ==
  ASSUME SearchInv, [Next]_vars
  PROVE  SearchInv'
<1>1. CASE UNCHANGED vars
  <2> USE <1>1 DEF vars, bar, shown, SearchInv
  <2>1. TypeOK'
    BY DEF TypeOK
  <2>2. InOrder' /\ ResultsLatest' /\ ErrorLatest' /\ SearchingHasRequest'
    BY DEF InOrder, ResultsLatest, ErrorLatest, SearchingHasRequest
  <2> QED
    BY <2>1, <2>2
<1> QED
  BY <1>1, UserSearchStep, TimerFiresStep, SetQueryStep, SetAutoSearchStep,
     CancelCurrentPageLoadStep, ReplyStep, ContinueStep DEF Next, SearchStep

(* The invariant holds in the beginning. *)
LEMMA SearchInitInv == Init => SearchInv
<1> SUFFICES ASSUME Init
             PROVE  SearchInv
  OBVIOUS
<1> USE SearchFacts, SearchAssumption DEF Init
<1>1. \A s \in Search : search[s].pc = "none"
  BY DEF NoSearch
<1>2. TypeOK
  BY DEF TypeOK, None
<1> QED
  BY <1>1, <1>2
     DEF SearchInv, InOrder, ResultsLatest, ErrorLatest, SearchingHasRequest, None
-----------------------------------------------------------------------------
(* The inductive invariant holds in every state of the search. *)
THEOREM SearchInvariantHolds == Spec => []SearchInv
<1> QED
  BY SearchInitInv, SearchNextKeeps, PTL DEF Spec

(* The store and the searches have the types searchStore.ts declares. *)
THEOREM SearchTypeCorrect == Spec => []TypeOK
<1>1. SearchInv => TypeOK
  BY DEF SearchInv
<1> QED
  BY <1>1, SearchInvariantHolds, PTL

(* Whatever the order of the answers, what is shown as loaded is from the  *)
(* last search, and so is an error.                                        *)
THEOREM LatestShown == Spec => []LoadedIsLatest
<1>1. SearchInv => LoadedIsLatest
  BY DEF SearchInv, ResultsLatest, ErrorLatest, LoadedIsLatest
<1> QED
  BY <1>1, SearchInvariantHolds, PTL

(* The page says that it is searching only while the last search is still  *)
(* to be answered.                                                         *)
THEOREM SpinnerHasRequest == Spec => []SearchingHasRequest
<1>1. SearchInv => SearchingHasRequest
  BY DEF SearchInv
<1> QED
  BY <1>1, SearchInvariantHolds, PTL

-----------------------------------------------------------------------------
(* The search bar. An answer is for what is in the input because every     *)
(* change of the input takes the requests away; and the tags that are not  *)
(* stored are those that wait, because only a timer that writes them, or   *)
(* another change of the tags, takes them from where they wait.            *)

(* A request that is under way is for what is in the input. *)
RequestsAreForInput == requests \subseteq {Trimmed}

BarInv == RequestsAreForInput /\ SuggestionsAreForInput /\ LastTagsKept
-----------------------------------------------------------------------------
(* Setting the tags leaves them to be written. *)
LEMMA SettingKeeps ==
  ASSUME NEW tags, SetSearchTags(tags)
  PROVE  LastTagsKept'
BY DEF SetSearchTags, SetItem, LastTagsKept

(* A step that leaves the tags and the storage alone. *)
LEMMA TagsAlone ==
  ASSUME LastTagsKept, UNCHANGED <<searchTags, storage>>
  PROVE  LastTagsKept'
BY DEF storage, LastTagsKept

(* Whatever changes the input, the focus or the interface starts the effect
   over, and what does not may only hide the suggestions.                  *)
LEMMA EffectKeeps ==
  ASSUME BarInv, Effect,
         suggestions' = suggestions \/ Hide \/ suggestions' = NoSuggestions
  PROVE  RequestsAreForInput' /\ SuggestionsAreForInput'
<1>1. CASE <<focus', Unsigned(input'), tagUI'>> # <<focus, Trimmed, tagUI>>
  BY <1>1 DEF Effect, RequestsAreForInput, SuggestionsAreForInput
<1>2. CASE <<focus', Unsigned(input'), tagUI'>> = <<focus, Trimmed, tagUI>>
  <2>1. /\ focus' = focus /\ Trimmed' = Trimmed /\ tagUI' = tagUI
        /\ timer' = timer /\ requests' = requests
    BY <1>2 DEF Effect, fetching, Trimmed
  <2>2. RequestsAreForInput'
    BY <2>1 DEF BarInv, RequestsAreForInput
  <2>3. CASE suggestions' = suggestions
    BY <2>1, <2>2, <2>3 DEF BarInv, SuggestionsAreForInput
  <2>4. CASE Hide \/ suggestions' = NoSuggestions
    <3>1. ~suggestions'.shown
      BY <2>4 DEF Hide, NoSuggestions
    <3> QED
      BY <2>2, <3>1 DEF SuggestionsAreForInput
  <2> QED
    BY <2>2, <2>3, <2>4
<1> QED
  BY <1>1, <1>2

LEMMA BarInitInv == BarInit => BarInv
BY DEF BarInit, BarInv, RequestsAreForInput, SuggestionsAreForInput, LastTagsKept

(* The steps of the suggestions. *)
LEMMA SuggestionSteps ==
  ASSUME BarInv, FetchSuggestions \/ Answered \/ RequestFails
  PROVE  BarInv'
<1> USE DEF BarInv
<1>1. /\ UNCHANGED <<searchTags, storage>> /\ LastTagsKept'
      /\ focus' = focus /\ tagUI' = tagUI /\ Trimmed' = Trimmed
  BY TagsAlone DEF FetchSuggestions, Answered, RequestFails, inputs, Trimmed
<1>2. CASE FetchSuggestions
  BY <1>1, <1>2
  DEF FetchSuggestions, RequestsAreForInput, SuggestionsAreForInput, NoSuggestions
<1>3. CASE Answered
  <2>1. PICK i \in requests : requests' = requests \ {i} /\ suggestions'.of = i
    BY <1>3 DEF Answered
  <2>2. i = Trimmed
    BY <2>1 DEF RequestsAreForInput
  <2> QED
    BY <1>1, <2>1, <2>2 DEF RequestsAreForInput, SuggestionsAreForInput
<1>4. CASE RequestFails
  <2>1. requests' \subseteq requests /\ suggestions'.of = NoInput
    BY <1>4 DEF RequestFails
  <2> QED
    BY <1>1, <2>1 DEF RequestsAreForInput, SuggestionsAreForInput
<1> QED
  BY <1>2, <1>3, <1>4

(* The steps of the storage. *)
LEMMA StorageSteps ==
  ASSUME BarInv, SaveTimer \/ BeforeUnload \/ Restart
  PROVE  BarInv'
<1> USE DEF BarInv
<1>1. CASE SaveTimer \/ BeforeUnload
  <2>1. LastTagsKept'
    BY <1>1 DEF SaveTimer, BeforeUnload, Flush, LastTagsKept, inputs
  <2>2. UNCHANGED <<focus, tagUI, input, suggestions, timer, requests>>
    BY <1>1 DEF SaveTimer, BeforeUnload, inputs, fetching
  <2> QED
    BY <2>1, <2>2 DEF RequestsAreForInput, SuggestionsAreForInput, Trimmed
<1>2. CASE Restart
  BY <1>2 DEF Restart, RequestsAreForInput, SuggestionsAreForInput, LastTagsKept
<1> QED
  BY <1>1, <1>2

(* The steps that add a tag. *)
LEMMA AddTagKeeps ==
  ASSUME BarInv, NEW t, AddTag(t)
  PROVE  BarInv'
<1>1. PICK tags :
        /\ IF tags = searchTags THEN UNCHANGED <<searchTags, storage>> ELSE SetSearchTags(tags)
        /\ Hide /\ Effect
  BY DEF AddTag
<1>2. LastTagsKept'
  BY <1>1, TagsAlone, SettingKeeps DEF BarInv
<1>3. RequestsAreForInput' /\ SuggestionsAreForInput'
  BY <1>1, EffectKeeps
<1> QED
  BY <1>2, <1>3 DEF BarInv

(* The steps that change the input, the focus or the interface alone. *)
LEMMA InputSteps ==
  ASSUME BarInv, \/ Change \/ FocusChanges \/ ClickOutside \/ OpenUI \/ CloseUI
               \/ Escape \/ \E i \in DOMAIN searchTags : EditTag(i)
  PROVE  BarInv'
<1>1. Effect /\ UNCHANGED <<searchTags, storage>>
  BY DEF Change, FocusChanges, ClickOutside, OpenUI, CloseUI, Escape, EditTag
<1>2. suggestions' = suggestions \/ Hide \/ suggestions' = NoSuggestions
  BY DEF Change, FocusChanges, ClickOutside, OpenUI, CloseUI, Escape, EditTag
<1> QED
  BY <1>1, <1>2, EffectKeeps, TagsAlone DEF BarInv

(* The steps that change the tags alone. *)
LEMMA TagSteps ==
  ASSUME BarInv, NEW tags, SetSearchTags(tags),
         UNCHANGED <<input, focus, tagUI, suggestions, fetching>>
  PROVE  BarInv'
BY SettingKeeps DEF BarInv, RequestsAreForInput, SuggestionsAreForInput, Trimmed, fetching

LEMMA BarNextKeeps == BarInv /\ [BarNext]_barVars => BarInv'
<1> SUFFICES ASSUME BarInv, [BarNext]_barVars PROVE BarInv'
  OBVIOUS
<1>1. CASE SaveTimer \/ BeforeUnload \/ Restart
  BY <1>1, StorageSteps
<1>2. CASE FetchSuggestions \/ Answered \/ RequestFails
  BY <1>2, SuggestionSteps
<1>3. CASE Change \/ FocusChanges \/ ClickOutside \/ OpenUI \/ CloseUI \/ Escape
  BY <1>3, InputSteps
<1>4. CASE AddFromUI \/ TakeSuggestion \/ Enter \/ SearchButton
  BY <1>4, AddTagKeeps DEF AddFromUI, TakeSuggestion, Enter, SearchButton
<1>5. CASE Edit
  BY <1>5, InputSteps DEF Edit
<1>6. CASE Backspace
  <2>1. CASE editing \notin DOMAIN searchTags /\ EditTag(Len(searchTags)) /\ searchTags # <<>>
    <3>1. Effect /\ UNCHANGED <<searchTags, storage>> /\ suggestions' = suggestions
      BY <2>1 DEF EditTag
    <3> QED
      BY <3>1, EffectKeeps, TagsAlone DEF BarInv
  <2>2. CASE /\ SetSearchTags(Without(searchTags, searchTags[editing]))
             /\ UNCHANGED <<input, focus, tagUI, suggestions, fetching, crashes>>
    BY <2>2, TagSteps
  <2> QED
    BY <1>6, <2>1, <2>2 DEF Backspace
<1>7. CASE RemoveTag \/ AddSearchTag
  <2>1. PICK tags : SetSearchTags(tags)
    BY <1>7 DEF RemoveTag, AddSearchTag
  <2>2. UNCHANGED <<input, focus, tagUI, suggestions, fetching>>
    BY <1>7 DEF RemoveTag, AddSearchTag
  <2> QED
    BY <2>1, <2>2, TagSteps
<1>8. CASE UNCHANGED barVars
  BY <1>8 DEF barVars, inputs, storage, fetching, BarInv, RequestsAreForInput,
              SuggestionsAreForInput, LastTagsKept, Trimmed
<1> QED
  BY <1>1, <1>2, <1>3, <1>4, <1>5, <1>6, <1>7, <1>8 DEF BarNext

THEOREM BarInvariantHolds == BarSpec => []BarInv
BY BarInitInv, BarNextKeeps, PTL DEF BarSpec

(* However late an answer comes, the suggestions that stay are for what is in
   the input (SearchBar.tsx:157-190).                                      *)
THEOREM SuggestionsMatch == BarSpec => []SuggestionsAreForInput
<1>1. BarInv => SuggestionsAreForInput
  BY DEF BarInv
<1> QED
  BY <1>1, BarInvariantHolds, PTL

(* The last change of the tags is stored or waits to be
   (debouncedStorage.ts:23-35).                                            *)
THEOREM LastChangeKept == BarSpec => []LastTagsKept
<1>1. BarInv => LastTagsKept
  BY DEF BarInv
<1> QED
  BY <1>1, BarInvariantHolds, PTL

-----------------------------------------------------------------------------
(* The page on the screen. That the active file stays selected needs only  *)
(* that the selections are sets of files, and those come from a menu or a  *)
(* rectangle that was opened over another list: their types are the        *)
(* invariant. "none" is no file, so a page without an active file has      *)
(* nothing to keep.                                                        *)

DragType == {NoDrag} \cup [on : {TRUE}, base : SUBSET File, inverse : BOOLEAN]

MenuType ==
  {NoMenu} \cup [open : {TRUE}, of : {"file"}, files : SUBSET File]
           \cup [open : {TRUE}, of : {"tag"}, page : Key, files : SUBSET File]

OpType ==
  [kind : OpKinds, left : Nat, step : {"fetch", "work"}, toast : BOOLEAN,
   cancelled : BOOLEAN]
  \cup [kind : OpKinds, step : {"over"}, toast : BOOLEAN]

SelectionInv ==
  /\ selected \in [Key -> SUBSET File]
  /\ active \in [Key -> File \cup {NoFile}]

ScreenInv == page \in Key /\ fileIds \in Lists

ViewerInv == viewer = 0 \/ \E l \in Lists : viewer \in DOMAIN l

GridInv ==
  /\ ScreenInv /\ SelectionInv /\ ViewerInv
  /\ drag \in DragType /\ menu \in MenuType /\ ops \in Seq(OpType)

(* What is shown is files, each at its place. *)
LEMMA ShownFacts ==
  ASSUME fileIds \in Lists
  PROVE  /\ Shown \subseteq File /\ NoFile \notin Shown
         /\ \A i \in DOMAIN fileIds : fileIds[i] \in Shown
         /\ \A f \in Shown : IndexOf(f) \in DOMAIN fileIds /\ fileIds[IndexOf(f)] = f
         /\ \A i \in DOMAIN fileIds : i \in Nat
<1>1. fileIds \in Seq(File)
  BY ListsAssumption
<1>2. \A f \in Shown : \E i \in DOMAIN fileIds : fileIds[i] = f
  BY DEF Shown, Range
<1> QED
  BY <1>1, <1>2, NoFileAssumption DEF Shown, Range, IndexOf

LEMMA OperationFacts ==
  /\ \A kind \in OpKinds, n \in Nat : Op(kind, n) \in OpType
  /\ \A op \in OpType, toast \in BOOLEAN : Over(op, toast) \in OpType
  /\ \A kind \in OpKinds : /\ About[kind].toast \in BOOLEAN /\ About[kind].fetches \in BOOLEAN
                           /\ About[kind].tidies \in BOOLEAN
<1> DEFINE T == [fetches : BOOLEAN, toast : BOOLEAN, cancels : BOOLEAN, tidies : BOOLEAN,
                 opens : BOOLEAN, least : Nat]
<1>1. /\ Manage \in T /\ FindSimilarFiles \in T /\ OpenTags \in T /\ OpenBest \in T
      /\ MarkActiveFileAsBetter \in T /\ CopyImage \in T /\ Download \in T
      /\ SauceNao \in T /\ Upload \in T
  BY DEF Manage, FindSimilarFiles, OpenTags, OpenBest, MarkActiveFileAsBetter,
         CopyImage, Download, SauceNao, Upload
<1>2. \A kind \in DOMAIN About : About[kind] \in T
  <2> HIDE DEF T
  <2> QED
    BY <1>1 DEF About
<1>3. \A kind \in OpKinds : About[kind] \in T
  BY <1>2, KindsAssumption
<1> HIDE DEF About
<1> QED
  BY <1>3 DEF Op, Over, OpType

(* A step that selects files of the page and makes a, which may be none, its
   active file: if the active file was selected, a file of the page that is
   active is selected again.                                               *)
Selects(files, a) ==
  /\ files \in SUBSET File /\ a \in File \cup {NoFile}
  /\ SetSelectedFiles(files) /\ SetActiveFileId(a)
  /\ ActiveIsSelected /\ a \in Shown => a \in files

LEMMA SelectsKeeps ==
  ASSUME ScreenInv, SelectionInv, NEW files, NEW a, Selects(files, a)
  PROVE  /\ SelectionInv'
         /\ ActiveIsSelected /\ UNCHANGED screen => ActiveIsSelected'
<1>1. SelectionInv'
  BY DEF ScreenInv, SelectionInv, Selects, SetSelectedFiles, SetActiveFileId
<1>2. selected'[page] = files /\ active'[page] = a
  BY DEF ScreenInv, SelectionInv, Selects, SetSelectedFiles, SetActiveFileId
<1> QED
  BY <1>1, <1>2 DEF screen, ActiveIsSelected, ActiveFile, Here, Shown, Selects

(* What is selected and active where the user is. *)
LEMMA HereFacts ==
  ASSUME ScreenInv, SelectionInv
  PROVE  /\ Here \in SUBSET File /\ ActiveFile \in File \cup {NoFile}
         /\ UNCHANGED selected => SetSelectedFiles(Here)
         /\ UNCHANGED active => SetActiveFileId(ActiveFile)
BY DEF ScreenInv, SelectionInv, Here, ActiveFile, SetSelectedFiles, SetActiveFileId

(* A click selects. *)
LEMMA ClickSelects ==
  ASSUME ScreenInv, SelectionInv, NEW f \in Shown,
         ToggleFile(f) \/ (CanRange /\ SelectRange(f)) \/ SelectOnly(f)
  PROVE  \E files, a : Selects(files, a)
<1> USE ShownFacts, HereFacts DEF ScreenInv
<1>1. f \in File
  OBVIOUS
<1>2. CASE ToggleFile(f)
  <2>1. CASE f \in Here
    <3>1. Selects(Here \ {f}, IF ActiveFile = f THEN NoFile ELSE ActiveFile)
      BY <1>2, <2>1 DEF ToggleFile, Selects, ActiveIsSelected
    <3> QED
      BY <3>1
  <2>2. CASE f \notin Here
    <3>1. Selects(Here \cup {f}, IF ActiveFile = NoFile THEN f ELSE ActiveFile)
      BY <1>1, <1>2, <2>2 DEF ToggleFile, Selects, ActiveIsSelected
    <3> QED
      BY <3>1
  <2> QED
    BY <2>1, <2>2
<1>3. CASE SelectRange(f)
  <2>1. SetActiveFileId(ActiveFile)
    BY <1>3 DEF SelectRange
  <2>2. CASE ActiveFile \notin Shown
    <3>1. Selects(Here, ActiveFile)
      BY <1>3, <2>1, <2>2 DEF SelectRange, Selects
    <3> QED
      BY <3>1
  <2>3. CASE ActiveFile \in Shown
    <3> DEFINE ends == {IndexOf(f), IndexOf(ActiveFile)}
               files == {fileIds[i] : i \in {k \in DOMAIN fileIds :
                           \E lo, hi \in ends : lo <= k /\ k <= hi}}
    <3>1. SetSelectedFiles(files)
      BY <1>3, <2>3 DEF SelectRange
    <3>2. files \in SUBSET File
      OBVIOUS
    <3>3. ActiveFile \in files
      <4> DEFINE j == IndexOf(ActiveFile)
      <4>1. j \in DOMAIN fileIds /\ fileIds[j] = ActiveFile /\ j \in Nat /\ j \in ends
        BY <2>3
      <4> HIDE DEF j, ends
      <4>2. j <= j
        BY <4>1
      <4> QED
        BY <4>1, <4>2
    <3>4. Selects(files, ActiveFile)
      <4> HIDE DEF files
      <4> QED
        BY <2>1, <3>1, <3>2, <3>3 DEF Selects
    <3> QED
      BY <3>4
  <2> QED
    BY <2>2, <2>3
<1>4. CASE SelectOnly(f)
  <2>1. Selects({f}, f)
    BY <1>1, <1>4 DEF SelectOnly, Selects
  <2> QED
    BY <2>1
<1> QED
  BY <1>2, <1>3, <1>4

(* So does everything that touches the selection or the active file, but
   "Select files with tag".                                                *)
LEMMA SelectionSteps ==
  ASSUME ScreenInv, SelectionInv, drag \in DragType,
         \/ HandleFileClick \/ HandleFileOpen \/ SelectAllFiles \/ HandleClickOutside
         \/ HandleMouseDown \/ HandleMouseMove \/ HandleFileContextMenu
  PROVE  \E files, a : Selects(files, a)
<1> USE ShownFacts, HereFacts DEF ScreenInv
<1>0. UNCHANGED selection => Selects(Here, ActiveFile)
  BY DEF selection, Selects, ActiveIsSelected
<1>1. ClearSelection => Selects({}, NoFile)
  BY DEF ClearSelection, Selects
<1>2. CASE HandleFileClick
  BY <1>2, ClickSelects DEF HandleFileClick
<1>3. CASE HandleFileOpen
  BY <1>0, <1>3, ClickSelects DEF HandleFileOpen
<1>4. CASE SelectAllFiles
  <2>1. Selects(Shown, ActiveFile)
    BY <1>4 DEF SelectAllFiles, Selects
  <2> QED
    BY <2>1
<1>5. CASE HandleClickOutside \/ HandleMouseDown
  BY <1>0, <1>1, <1>5 DEF HandleClickOutside, HandleMouseDown
<1>6. CASE HandleMouseMove
  <2>1. PICK touched \in SUBSET Shown :
          LET files == IF drag.inverse THEN drag.base \ touched ELSE drag.base \cup touched
          IN  /\ SetSelectedFiles(files)
              /\ IF files = {} THEN SetActiveFileId(NoFile)
                 ELSE IF ActiveFile \in files THEN UNCHANGED active
                 ELSE \E f \in files : SetActiveFileId(f)
    BY <1>6 DEF HandleMouseMove
  <2> DEFINE files == IF drag.inverse THEN drag.base \ touched ELSE drag.base \cup touched
  <2>2. files \in SUBSET File
    <3>1. drag # NoDrag
      BY <1>6 DEF HandleMouseMove, NoDrag
    <3>2. drag \in [on : {TRUE}, base : SUBSET File, inverse : BOOLEAN]
      BY <3>1 DEF DragType
    <3>3. drag.base \in SUBSET File /\ touched \in SUBSET File
      BY <3>2
    <3> QED
      BY <3>3
  <2> HIDE DEF files
  <2>3. /\ SetSelectedFiles(files)
        /\ IF files = {} THEN SetActiveFileId(NoFile)
           ELSE IF ActiveFile \in files THEN UNCHANGED active
           ELSE \E f \in files : SetActiveFileId(f)
    BY <2>1 DEF files
  <2>4. CASE files = {}
    <3>1. Selects(files, NoFile)
      BY <2>2, <2>3, <2>4 DEF Selects
    <3> QED
      BY <3>1
  <2>5. CASE ActiveFile \in files
    <3>1. Selects(files, ActiveFile)
      BY <2>2, <2>3, <2>5 DEF Selects
    <3> QED
      BY <3>1
  <2>6. CASE files # {} /\ ActiveFile \notin files
    <3>1. PICK f \in files : SetActiveFileId(f)
      BY <2>3, <2>6
    <3>2. Selects(files, f)
      BY <2>2, <2>3, <3>1 DEF Selects
    <3> QED
      BY <3>2
  <2> QED
    BY <2>4, <2>5, <2>6
<1>7. CASE HandleFileContextMenu
  <2>1. PICK f \in Shown :
          LET files == IF f \in Here THEN Here ELSE {f}
          IN  SetSelectedFiles(files) /\ SetActiveFileId(f)
    BY <1>7 DEF HandleFileContextMenu
  <2>2. Selects(IF f \in Here THEN Here ELSE {f}, f)
    BY <2>1 DEF Selects
  <2> QED
    BY <2>2
<1> QED
  BY <1>2, <1>3, <1>4, <1>5, <1>6, <1>7

(* The other steps leave the selection as it is. *)
OtherStep ==
  \/ ListChanges \/ HandleMouseUp \/ HandleModalClose \/ HandleModalPreviousNext
  \/ TagContextMenu \/ CloseMenu \/ MenuStartsOp \/ MenuOpensPage \/ OpenTagsInNewPage
  \/ DeleteFilesById \/ PerformDelete \/ ArchiveSelected \/ HandleDrop
  \/ \E o \in DOMAIN ops : OpStep(o) \/ CancelOp(o)

LEMMA OtherKeepSelection ==
  ASSUME OtherStep
  PROVE  UNCHANGED selection
BY DEF OtherStep, ListChanges, HandleMouseUp, HandleModalClose, HandleModalPreviousNext,
       TagContextMenu, CloseMenu, MenuStartsOp, MenuOpensPage, OpenTagsInNewPage,
       DeleteFilesById, PerformDelete, ArchiveSelected, HandleDrop, OpStep, CancelOp,
       MetadataFetched, OpSucceeds, OpFails, selection

(* The files of a menu may be of a list that has gone, but they are files. *)
LEMMA TagSelectionTyped ==
  ASSUME ScreenInv, SelectionInv, menu \in MenuType, SelectFilesWithTag
  PROVE  SelectionInv'
<1>1. menu # NoMenu
  BY DEF SelectFilesWithTag, MenuOf, NoMenu
<1>2. menu.files \in SUBSET File
  BY <1>1 DEF MenuType
<1> QED
  BY <1>2 DEF SelectFilesWithTag, SelectionInv

LEMMA SelectionTyped ==
  ASSUME GridInv, GridNext
  PROVE  SelectionInv'
<1>1. CASE \/ HandleFileClick \/ HandleFileOpen \/ SelectAllFiles \/ HandleClickOutside
           \/ HandleMouseDown \/ HandleMouseMove \/ HandleFileContextMenu
  BY <1>1, SelectionSteps, SelectsKeeps DEF GridInv
<1>2. CASE SelectFilesWithTag
  BY <1>2, TagSelectionTyped DEF GridInv
<1>3. CASE OtherStep
  BY <1>3, OtherKeepSelection DEF GridInv, SelectionInv, selection
<1> QED
  BY <1>1, <1>2, <1>3 DEF GridNext, OtherStep

(* What is shown is one of the lists, of a page, whatever starts it over. *)
LEMMA ScreenTyped ==
  ASSUME ScreenInv, GridNext
  PROVE  ScreenInv'
<1>1. CASE UNCHANGED screen
  BY <1>1 DEF ScreenInv, screen
<1>2. CASE fileIds' \in Lists /\ Store!StartOver
  BY <1>2 DEF ScreenInv, Store!StartOver
<1>3. CASE ListChanges \/ MenuOpensPage \/ \E o \in DOMAIN ops : OpSucceeds(o)
  BY <1>1, <1>2, <1>3 DEF ListChanges, MenuOpensPage, OpSucceeds
<1>4. CASE \/ HandleFileClick \/ HandleFileOpen \/ SelectAllFiles \/ HandleClickOutside
           \/ HandleMouseDown \/ HandleMouseMove \/ HandleMouseUp
           \/ HandleModalClose \/ HandleModalPreviousNext
           \/ HandleFileContextMenu \/ TagContextMenu \/ CloseMenu
           \/ MenuStartsOp \/ OpenTagsInNewPage \/ SelectFilesWithTag
           \/ DeleteFilesById \/ PerformDelete \/ ArchiveSelected \/ HandleDrop
           \/ \E o \in DOMAIN ops : MetadataFetched(o) \/ OpFails(o) \/ CancelOp(o)
  <2>1. UNCHANGED screen
    BY <1>4 DEF HandleFileClick, HandleFileOpen, SelectAllFiles, HandleClickOutside,
         HandleMouseDown, HandleMouseMove, HandleMouseUp, HandleModalClose,
         HandleModalPreviousNext, HandleFileContextMenu, TagContextMenu, CloseMenu,
         MenuStartsOp, OpenTagsInNewPage, SelectFilesWithTag, DeleteFilesById,
         PerformDelete, ArchiveSelected, HandleDrop, MetadataFetched, OpFails, CancelOp
  <2> QED
    BY <1>1, <2>1
<1> QED
  BY <1>3, <1>4 DEF GridNext, OpStep

(* The viewer is opened at a place of the list, and moves within it. *)
LEMMA ViewerTyped ==
  ASSUME ScreenInv, ViewerInv, GridNext
  PROVE  ViewerInv'
<1>1. \/ viewer' \in {viewer, 0} \/ viewer' \in DOMAIN fileIds
  <2>1. HandleFileOpen => viewer' \in DOMAIN fileIds
    BY ShownFacts DEF HandleFileOpen, ScreenInv
  <2> QED
    BY <2>1 DEF GridNext, ListChanges, HandleFileClick, SelectAllFiles, HandleClickOutside,
         HandleMouseDown, HandleMouseMove, HandleMouseUp, HandleModalClose,
         HandleModalPreviousNext, HandleFileContextMenu, TagContextMenu, CloseMenu,
         MenuStartsOp, MenuOpensPage, OpenTagsInNewPage, SelectFilesWithTag,
         DeleteFilesById, PerformDelete, ArchiveSelected, HandleDrop, OpStep,
         MetadataFetched, OpSucceeds, OpFails, CancelOp
<1> QED
  BY <1>1 DEF ScreenInv, ViewerInv

(* What the rectangle and the menus keep are files. *)
LEMMA DragTyped ==
  ASSUME ScreenInv, SelectionInv, drag \in DragType, GridNext
  PROVE  drag' \in DragType
<1>1. CASE HandleMouseDown
  <2>1. PICK base \in {Here, {}}, inverse \in BOOLEAN :
          drag' = [on |-> TRUE, base |-> base, inverse |-> inverse]
    BY <1>1 DEF HandleMouseDown
  <2>2. base \in SUBSET File
    BY HereFacts
  <2> QED
    BY <2>1, <2>2 DEF DragType
<1>2. CASE ~HandleMouseDown
  <2>1. drag' = drag \/ drag' = NoDrag
    BY <1>2
    DEF ListChanges, HandleFileClick, HandleFileOpen, SelectAllFiles,
        HandleClickOutside, HandleMouseMove, HandleMouseUp, HandleModalClose,
        HandleModalPreviousNext, HandleFileContextMenu, TagContextMenu,
        CloseMenu, MenuStartsOp, MenuOpensPage, OpenTagsInNewPage,
        SelectFilesWithTag, DeleteFilesById, PerformDelete, ArchiveSelected,
        HandleDrop, OpStep, MetadataFetched, OpSucceeds, OpFails, CancelOp,
        GridNext
  <2> QED
    BY <2>1 DEF DragType
<1> QED
  BY <1>1, <1>2

LEMMA MenuTyped ==
  ASSUME ScreenInv, SelectionInv, menu \in MenuType, GridNext
  PROVE  menu' \in MenuType
<1> USE ShownFacts, HereFacts DEF ScreenInv
<1>1. CASE HandleFileContextMenu
  <2>1. PICK f \in Shown : menu' = [open |-> TRUE, of |-> "file",
                                   files |-> IF f \in Here THEN Here ELSE {f}]
    BY <1>1 DEF HandleFileContextMenu
  <2>2. (IF f \in Here THEN Here ELSE {f}) \in SUBSET File
    OBVIOUS
  <2> QED
    BY <2>1, <2>2 DEF MenuType
<1>2. CASE TagContextMenu
  <2>1. PICK files \in SUBSET Shown :
          menu' = [open |-> TRUE, of |-> "tag", page |-> page, files |-> files]
    BY <1>2 DEF TagContextMenu
  <2>2. files \in SUBSET File
    OBVIOUS
  <2> QED
    BY <2>1, <2>2 DEF MenuType
<1>3. CASE ~HandleFileContextMenu /\ ~TagContextMenu
  <2>1. menu' = menu \/ menu' = NoMenu
    BY <1>3
    DEF ListChanges, HandleFileClick, HandleFileOpen, SelectAllFiles,
        HandleClickOutside, HandleMouseDown, HandleMouseMove, HandleMouseUp,
        HandleModalClose, HandleModalPreviousNext, CloseMenu, MenuStartsOp,
        MenuOpensPage, OpenTagsInNewPage, SelectFilesWithTag, DeleteFilesById,
        PerformDelete, ArchiveSelected, HandleDrop, OpStep, MetadataFetched,
        OpSucceeds, OpFails, CancelOp, GridNext
  <2> QED
    BY <2>1 DEF MenuType
<1> QED
  BY <1>1, <1>2, <1>3

(* An operation starts as one of its kind, and stays one until it is over. *)
LEMMA StartTyped ==
  ASSUME ops \in Seq(OpType), NEW kind, NEW n \in Nat, Start(Op(kind, n))
  PROVE  ops' \in Seq(OpType)
<1>1. Op(kind, n).kind = kind
  BY DEF Op
<1>2. Op(kind, n) \in OpType
  BY <1>1, OperationFacts DEF Start
<1> QED
  BY <1>2 DEF Start

LEMMA OpStepTyped ==
  ASSUME ops \in Seq(OpType), NEW o \in DOMAIN ops, OpStep(o) \/ CancelOp(o)
  PROVE  ops' \in Seq(OpType)
<1> DEFINE op == ops[o]
<1>0. op \in OpType /\ op.toast \in BOOLEAN /\ op.kind \in OpKinds
  BY DEF OpType
<1> USE OperationFacts, <1>0
<1> SUFFICES \E new \in OpType : ops' = [ops EXCEPT ![o] = new]
  OBVIOUS
<1>1. ASSUME op.step # "over"
      PROVE  op \in [kind : OpKinds, left : Nat, step : {"fetch", "work"},
                     toast : BOOLEAN, cancelled : BOOLEAN]
  BY <1>1 DEF OpType
<1>2. \A toast \in BOOLEAN : Over(op, toast) \in OpType
  OBVIOUS
<1>3. CASE MetadataFetched(o)
  <2>1. [op EXCEPT !.step = "work", !.toast = About[op.kind].toast] \in OpType
    BY <1>1, <1>3 DEF MetadataFetched, OpType
  <2> QED
    BY <1>2, <1>3, <2>1 DEF MetadataFetched, SetOp
<1>4. CASE OpSucceeds(o)
  <2>1. ASSUME op.left > 1
        PROVE  [op EXCEPT !.left = @ - 1, !.toast = TRUE, !.cancelled = FALSE] \in OpType
    <3>1. op.step # "over"
      BY <1>4 DEF OpSucceeds
    <3>2. op.left - 1 \in Nat
      BY <1>1, <2>1, <3>1
    <3> QED
      BY <1>1, <3>1, <3>2 DEF OpType
  <2> QED
    BY <1>2, <1>4, <2>1 DEF OpSucceeds, SetOp
<1>5. CASE OpFails(o)
  BY <1>2, <1>5 DEF OpFails, SetOp
<1>6. CASE CancelOp(o)
  <2>1. op.step # "over" => [op EXCEPT !.toast = FALSE, !.cancelled = TRUE] \in OpType
    BY <1>1 DEF OpType
  <2> QED
    BY <1>2, <1>6, <2>1 DEF CancelOp, SetOp
<1> QED
  BY <1>3, <1>4, <1>5, <1>6 DEF OpStep

LEMMA OpsTyped ==
  ASSUME ops \in Seq(OpType), GridNext
  PROVE  ops' \in Seq(OpType)
<1>1. CASE MenuStartsOp \/ OpenTagsInNewPage \/ PerformDelete \/ ArchiveSelected
  BY <1>1, StartTyped
  DEF MenuStartsOp, OpenTagsInNewPage, PerformDelete, ArchiveSelected
<1>2. CASE HandleDrop
  <2>1. PICK n \in 1..MaxUploads : Start(Op("upload", n))
    BY <1>2 DEF HandleDrop
  <2>2. n \in Nat
    BY BoundsAssumption
  <2> QED
    BY <2>1, <2>2, StartTyped
<1>3. CASE \E o \in DOMAIN ops : OpStep(o) \/ CancelOp(o)
  BY <1>3, OpStepTyped
<1>4. CASE \/ ListChanges
           \/ HandleFileClick \/ HandleFileOpen \/ SelectAllFiles \/ HandleClickOutside
           \/ HandleMouseDown \/ HandleMouseMove \/ HandleMouseUp
           \/ HandleModalClose \/ HandleModalPreviousNext
           \/ HandleFileContextMenu \/ TagContextMenu \/ CloseMenu
           \/ MenuOpensPage \/ SelectFilesWithTag \/ DeleteFilesById
  BY <1>4 DEF ListChanges, HandleFileClick, HandleFileOpen, SelectAllFiles,
       HandleClickOutside, HandleMouseDown, HandleMouseMove, HandleMouseUp,
       HandleModalClose, HandleModalPreviousNext, HandleFileContextMenu, TagContextMenu,
       CloseMenu, MenuOpensPage, SelectFilesWithTag, DeleteFilesById
<1> QED
  BY <1>1, <1>2, <1>3, <1>4 DEF GridNext

LEMMA GridInitInv == GridInit => GridInv
BY ListsAssumption DEF GridInit, GridInv, ScreenInv, SelectionInv, ViewerInv, DragType, MenuType

LEMMA GridNextKeeps == GridInv /\ [GridNext]_gridVars => GridInv'
<1> SUFFICES ASSUME GridInv, [GridNext]_gridVars
             PROVE  GridInv'
  OBVIOUS
<1>1. CASE GridNext
  BY <1>1, ScreenTyped, SelectionTyped, ViewerTyped, DragTyped, MenuTyped, OpsTyped
  DEF GridInv
<1>2. CASE UNCHANGED gridVars
  BY <1>2 DEF gridVars, GridInv, ScreenInv, SelectionInv, ViewerInv
<1> QED
  BY <1>1, <1>2

(* The types of the page on the screen hold in every state: what is selected,
   drawn and kept by a menu is files, a viewer is at a place of a list, and
   operations are of their kinds.                                          *)
THEOREM GridInvariantHolds == GridSpec => []GridInv
BY GridInitInv, GridNextKeeps, PTL DEF GridSpec

(* The type invariant of the page on the screen (PageView.tsx:1250-1263 for
   the place of the viewer).                                               *)
THEOREM GridTypeCorrect == GridSpec => []GridTypeOK
<1>1. GridInv => GridTypeOK
  <2>1. \A op \in OpType : op.kind \in OpKinds /\ op.toast \in BOOLEAN
    BY DEF OpType
  <2> QED
    BY <2>1 DEF GridInv, ScreenInv, SelectionInv, ViewerInv, GridTypeOK
<1> QED
  BY <1>1, GridInvariantHolds, PTL

(* No click, range, rectangle or menu parts the active file of the page from
   its selection (PageView.tsx:600-643, 659-667, 1313-1345, 1488-1502), for
   any pages, lists and operations.                                        *)
THEOREM ActiveFileStaysSelected == GridSpec => ActiveStaysSelected
<1>1. ASSUME GridInv, [GridNext]_gridVars
      PROVE  [ActiveIsSelected /\ UNCHANGED screen /\ ~SelectFilesWithTag
                => ActiveIsSelected']_gridVars
  <2> SUFFICES ASSUME GridNext, ActiveIsSelected, UNCHANGED screen, ~SelectFilesWithTag
               PROVE  ActiveIsSelected'
    BY <1>1
  <2>1. CASE \/ HandleFileClick \/ HandleFileOpen \/ SelectAllFiles \/ HandleClickOutside
             \/ HandleMouseDown \/ HandleMouseMove \/ HandleFileContextMenu
    BY <1>1, <2>1, SelectionSteps, SelectsKeeps DEF GridInv
  <2>2. CASE OtherStep
    <3>1. UNCHANGED <<selected, active, page, fileIds>>
      BY <2>2, OtherKeepSelection DEF selection, screen
    <3> QED
      BY <3>1 DEF ActiveIsSelected, ActiveFile, Here, Shown
  <2> QED
    BY <2>1, <2>2 DEF GridNext, OtherStep
<1> QED
  BY <1>1, GridInvariantHolds, PTL DEF GridSpec, ActiveStaysSelected

===============================================================================
