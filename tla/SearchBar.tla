------------------------------- MODULE SearchBar -------------------------------
(***************************************************************************)
(* The search bar (web/hydrui-client/src/components/widgets/PageView/      *)
(* SearchBar.tsx): the tags of the search, the one that is edited, the     *)
(* input and its suggestions, which come 300 ms after the last change and  *)
(* from a request that a later change aborts. Under it the storage that    *)
(* keeps the tags over a restart (utils/debouncedStorage.ts), which writes *)
(* ten seconds after the first change it has not written.                  *)
(*                                                                         *)
(* Performing the search is SearchStore.tla. A text is one of Text, or     *)
(* empty, behind some minus signs; the sort order, the order of the        *)
(* suggestions and all but one of the system tags are left out.            *)
(***************************************************************************)
EXTENDS Naturals, Sequences, SequencesExt, FiniteSets

CONSTANTS
  Text,     \* what a user types
  System,   \* the text of system tags: suggestions without a request
  Found,    \* Found[x]: the tags the server finds for the text x
  MaxTags,  \* bound: tags of a search
  MaxMinus, \* bound: minus signs of a tag
  MaxCrashes \* bound: crashes of the browser

Empty == "empty"
ASSUME TextAssumption == System \in Text /\ Empty \notin Text /\ "none" \notin Text
ASSUME FoundAssumption == Found \in [Text -> SUBSET Text]

VARIABLES
  searchTags,
  input,      \* the input: minus signs and a text
  editing,    \* editingTagIndex + 1, 0 for null
  focus,      \* hasFocus
  tagUI,      \* currentTagUI # null
  suggestions, \* the text they are for, and whether they are shown
  timer,      \* the timeout of the effect is pending
  requests,   \* requests for suggestions that are under way
  stored,     \* the tags in localStorage
  pending,    \* pendingSetItem: <<the tags>>, or <<>>
  saving,     \* the timeout of the storage is pending
  crashes

inputs == <<searchTags, input, editing, focus, tagUI>>
storage == <<stored, pending, saving>>
fetching == <<timer, requests>>
barVars == <<inputs, suggestions, fetching, storage, crashes>>

Texts == Text \cup {Empty}
Tag(minus, text) == [minus |-> minus, text |-> text]
Blank == Tag(0, Empty)
NoInput == Tag(0, "none")
NoSuggestions == [of |-> NoInput, shown |-> FALSE]

\* trimmedInput: the input without its minus sign. A second one is kept.
Negated == input.minus > 0
Unsigned(i) == IF i.minus > 0 THEN Tag(i.minus - 1, i.text) ELSE i
Trimmed == Unsigned(input)

BarInit ==
  /\ searchTags = <<>> /\ input = Blank /\ editing = 0
  /\ focus = FALSE /\ tagUI = FALSE
  /\ suggestions = NoSuggestions
  /\ timer = TRUE /\ requests = {}
  /\ stored = <<>> /\ pending = <<>> /\ saving = FALSE
  /\ crashes = 0

----------------------------------------------------------------------------
(* The storage.                                                            *)

\* A batch that is under way takes no later value.
SetItemOnce(value) ==
  /\ pending' = IF saving THEN pending ELSE <<value>>
  /\ saving' = TRUE /\ UNCHANGED stored

SetItem(value) == pending' = <<value>> /\ saving' = TRUE /\ UNCHANGED stored

\* persist stores the state whenever it is set.
SetSearchTags(tags) == searchTags' = tags /\ SetItem(tags)

Flush ==
  /\ stored' = IF pending = <<>> THEN stored ELSE pending[1]
  /\ pending' = <<>>

SaveTimer ==
  /\ saving /\ saving' = FALSE /\ Flush
  /\ UNCHANGED <<inputs, suggestions, fetching, crashes>>

\* beforeunload. The user may stay, and the timeout is still pending.
BeforeUnload ==
  /\ pending # <<>> /\ Flush
  /\ UNCHANGED <<inputs, suggestions, fetching, saving, crashes>>

\* The browser ends, with a warning or without: what is pending is lost. The
\* next session starts from what is stored.
Restart ==
  /\ crashes < MaxCrashes /\ crashes' = crashes + 1
  /\ searchTags' = stored /\ input' = Blank /\ editing' = 0
  /\ focus' = FALSE /\ tagUI' = FALSE
  /\ suggestions' = NoSuggestions
  /\ timer' = TRUE /\ requests' = {}
  /\ pending' = <<>> /\ saving' = FALSE /\ UNCHANGED stored

----------------------------------------------------------------------------
(* The suggestions.                                                        *)

\* The effect starts over when what it depends on has changed. Mutant: the
\* request goes on.
EffectKeepsRequests ==
  IF <<focus', Unsigned(input'), tagUI'>> # <<focus, Trimmed, tagUI>>
  THEN timer' = TRUE /\ requests' = requests
  ELSE UNCHANGED fetching

Effect ==
  IF <<focus', Unsigned(input'), tagUI'>> # <<focus, Trimmed, tagUI>>
  THEN timer' = TRUE /\ requests' = {}
  ELSE UNCHANGED fetching

\* An empty input and system tags have suggestions of their own.
WithoutRequest == Trimmed \in {Blank, Tag(0, System)}

\* fetchSuggestions, 300 ms after the last change.
FetchSuggestions ==
  /\ timer /\ timer' = FALSE
  /\ \/ tagUI /\ UNCHANGED <<suggestions, requests>>
     \/ ~tagUI /\ ~focus /\ suggestions' = NoSuggestions /\ UNCHANGED requests
     \/ /\ ~tagUI /\ focus /\ WithoutRequest
        /\ suggestions' = [of |-> Trimmed, shown |-> TRUE] /\ UNCHANGED requests
     \/ /\ ~tagUI /\ focus /\ ~WithoutRequest
        /\ requests' = {Trimmed} /\ UNCHANGED suggestions
  /\ UNCHANGED <<inputs, storage, crashes>>

FoundFor(i) ==
  IF i.text = Empty \/ i.minus > 0 THEN {} ELSE {Tag(0, t) : t \in Found[i.text]}

Answered ==
  /\ \E i \in requests :
       /\ requests' = requests \ {i}
       /\ suggestions' = [of |-> i, shown |-> FoundFor(i) # {}]
  /\ UNCHANGED <<inputs, timer, storage, crashes>>

RequestFails ==
  /\ \E i \in requests : requests' = requests \ {i}
  /\ suggestions' = [of |-> NoInput, shown |-> suggestions.shown]
  /\ UNCHANGED <<inputs, timer, storage, crashes>>

\* What is listed. A system tag may have an interface of its own.
Listed ==
  CASE suggestions.of = NoInput -> {}
    [] suggestions.of \in {Blank, Tag(0, System)} -> {Tag(0, System)}
    [] OTHER -> FoundFor(suggestions.of)

----------------------------------------------------------------------------
(* The input.                                                              *)

Hide == suggestions' = [of |-> suggestions.of, shown |-> FALSE]

Change ==
  /\ \E m \in 0..1, t \in Texts : input' = Tag(m, t) /\ input' # input
  /\ focus
  /\ UNCHANGED <<searchTags, editing, focus, tagUI, suggestions, storage, crashes>>
  /\ Effect

FocusChanges ==
  /\ focus' = ~focus
  /\ UNCHANGED <<searchTags, input, editing, tagUI, suggestions, storage, crashes>>
  /\ Effect

\* A click beside the input and the suggestions.
ClickOutside ==
  /\ Hide /\ tagUI' = FALSE
  /\ UNCHANGED <<searchTags, input, editing, focus, storage, crashes>>
  /\ Effect

Without(tags, tag) == SelectSeq(tags, LAMBDA t : t # tag)
With(tags, tag) == IF tag \in Range(tags) THEN tags ELSE Append(tags, tag)

\* addTag of a tag without an interface: the tag that is edited is replaced,
\* by its place, and the new one is the last.
AddTag(t) ==
  LET tag == IF Negated THEN Tag(t.minus + 1, t.text) ELSE t
      kept == IF editing = 0 THEN searchTags
              ELSE IF editing <= Len(searchTags)
              THEN Without(searchTags, searchTags[editing])
              ELSE searchTags
      tags == IF editing > Len(searchTags) THEN kept ELSE With(kept, tag)
  IN  /\ Len(tags) <= MaxTags
      /\ IF tags = searchTags THEN UNCHANGED <<searchTags, storage>> ELSE SetSearchTags(tags)
      /\ editing' = 0 /\ input' = Blank /\ Hide
      /\ UNCHANGED <<focus, tagUI, crashes>> /\ Effect

\* The suggestion opens the interface of a system tag.
OpenUI ==
  /\ suggestions.shown /\ ~tagUI /\ Tag(0, System) \in Listed
  /\ tagUI' = TRUE
  /\ UNCHANGED <<searchTags, input, editing, focus, suggestions, storage, crashes>>
  /\ Effect

\* The interface adds its tag. Only that of ratings is closed.
AddFromUI ==
  /\ suggestions.shown /\ tagUI
  /\ AddTag(Tag(0, System))

CloseUI ==
  /\ suggestions.shown /\ tagUI
  /\ tagUI' = FALSE /\ suggestions' = NoSuggestions
  /\ UNCHANGED <<searchTags, input, editing, focus, storage, crashes>>
  /\ Effect

\* A click or Enter on a suggestion, or Tab, which takes one that is not
\* shown too. The keys take them while an interface covers them.
TakeSuggestion ==
  /\ \/ suggestions.shown /\ (focus \/ ~tagUI)
     \/ focus /\ Trimmed # Blank
  /\ \E t \in Listed : AddTag(t)

\* Enter with no suggestion selected; with an empty input it searches.
Enter ==
  /\ focus /\ Trimmed # Blank /\ AddTag(Trimmed)

\* The search button adds the input as it is, its minus sign too.
SearchButton ==
  /\ input # Blank /\ input.minus < MaxMinus /\ AddTag(input)

Escape ==
  /\ focus
  /\ CASE suggestions.shown /\ tagUI -> tagUI' = FALSE /\ UNCHANGED <<suggestions, editing, input, focus>>
       [] suggestions.shown /\ ~tagUI -> Hide /\ UNCHANGED <<tagUI, editing, input, focus>>
       [] ~suggestions.shown /\ editing \in DOMAIN searchTags ->
            editing' = 0 /\ input' = Blank /\ UNCHANGED <<tagUI, suggestions, focus>>
       [] OTHER -> focus' = FALSE /\ UNCHANGED <<tagUI, suggestions, editing, input>>
  /\ Effect /\ UNCHANGED <<searchTags, storage, crashes>>

\* Editing the tag at a place: a click on it, or Backspace in an empty input.
EditTag(i) ==
  /\ editing' = i /\ input' = searchTags[i] /\ focus' = TRUE
  /\ UNCHANGED <<searchTags, tagUI, suggestions, storage, crashes>> /\ Effect

Edit == \E i \in DOMAIN searchTags : i # editing /\ EditTag(i)

Backspace ==
  /\ focus /\ Trimmed = Blank /\ searchTags # <<>>
  /\ \/ editing \notin DOMAIN searchTags /\ EditTag(Len(searchTags))
     \/ /\ editing \in DOMAIN searchTags /\ editing' = 0
        /\ SetSearchTags(Without(searchTags, searchTags[editing]))
        /\ UNCHANGED <<input, focus, tagUI, suggestions, fetching, crashes>>

\* The cross of another tag. The place of the tag that is edited is not
\* adjusted.
RemoveTag ==
  /\ \E i \in DOMAIN searchTags :
       i # editing /\ SetSearchTags(Without(searchTags, searchTags[i]))
  /\ UNCHANGED <<input, editing, focus, tagUI, suggestions, fetching, crashes>>

\* The list of tags beside the page adds one.
AddSearchTag ==
  /\ \E t \in Text : LET tags == With(searchTags, Tag(0, t))
                     IN  tags # searchTags /\ Len(tags) <= MaxTags /\ SetSearchTags(tags)
  /\ UNCHANGED <<input, editing, focus, tagUI, suggestions, fetching, crashes>>

BarNext ==
  \/ SaveTimer \/ BeforeUnload \/ Restart
  \/ FetchSuggestions \/ Answered \/ RequestFails
  \/ Change \/ FocusChanges \/ ClickOutside \/ OpenUI \/ AddFromUI \/ CloseUI
  \/ TakeSuggestion \/ Enter \/ SearchButton \/ Escape \/ Edit \/ Backspace
  \/ RemoveTag \/ AddSearchTag

BarSpec == BarInit /\ [][BarNext]_barVars

----------------------------------------------------------------------------

\* When nothing is under way, what is suggested is for what is in the input:
\* no answer to an earlier input comes late, and no change goes unanswered.
SuggestionsAreForInput ==
  focus /\ ~tagUI /\ ~timer /\ requests = {} /\ suggestions.shown =>
    suggestions.of \in {NoInput, Trimmed}

\* Until the browser ends no change of the tags is forgotten: the last one is
\* stored, or waits for a timeout that is pending.
LastTagsKept ==
  IF pending = <<>> THEN stored = searchTags
  ELSE saving /\ pending = <<searchTags>>

===============================================================================
