------------------------------ MODULE DemoServer ------------------------------
(***************************************************************************)
(* What the server keeps of each file and what the requests that edit it   *)
(* do (web/hydrui-client/src/api/demoServer.ts, the only implementation of *)
(* the Hydrus API in the repository), as operators on the metadata of all  *)
(* files. A note that a file does not have is NoText.                      *)
(***************************************************************************)
CONSTANTS File, Service, Tag, Url, Note, Text, NoText

ASSUME NoTextAssumption == NoText \notin Text

Meta == [tags  : [Service -> SUBSET Tag],
         urls  : SUBSET Url,
         notes : [Note -> Text \cup {NoText}]]

\* filesRequest and fileMetadata: the files of a request are changed.
OnFiles(server, files, changed) ==
  [f \in File |-> IF f \in files THEN changed[f] ELSE server[f]]

\* First what is added, then what is removed, service by service.
AddTags(server, files, adds, removes) ==
  OnFiles(server, files,
    [f \in File |-> [server[f] EXCEPT
       !.tags = [s \in Service |-> (@[s] \cup adds[s]) \ removes[s]]]])

AssociateUrl(server, files, toAdd, toDelete) ==
  OnFiles(server, files,
    [f \in File |-> [server[f] EXCEPT !.urls = (@ \cup toAdd) \ toDelete]])

DeleteNotes(server, files, names) ==
  OnFiles(server, files,
    [f \in File |-> [server[f] EXCEPT
       !.notes = [n \in Note |-> IF n \in names THEN NoText ELSE @[n]]]])

AddNotes(server, files, notes) ==
  OnFiles(server, files,
    [f \in File |-> [server[f] EXCEPT
       !.notes = [n \in Note |-> IF notes[n] # NoText THEN notes[n] ELSE @[n]]]])

\* getFiles: the metadata of the files a request names.
GetFiles(server, files) == [f \in files |-> server[f]]
===============================================================================
