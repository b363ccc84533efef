--------------------------- MODULE RemoteFile_proofs ---------------------------
(***************************************************************************)
(* Theorems about a file that is read in pieces, for a file and chunks of  *)
(* any size and any number of calls, by itself and in the viewer of        *)
(* layered pictures, for any documents, files, toggles and thumbnails.     *)
(*                                                                         *)
(* That a read is given what has been fetched is not inductive: one has to *)
(* know what the call that fetches has left to fetch, and that the loader  *)
(* of a video asks for the bytes after those it has counted as loaded      *)
(* (IInv).  That the viewer shows what was asked needs what is under way   *)
(* between the page and its worker (PsdInv), and that the compositor draws *)
(* what the panel shows as visible (CompositorDoesAgree).                  *)
(***************************************************************************)
EXTENDS PSDViewer, Induction, SequenceTheorems

(* What is left of a call that has ended, or has not begun. *)
ShortCall == [step : {"none", "done", "failed"}, count : Nat]

(* A call under way. *)
LongCall ==
  [op : {"read", "prefetch"}, offset : Nat, size : Nat, left : SUBSET Chunks,
   step : {"waiting", "woken", "fetching", "ready"}, count : Nat]

TypeInv ==
  /\ file \in {"none", "head", "get", "memory", "remote", "failed"}
  /\ fetched \subseteq Chunks
  /\ fetching \in Calls \cup {Nobody}
  /\ call \in [Calls -> ShortCall \cup LongCall]
  /\ cursor \in Nat
  /\ loader \in [step : {"idle", "loading", "loaded", "failed"}, prefetched : Nat]
  /\ aborted \in BOOLEAN

(* Before the file is open nobody calls. *)
NobodyBefore == ~Open => fetching = Nobody /\ \A c \in Calls : Ended(call[c].step)

(* The call that fetches has what it was asked for, or has it still to fetch. *)
RestIsLeft ==
  \A c \in Calls : call[c].step = "fetching" =>
    Span(call[c].offset, call[c].size) \subseteq fetched \cup call[c].left

(* The loader asks for the bytes that follow those it has counted. *)
LoaderInStep ==
  ~Ended(call["loader"].step) =>
    /\ call["loader"].offset = loader.prefetched
    /\ call["loader"].size \in 1..(FileSize - loader.prefetched)

LoadedInFile == loader.prefetched \in 0..FileSize

IInv ==
  /\ TypeInv /\ NobodyBefore /\ RestIsLeft /\ LoaderInStep /\ LoadedInFile
  /\ OneRequest /\ ReadsAreFilled

-----------------------------------------------------------------------------
(* The smaller one of two numbers. *)
LEMMA MinOfTwo ==
  ASSUME NEW a \in Nat, NEW b \in Nat
  PROVE  /\ Min({a, b}) \in {a, b}
         /\ Min({a, b}) <= a /\ Min({a, b}) <= b
<1>1. \E x \in {a, b} : \A y \in {a, b} : x <= y
  <2>1. CASE a <= b
    BY <2>1
  <2>2. CASE b <= a
    BY <2>2
  <2> QED
    BY <2>1, <2>2
<1> QED
  BY <1>1 DEF Min

(* What a range takes is what is to be fetched. *)
LEMMA RangeOfBlocks ==
  ASSUME NEW blocks
  PROVE  FirstRange(blocks) \subseteq blocks
BY DEF FirstRange

(* Looking at the chunks of a range finds those of the range. *)
LEMMA BlocksOfSpan ==
  ASSUME NEW offset \in Nat, NEW size \in Nat
  PROVE  /\ BlocksToFetch(offset, size) \subseteq Chunks
         /\ BlocksToFetch(offset, size) \cap fetched = {}
         /\ Span(offset, size) \subseteq fetched \cup BlocksToFetch(offset, size)
BY DEF BlocksToFetch, Span

(* A look leaves the call waiting, fetching or ready, whichever the chunks
   and the request under way allow.                                        *)
LEMMA LookStep ==
  ASSUME TypeInv, OneRequest, RestIsLeft, ReadsAreFilled,
         NEW c \in Calls, call[c].step # "fetching",
         NEW job \in [op : {"read", "prefetch"}, offset : Nat, size : Nat,
                      left : SUBSET Chunks, step : {"new", "woken"}, count : Nat],
         Look(c, job), fetched' = fetched, loader'.prefetched = loader.prefetched
  PROVE  /\ call' \in [Calls -> ShortCall \cup LongCall]
         /\ \A d \in Calls \ {c} : call'[d] = call[d]
         /\ ~Ended(call'[c].step)
         /\ call'[c].offset = job.offset /\ call'[c].size = job.size
         /\ fetching' \in Calls \cup {Nobody}
         /\ OneRequest' /\ RestIsLeft' /\ ReadsAreFilled'
<1> DEFINE blocks == BlocksToFetch(job.offset, job.size)
           looked == Looked(c, job.offset, job.size, job)
<1>1. /\ blocks \subseteq Chunks /\ blocks \cap fetched = {}
      /\ Span(job.offset, job.size) \subseteq fetched \cup blocks
  BY BlocksOfSpan
<1>2. /\ call' = [call EXCEPT ![c] = looked]
      /\ fetching' = IF looked.step = "fetching" THEN c ELSE fetching
      /\ fetched' = fetched /\ loader'.prefetched = loader.prefetched
  BY DEF Look
<1>3. \/ blocks = {} /\ looked = [job EXCEPT !.step = "ready"]
      \/ blocks # {} /\ fetching # Nobody /\ looked = [job EXCEPT !.step = "waiting"]
      \/ /\ blocks # {} /\ fetching = Nobody
         /\ looked = [job EXCEPT !.step = "fetching", !.left = blocks]
  BY DEF Looked
<1> HIDE DEF blocks, looked
<1>4. /\ looked \in LongCall
      /\ looked.offset = job.offset /\ looked.size = job.size
      /\ \/ looked.step = "ready" /\ blocks = {}
         \/ looked.step = "waiting" /\ fetching # Nobody
         \/ looked.step = "fetching" /\ fetching = Nobody /\ looked.left = blocks
  BY <1>1, <1>3 DEF LongCall
<1>5. /\ call'[c] = looked /\ \A d \in Calls \ {c} : call'[d] = call[d]
      /\ call' \in [Calls -> ShortCall \cup LongCall]
  BY <1>2, <1>4 DEF TypeInv
<1>6. ~Ended(call'[c].step)
  BY <1>4, <1>5 DEF Ended
<1>7. fetching' \in Calls \cup {Nobody}
  BY <1>2 DEF TypeInv
<1>8. OneRequest'
  <2>1. \A d \in Calls : d # Nobody
    BY CallsAssumption DEF Calls, Nobody
  <2>2. fetching # c
    BY DEF OneRequest
  <2>3. \A d \in Calls : call'[d].step = "fetching" <=> fetching' = d
    <3>1. CASE looked.step = "fetching"
      BY <1>2, <1>4, <1>5, <2>1, <3>1 DEF OneRequest
    <3>2. CASE looked.step # "fetching"
      BY <1>2, <1>4, <1>5, <2>2, <3>2 DEF OneRequest
    <3> QED
      BY <3>1, <3>2
  <2>4. \A d \in Calls : call'[d].step = "fetching" => call'[d].left \cap fetched' = {}
    BY <1>1, <1>2, <1>4, <1>5 DEF OneRequest
  <2>5. \A d \in Calls : call'[d].step = "waiting" => fetching' # Nobody
    BY <1>2, <1>4, <1>5, <2>1 DEF OneRequest
  <2> QED
    BY <2>3, <2>4, <2>5 DEF OneRequest
<1>9. RestIsLeft'
  BY <1>1, <1>2, <1>4, <1>5 DEF RestIsLeft, Span, Chunks, LastChunk
<1>10. ReadsAreFilled'
  BY <1>1, <1>2, <1>4, <1>5 DEF ReadsAreFilled, Span, Chunks, LastChunk
<1> QED
  BY <1>4, <1>5, <1>6, <1>7, <1>8, <1>9, <1>10

-----------------------------------------------------------------------------
(* A number lies between the multiples its quotient says. *)
LEMMA Quotient ==
  ASSUME NEW n \in Nat
  PROVE  /\ n \div ChunkSize \in Nat
         /\ ChunkSize * (n \div ChunkSize) <= n
         /\ n < ChunkSize * (n \div ChunkSize + 1)
BY SizesAssumption

(* The chunks of two ranges that follow each other are those of both: no
   chunk lies between them.                                                *)
LEMMA SpansMeet ==
  ASSUME NEW a \in Nat, NEW b \in Nat
  PROVE  Span(0, a + b) \subseteq Span(0, a) \cup Span(a, b)
<1> SUFFICES ASSUME NEW i \in Span(0, a + b), i \notin Span(a, b)
             PROVE  i \in Span(0, a)
  OBVIOUS
<1>1. /\ i \in Chunks /\ i \in Nat
      /\ a + b > 0 /\ i <= (a + b - 1) \div ChunkSize
  BY DEF Span, Chunks
<1>2. 0 \div ChunkSize <= i
  BY DEF Span
<1>3. CASE b = 0
  BY <1>1, <1>2, <1>3 DEF Span
<1>4. CASE b > 0
  <2>1. i < a \div ChunkSize
    <3>1. ~(a \div ChunkSize <= i)
      BY <1>1, <1>4 DEF Span
    <3> QED
      BY <1>1, <3>1, Quotient
  <2>2. a > 0
    <3>1. ASSUME a = 0 PROVE FALSE
      BY <1>1, <1>2, <2>1, <3>1, Quotient
    <3> QED
      BY <3>1
  <2>3. i <= (a - 1) \div ChunkSize
    <3> DEFINE q == a \div ChunkSize
               p == (a - 1) \div ChunkSize
    <3>1. /\ q \in Nat /\ ChunkSize * q <= a
          /\ p \in Nat /\ a - 1 < ChunkSize * (p + 1)
      BY <2>2, Quotient
    <3>2. i + 1 <= q
      BY <1>1, <2>1, <3>1
    <3> HIDE DEF p, q
    <3>3. ASSUME p < i PROVE FALSE
      <4>1. p + 1 \in Nat /\ q \in Nat /\ p + 1 < q
        BY <1>1, <3>1, <3>2, <3>3
      <4>2. ChunkSize * (p + 1) + ChunkSize <= ChunkSize * q
        <5>1. PICK d \in Nat : q = (p + 1) + 1 + d
          <6>1. q - (p + 1) - 1 \in Nat
            BY <4>1
          <6> QED
            BY <4>1, <6>1
        <5>2. ChunkSize * q = ChunkSize * (p + 1) + ChunkSize + ChunkSize * d
          BY <4>1, <5>1, SizesAssumption
        <5>3. ChunkSize * d >= 0
          BY SizesAssumption
        <5>4. ChunkSize * d \in Nat /\ ChunkSize * (p + 1) \in Nat
          BY <4>1, SizesAssumption
        <5> QED
          BY <5>2, <5>3, <5>4, SizesAssumption
      <4>3. ChunkSize * (p + 1) \in Nat /\ ChunkSize * q \in Nat
        BY <4>1, SizesAssumption
      <4> QED
        BY <3>1, <4>2, <4>3, SizesAssumption
    <3>4. i <= p
      BY <1>1, <3>1, <3>3
    <3> QED
      BY <3>4 DEF p
  <2> QED
    BY <1>1, <1>2, <2>2, <2>3 DEF Span
<1> QED
  BY <1>3, <1>4

-----------------------------------------------------------------------------
(* A call that begins, or looks again, keeps everything as long as the loader
   asks for what follows.                                                  *)
LEMMA LookKeeps ==
  ASSUME IInv, Open, NEW c \in Calls, call[c].step # "fetching",
         NEW job \in [op : {"read", "prefetch"}, offset : Nat, size : Nat,
                      left : SUBSET Chunks, step : {"new", "woken"}, count : Nat],
         c = "loader" => /\ job.offset = loader.prefetched
                         /\ job.size \in 1..(FileSize - loader.prefetched),
         Look(c, job), loader'.prefetched = loader.prefetched,
         loader'.step \in {"idle", "loading", "loaded", "failed"},
         loader' \in [step : {"idle", "loading", "loaded", "failed"}, prefetched : Nat],
         UNCHANGED <<file, fetched, cursor, aborted>>
  PROVE  IInv'
<1>1. TypeInv /\ OneRequest /\ RestIsLeft /\ ReadsAreFilled
  BY DEF IInv
<1>2. /\ call' \in [Calls -> ShortCall \cup LongCall]
      /\ \A d \in Calls \ {c} : call'[d] = call[d]
      /\ ~Ended(call'[c].step)
      /\ call'[c].offset = job.offset /\ call'[c].size = job.size
      /\ fetching' \in Calls \cup {Nobody}
      /\ OneRequest' /\ RestIsLeft' /\ ReadsAreFilled'
  BY <1>1, LookStep
<1>3. TypeInv'
  BY <1>1, <1>2 DEF TypeInv
<1>4. NobodyBefore' /\ LoadedInFile'
  BY DEF IInv, NobodyBefore, LoadedInFile, Open
<1>5. LoaderInStep'
  <2>1. "loader" \in Calls
    BY DEF Calls
  <2>2. CASE c = "loader"
    BY <1>2, <2>2 DEF LoaderInStep
  <2>3. CASE c # "loader"
    BY <1>2, <2>1, <2>3 DEF IInv, LoaderInStep
  <2> QED
    BY <2>2, <2>3
<1> QED
  BY <1>2, <1>3, <1>4, <1>5 DEF IInv

(* Calls end only after the file has been opened, and do nothing before. *)
LEMMA UnderwayIsOpen ==
  ASSUME IInv, NEW c \in Calls, ~Ended(call[c].step)
  PROVE  Open
BY DEF IInv, NobodyBefore

LEMMA InitEstablishes == Init => IInv
<1> SUFFICES ASSUME Init PROVE IInv
  OBVIOUS
<1>1. TypeInv
  BY DEF Init, TypeInv, NotCalled, ShortCall
<1>2. NobodyBefore /\ RestIsLeft /\ LoaderInStep /\ LoadedInFile
  BY SizesAssumption
  DEF Init, NobodyBefore, RestIsLeft, LoaderInStep, LoadedInFile, NotCalled, Ended, Calls
<1>3. OneRequest
  BY CallsAssumption DEF Init, OneRequest, NotCalled, Calls, Nobody
<1>4. ReadsAreFilled
  <2>1. Span(0, 0) = {}
    BY DEF Span
  <2> QED
    BY <2>1 DEF Init, ReadsAreFilled, NotCalled
<1> QED
  BY <1>1, <1>2, <1>3, <1>4 DEF IInv

(* A range that arrives: what it takes is no longer left, and whoever waits
   for it is woken.                                                        *)
LEMMA RangeFetchedStep ==
  ASSUME IInv, NEW c \in Calls, RangeFetched(c)
  PROVE  IInv'
<1> DEFINE range == FirstRange(call[c].left)
           left == call[c].left \ range
<1>1. /\ fetched' = fetched \cup range
      /\ fetching' = IF left = {} THEN Nobody ELSE c
      /\ call' = [Woken EXCEPT ![c].left = left,
                              ![c].step = IF left = {} THEN "ready" ELSE @]
      /\ call[c].step = "fetching"
      /\ UNCHANGED <<file, cursor, loader, aborted>>
  BY DEF RangeFetched
<1>2. /\ call[c] \in LongCall /\ range \subseteq call[c].left
      /\ call[c].left \subseteq Chunks /\ left \subseteq Chunks
      /\ call[c].left \cap fetched = {} /\ fetching = c
  BY <1>1, RangeOfBlocks DEF IInv, TypeInv, OneRequest, ShortCall, LongCall
<1> HIDE DEF range, left
<1>3. Woken \in [Calls -> ShortCall \cup LongCall] /\ Woken[c] = call[c]
  BY <1>1 DEF Woken, IInv, TypeInv, ShortCall, LongCall
<1>4. /\ call'[c] = [call[c] EXCEPT !.left = left, !.step = IF left = {} THEN "ready" ELSE "fetching"]
      /\ \A d \in Calls \ {c} : call'[d] = Woken[d]
      /\ call' \in [Calls -> ShortCall \cup LongCall]
  BY <1>1, <1>2, <1>3 DEF LongCall
<1>5. /\ call'[c] \in LongCall /\ call'[c].left = left
      /\ call'[c].step = (IF left = {} THEN "ready" ELSE "fetching")
      /\ call'[c].offset = call[c].offset /\ call'[c].size = call[c].size
  BY <1>2, <1>4 DEF LongCall
<1>6. ASSUME NEW d \in Calls \ {c}
      PROVE  /\ call'[d] \in ShortCall \cup LongCall
             /\ call'[d].step \notin {"fetching", "waiting"}
             /\ call'[d].step = "ready" => call[d].step = "ready"
             /\ Ended(call'[d].step) <=> Ended(call[d].step)
             /\ ~Ended(call[d].step) => /\ call'[d].offset = call[d].offset
                                        /\ call'[d].size = call[d].size
  <2>1. call[d].step # "fetching"
    BY <1>2 DEF IInv, OneRequest
  <2>2. CASE call[d].step = "waiting"
    <3>1. call[d] \in LongCall
      BY <2>2 DEF IInv, TypeInv, ShortCall
    <3> QED
      BY <1>4, <2>2, <3>1 DEF Woken, LongCall, Ended
  <2>3. CASE call[d].step # "waiting"
    BY <1>4, <2>1, <2>3 DEF Woken, Ended
  <2> QED
    BY <2>2, <2>3
<1>7. TypeInv'
  BY <1>1, <1>2, <1>4 DEF IInv, TypeInv
<1>8. Open /\ Open'
  BY <1>1, UnderwayIsOpen DEF Ended, Open
<1>9. NobodyBefore' /\ LoadedInFile'
  BY <1>1, <1>8 DEF IInv, NobodyBefore, LoadedInFile
<1>10. RestIsLeft'
  BY <1>1, <1>2, <1>5, <1>6 DEF IInv, RestIsLeft, left
<1>11. LoaderInStep'
  <2>1. "loader" \in Calls
    BY DEF Calls
  <2>2. ~Ended(call[c].step)
    BY <1>1 DEF Ended
  <2> QED
    BY <1>1, <1>5, <1>6, <2>1, <2>2 DEF IInv, LoaderInStep
<1>12. OneRequest'
  <2>1. \A d \in Calls : d # Nobody
    BY CallsAssumption DEF Calls, Nobody
  <2>2. \A d \in Calls : call'[d].step = "fetching" <=> fetching' = d
    <3>1. call'[c].step = "fetching" <=> fetching' = c
      BY <1>1, <1>5, <2>1
    <3>2. ASSUME NEW d \in Calls \ {c} PROVE call'[d].step # "fetching" /\ fetching' # d
      BY <1>1, <1>6, <2>1
    <3> QED
      BY <3>1, <3>2
  <2>3. \A d \in Calls : call'[d].step = "fetching" => call'[d].left \cap fetched' = {}
    BY <1>1, <1>2, <1>5, <1>6 DEF left
  <2>4. \A d \in Calls : call'[d].step # "waiting"
    BY <1>5, <1>6
  <2> QED
    BY <2>2, <2>3, <2>4 DEF OneRequest
<1>13. ReadsAreFilled'
  <2>1. ASSUME left = {} PROVE Span(call[c].offset, call[c].size) \subseteq fetched'
    BY <1>1, <2>1 DEF IInv, RestIsLeft, left
  <2>2. \A d \in Calls : call'[d].step = "ready" =>
          Span(call'[d].offset, call'[d].size) \subseteq fetched'
    <3> SUFFICES ASSUME NEW d \in Calls, call'[d].step = "ready"
                 PROVE  Span(call'[d].offset, call'[d].size) \subseteq fetched'
      OBVIOUS
    <3>1. CASE d = c
      BY <1>5, <2>1, <3>1
    <3>2. CASE d # c
      <4>1. call[d].step = "ready" /\ ~Ended(call[d].step)
        BY <1>6, <3>2 DEF Ended
      <4>2. Span(call[d].offset, call[d].size) \subseteq fetched
        BY <4>1 DEF IInv, ReadsAreFilled
      <4>3. call'[d].offset = call[d].offset /\ call'[d].size = call[d].size
        BY <1>6, <3>2, <4>1
      <4> QED
        BY <1>1, <4>2, <4>3
    <3> QED
      BY <3>1, <3>2
  <2>3. Span(0, loader.prefetched) \subseteq fetched'
    BY <1>1 DEF IInv, ReadsAreFilled
  <2> QED
    BY <1>1, <2>2, <2>3 DEF ReadsAreFilled, Span, Chunks, LastChunk
<1> QED
  BY <1>7, <1>9, <1>10, <1>11, <1>12, <1>13 DEF IInv

(* Calls that end, well or not. What the loader has counted may grow with
   its own call that ends.                                                 *)
LEMMA EndingKeeps ==
  ASSUME IInv, NEW D \in SUBSET Calls,
         call' \in [Calls -> ShortCall \cup LongCall],
         \A d \in D : Ended(call'[d].step),
         \A d \in Calls \ D : call'[d] = call[d],
         \/ fetching' = fetching /\ fetching \notin D
         \/ /\ fetching' = Nobody
            /\ \A d \in Calls \ D : call[d].step \notin {"fetching", "waiting"},
         cursor' \in Nat, UNCHANGED <<file, fetched, aborted>>,
         loader' \in [step : {"idle", "loading", "loaded", "failed"}, prefetched : Nat],
         \/ loader'.prefetched = loader.prefetched
         \/ /\ "loader" \in D /\ loader'.prefetched \in 0..FileSize
            /\ Span(0, loader'.prefetched) \subseteq fetched
  PROVE  IInv'
<1> USE DEF IInv, Ended
<1>1. fetching' \in Calls \cup {Nobody} /\ TypeInv'
  BY DEF TypeInv
<1>2. LoadedInFile'
  BY DEF LoadedInFile
<1>3. NobodyBefore'
  BY DEF NobodyBefore, Open
<1>4. RestIsLeft'
  <2>1. \A d \in Calls : call'[d].step = "fetching" => call'[d] = call[d]
    OBVIOUS
  <2> QED
    BY <2>1 DEF RestIsLeft, Span, Chunks, LastChunk
<1>5. LoaderInStep'
  BY DEF LoaderInStep, Calls
<1>6. OneRequest'
  <2>1. \A d \in Calls : d # Nobody
    BY CallsAssumption DEF Calls, Nobody
  <2>2. \A d \in Calls : call'[d].step \in {"fetching", "waiting"} =>
                            d \notin D /\ call'[d] = call[d]
    OBVIOUS
  <2>3. CASE fetching' = fetching /\ fetching \notin D
    BY <2>1, <2>2, <2>3 DEF OneRequest
  <2>4. CASE /\ fetching' = Nobody
             /\ \A d \in Calls \ D : call[d].step \notin {"fetching", "waiting"}
    BY <2>1, <2>2, <2>4 DEF OneRequest
  <2> QED
    BY <2>3, <2>4
<1>7. ReadsAreFilled'
  <2>1. \A d \in Calls : call'[d].step = "ready" => call'[d] = call[d]
    OBVIOUS
  <2>2. Span(0, loader'.prefetched) \subseteq fetched'
    BY DEF ReadsAreFilled
  <2> QED
    BY <2>1, <2>2 DEF ReadsAreFilled, Span, Chunks, LastChunk
<1> QED
  BY <1>1, <1>2, <1>3, <1>4, <1>5, <1>6, <1>7

(* The steps of calls that end. *)
LEMMA EndingSteps ==
  ASSUME IInv,
         LoaderAdvances \/ \E c \in Calls : FetchFails(c) \/ Return(c)
  PROVE  IInv'
<1> DEFINE CallType == ShortCall \cup LongCall
<1>1. ASSUME NEW c \in Calls, NEW step \in {"done", "failed"}
      PROVE  Over(call[c], step) \in ShortCall /\ Ended(Over(call[c], step).step)
  BY DEF Over, Ended, IInv, TypeInv, ShortCall, LongCall
<1>2. ASSUME NEW c \in Calls, FetchFails(c) PROVE IInv'
  <2> DEFINE D == {d \in Calls : d = c \/ call[d].step = "waiting"}
  <2>1. /\ call' = [d \in Calls |-> IF d \in D THEN Over(call[d], "failed") ELSE call[d]]
        /\ fetching' = Nobody /\ UNCHANGED <<file, fetched, cursor, loader, aborted>>
        /\ call[c].step = "fetching"
    BY <1>2 DEF FetchFails
  <2>2. \A d \in Calls \ D : call[d].step \notin {"fetching", "waiting"}
    BY <2>1 DEF IInv, OneRequest
  <2> HIDE DEF D
  <2>3. D \in SUBSET Calls
    BY DEF D
  <2>4. /\ call' \in [Calls -> CallType]
        /\ \A d \in D : Ended(call'[d].step)
        /\ \A d \in Calls \ D : call'[d] = call[d]
    BY <1>1, <2>1, <2>3 DEF IInv, TypeInv
  <2>5. /\ cursor' \in Nat /\ UNCHANGED <<file, fetched, aborted>>
        /\ loader' \in [step : {"idle", "loading", "loaded", "failed"}, prefetched : Nat]
        /\ loader'.prefetched = loader.prefetched
    BY <2>1 DEF IInv, TypeInv
  <2> QED
    BY <2>1, <2>2, <2>3, <2>4, <2>5, EndingKeeps
<1>3. ASSUME NEW c \in Calls, Return(c) PROVE IInv'
  <2>1. /\ call' = [call EXCEPT ![c] = Over(@, "done")] /\ call[c].step = "ready"
        /\ UNCHANGED <<file, fetched, fetching, loader, aborted>>
    BY <1>3 DEF Return
  <2>2. call[c].size \in Nat
    BY <2>1 DEF IInv, TypeInv, ShortCall, LongCall
  <2>3. /\ cursor' \in Nat
        /\ loader' \in [step : {"idle", "loading", "loaded", "failed"}, prefetched : Nat]
    BY <1>3, <2>1, <2>2 DEF Return, IInv, TypeInv
  <2>4. /\ call' \in [Calls -> CallType]
        /\ \A d \in {c} : Ended(call'[d].step)
        /\ \A d \in Calls \ {c} : call'[d] = call[d]
    BY <1>1, <2>1 DEF IInv, TypeInv
  <2>5. fetching \notin {c}
    BY <2>1 DEF IInv, OneRequest
  <2> QED
    BY <2>1, <2>3, <2>4, <2>5, EndingKeeps
<1>4. ASSUME LoaderAdvances PROVE IInv'
  <2>1. /\ call' = [call EXCEPT !["loader"] = Over(@, "done")]
        /\ call["loader"].step = "ready" /\ "loader" \in Calls
        /\ loader' = [loader EXCEPT !.prefetched = @ + call["loader"].size]
        /\ UNCHANGED <<file, fetched, fetching, cursor, aborted>>
    BY <1>4 DEF LoaderAdvances, Calls
  <2>2. /\ call["loader"].size \in 1..(FileSize - loader.prefetched)
        /\ call["loader"].offset = loader.prefetched
    BY <2>1 DEF IInv, LoaderInStep, Ended
  <2>3. /\ loader.prefetched \in 0..FileSize
        /\ loader' \in [step : {"idle", "loading", "loaded", "failed"}, prefetched : Nat]
        /\ loader'.prefetched = loader.prefetched + call["loader"].size
    BY <2>1, <2>2, SizesAssumption DEF IInv, TypeInv, LoadedInFile
  <2>4. loader'.prefetched \in 0..FileSize
    BY <2>2, <2>3, SizesAssumption
  <2>5. Span(0, loader'.prefetched) \subseteq fetched
    <3>1. /\ Span(0, loader.prefetched) \subseteq fetched
          /\ Span(loader.prefetched, call["loader"].size) \subseteq fetched
      BY <2>1, <2>2 DEF IInv, ReadsAreFilled
    <3>2. loader.prefetched \in Nat /\ call["loader"].size \in Nat
      BY <2>2, <2>3
    <3> QED
      BY <2>3, <3>1, <3>2, SpansMeet
  <2>6. /\ call' \in [Calls -> CallType]
        /\ \A d \in {"loader"} : Ended(call'[d].step)
        /\ \A d \in Calls \ {"loader"} : call'[d] = call[d]
    BY <1>1, <2>1 DEF IInv, TypeInv
  <2>7. fetching \notin {"loader"}
    BY <2>1 DEF IInv, OneRequest
  <2>8. cursor' \in Nat
    BY <2>1 DEF IInv, TypeInv
  <2> QED
    BY <2>1, <2>3, <2>4, <2>5, <2>6, <2>7, <2>8, EndingKeeps
<1> QED
  BY <1>2, <1>3, <1>4

(* The steps of calls that begin or look again. *)
LEMMA LookingSteps ==
  ASSUME IInv,
         \/ PlayerRead \/ LoaderPrefetches
         \/ \E c \in Calls : BeginCall(c) \/ LookAgain(c)
  PROVE  IInv'
<1> DEFINE Job == [op : {"read", "prefetch"}, offset : Nat, size : Nat,
                   left : SUBSET Chunks, step : {"new", "woken"}, count : Nat]
<1>1. /\ \A c \in Calls : call[c].count \in Nat
      /\ loader \in [step : {"idle", "loading", "loaded", "failed"}, prefetched : Nat]
      /\ cursor \in Nat /\ loader.prefetched \in Nat
  BY DEF IInv, TypeInv, ShortCall, LongCall
<1>2. ASSUME NEW c \in Calls, BeginCall(c) PROVE IInv'
  <2>1. PICK op \in {"read", "prefetch"}, offset \in 0..FileSize, size \in ReadSizes :
          Begin(c, op, offset, size)
    BY <1>2 DEF BeginCall
  <2>2. /\ Open /\ c \in Call /\ call[c].step # "fetching"
        /\ UNCHANGED <<file, fetched, cursor, loader, aborted>>
    BY <1>2 DEF BeginCall
  <2> DEFINE job == [op |-> op, offset |-> offset, size |-> size, step |-> "new", left |-> {},
                     count |-> call[c].count + 1]
  <2>3. job \in Job
    BY <1>1, CallsAssumption, SizesAssumption
  <2>4. Look(c, job) /\ c # "loader"
    BY <2>1, <2>2, CallsAssumption DEF Begin
  <2> QED
    BY <1>1, <2>2, <2>3, <2>4, LookKeeps
<1>3. ASSUME NEW c \in Calls, LookAgain(c) PROVE IInv'
  <2>1. /\ call[c].step = "woken" /\ Look(c, call[c])
        /\ UNCHANGED <<file, fetched, cursor, loader, aborted>>
    BY <1>3 DEF LookAgain
  <2>2. call[c] \in Job
    BY <2>1 DEF IInv, TypeInv, ShortCall, LongCall
  <2>3. Open
    BY <2>1, UnderwayIsOpen DEF Ended
  <2>4. c = "loader" => /\ call[c].offset = loader.prefetched
                        /\ call[c].size \in 1..(FileSize - loader.prefetched)
    BY <2>1 DEF IInv, LoaderInStep, Ended
  <2> HIDE DEF Job
  <2> DEFINE job == call[c]
  <2>5. job \in Job /\ Look(c, job)
    BY <2>1, <2>2
  <2> QED
    BY <1>1, <2>1, <2>3, <2>4, <2>5, LookKeeps DEF Job
<1>4. ASSUME PlayerRead PROVE IInv'
  <2> DEFINE size(n) == Min({n, FileSize - cursor})
             job(n) == [op |-> "read", offset |-> cursor, size |-> size(n), step |-> "new",
                        left |-> {}, count |-> call["player"].count + 1]
  <2>1. PICK n \in ReadSizes \ {0} : Look("player", job(n))
    BY <1>4 DEF PlayerRead, Begin
  <2>2. /\ Open /\ "player" \in Calls /\ call["player"].step # "fetching"
        /\ cursor < FileSize /\ UNCHANGED <<file, fetched, cursor, loader, aborted>>
    BY <1>4 DEF PlayerRead, Open, Calls, Ended
  <2>3. n \in Nat /\ FileSize - cursor \in Nat
    BY <1>1, <2>2, CallsAssumption, SizesAssumption
  <2>4. size(n) \in Nat
    BY <2>3, MinOfTwo
  <2> HIDE DEF size
  <2>5. job(n) \in Job
    BY <1>1, <2>2, <2>4
  <2> QED
    BY <1>1, <2>1, <2>2, <2>5, LookKeeps
<1>5. ASSUME LoaderPrefetches PROVE IInv'
  <2> DEFINE size == Min({ChunkSize, FileSize - loader.prefetched})
             job == [op |-> "prefetch", offset |-> loader.prefetched, size |-> size,
                     step |-> "new", left |-> {}, count |-> call["loader"].count + 1]
  <2>1. /\ Look("loader", job) /\ loader.prefetched < FileSize
        /\ Open /\ "loader" \in Calls /\ call["loader"].step # "fetching"
        /\ loader' = [loader EXCEPT !.step = "loading"]
        /\ UNCHANGED <<file, fetched, cursor, aborted>>
    BY <1>5 DEF LoaderPrefetches, Begin, Open, Calls, Ended
  <2>2. /\ ChunkSize \in Nat \ {0} /\ FileSize - loader.prefetched \in Nat \ {0}
    BY <1>1, <2>1, SizesAssumption
  <2>3. size \in 1..(FileSize - loader.prefetched) /\ size \in Nat
    BY <2>2, MinOfTwo
  <2>4. /\ loader' \in [step : {"idle", "loading", "loaded", "failed"}, prefetched : Nat]
        /\ loader'.prefetched = loader.prefetched
        /\ loader'.step \in {"idle", "loading", "loaded", "failed"}
    BY <1>1, <2>1
  <2> HIDE DEF size
  <2>5. job \in Job
    BY <1>1, <2>1, <2>3
  <2> QED
    BY <2>1, <2>3, <2>4, <2>5, LookKeeps
<1> QED
  BY <1>2, <1>3, <1>4, <1>5

(* The steps of opening, seeking, ending and aborting. *)
LEMMA OtherSteps ==
  ASSUME IInv,
         \/ CreateRemoteFile \/ HeadAnswered \/ FileFetched
         \/ PlayerSeek \/ LoaderEnds \/ Abort \/ UNCHANGED vars
  PROVE  IInv'
<1> USE DEF IInv
<1>1. CASE CreateRemoteFile \/ HeadAnswered
  <2>1. /\ ~Open /\ file' \in {"head", "remote", "get", "failed"}
        /\ UNCHANGED <<fetched, fetching, call, cursor, loader, aborted>>
    BY <1>1 DEF CreateRemoteFile, HeadAnswered, Open
  <2>2. TypeInv' /\ NobodyBefore'
    BY <2>1 DEF TypeInv, NobodyBefore
  <2> QED
    BY <2>1, <2>2 DEF RestIsLeft, LoaderInStep, LoadedInFile, OneRequest, ReadsAreFilled,
                      Span, Chunks, LastChunk
<1>2. CASE FileFetched
  <2>1. /\ ~Open /\ file' \in {"memory", "failed"} /\ fetched' \in {fetched, Chunks}
        /\ UNCHANGED <<fetching, call, cursor, loader, aborted>>
    BY <1>2 DEF FileFetched, Open
  <2>2. fetching = Nobody /\ \A c \in Calls : Ended(call[c].step)
    BY <2>1 DEF NobodyBefore
  <2>3. TypeInv' /\ NobodyBefore'
    BY <2>1, <2>2 DEF TypeInv, NobodyBefore, Chunks, LastChunk
  <2>4. RestIsLeft' /\ LoaderInStep' /\ LoadedInFile' /\ OneRequest'
    BY <2>1, <2>2 DEF RestIsLeft, LoaderInStep, LoadedInFile, OneRequest, Ended, Calls
  <2>5. ReadsAreFilled'
    <3>1. Span(0, loader.prefetched) \subseteq Chunks
      BY DEF Span
    <3>2. Span(0, loader.prefetched) \subseteq fetched'
      BY <2>1, <3>1 DEF ReadsAreFilled
    <3> QED
      BY <2>1, <2>2, <3>2 DEF ReadsAreFilled, Ended, Span, Chunks, LastChunk
  <2> QED
    BY <2>3, <2>4, <2>5
<1>3. CASE PlayerSeek
  <2>1. /\ call' = [call EXCEPT !["player"].count = @ + 1] /\ cursor' \in Nat
        /\ "player" \in Calls
        /\ UNCHANGED <<file, fetched, fetching, loader, aborted>>
    BY <1>3 DEF PlayerSeek, Calls
  <2>2. call["player"] \in ShortCall \cup LongCall
    BY <2>1 DEF TypeInv
  <2>3. [call["player"] EXCEPT !.count = @ + 1] \in ShortCall \cup LongCall
    BY <2>2 DEF ShortCall, LongCall
  <2>4. call' \in [Calls -> ShortCall \cup LongCall]
    BY <2>1, <2>3 DEF TypeInv
  <2>5. \A c \in Calls :
          /\ call'[c].step = call[c].step
          /\ ~Ended(call[c].step) => /\ call'[c].offset = call[c].offset
                                     /\ call'[c].size = call[c].size
                                     /\ call'[c].left = call[c].left
    BY <2>1, <2>2 DEF TypeInv, ShortCall, LongCall, Ended
  <2>6. TypeInv' /\ NobodyBefore' /\ LoadedInFile'
    BY <2>1, <2>4, <2>5 DEF TypeInv, NobodyBefore, LoadedInFile, Open
  <2>7. RestIsLeft' /\ LoaderInStep' /\ OneRequest'
    BY <2>1, <2>5 DEF RestIsLeft, LoaderInStep, OneRequest, Ended, Calls, Span, Chunks, LastChunk
  <2>8. ReadsAreFilled'
    BY <2>1, <2>5 DEF ReadsAreFilled, Ended, Span, Chunks, LastChunk
  <2> QED
    BY <2>6, <2>7, <2>8
<1>4. CASE LoaderEnds \/ Abort \/ UNCHANGED vars
  <2>1. /\ aborted' \in BOOLEAN
        /\ loader' \in [step : {"idle", "loading", "loaded", "failed"}, prefetched : Nat]
        /\ loader'.prefetched = loader.prefetched
        /\ UNCHANGED <<file, fetched, fetching, call, cursor>>
    BY <1>4 DEF LoaderEnds, Abort, vars, TypeInv
  <2>2. TypeInv'
    BY <2>1 DEF TypeInv
  <2> QED
    BY <2>1, <2>2 DEF NobodyBefore, RestIsLeft, LoaderInStep, LoadedInFile, OneRequest,
                      ReadsAreFilled, Open, Span, Chunks, LastChunk
<1> QED
  BY <1>1, <1>2, <1>3, <1>4

LEMMA StepKeeps == IInv /\ [Next]_vars => IInv'
<1> SUFFICES ASSUME IInv, [Next]_vars PROVE IInv'
  OBVIOUS
<1>1. CASE \E c \in Calls : RangeFetched(c)
  BY <1>1, RangeFetchedStep
<1>2. CASE LoaderAdvances \/ \E c \in Calls : FetchFails(c) \/ Return(c)
  BY <1>2, EndingSteps
<1>3. CASE PlayerRead \/ LoaderPrefetches \/ \E c \in Calls : BeginCall(c) \/ LookAgain(c)
  BY <1>3, LookingSteps
<1>4. CASE \/ CreateRemoteFile \/ HeadAnswered \/ FileFetched
           \/ PlayerSeek \/ LoaderEnds \/ Abort \/ UNCHANGED vars
  BY <1>4, OtherSteps
<1> QED
  BY <1>1, <1>2, <1>3, <1>4 DEF Next, CallStep

(* The strengthening is an invariant of every file, whatever its size. *)
THEOREM InvariantHolds == Spec => []IInv
BY InitEstablishes, StepKeeps, PTL DEF Spec

(* Read and the player are given what has been fetched, all of it, and a
   video shows as loaded only what is there (stream.ts:204-251).            *)
THEOREM ReadsFilled == Spec => []ReadsAreFilled
<1>1. IInv => ReadsAreFilled
  BY DEF IInv
<1> QED
  BY <1>1, InvariantHolds, PTL

(* No two requests are under way, nothing is fetched twice, and nobody waits
   for a request that has gone (stream.ts:238-317).                         *)
THEOREM OneAtATime == Spec => []OneRequest
<1>1. IInv => OneRequest
  BY DEF IInv
<1> QED
  BY <1>1, InvariantHolds, PTL

-----------------------------------------------------------------------------
(* The viewer of pictures with layers, which starts again with every file.
   What it shows when nothing is under way depends on all that may be: what the
   page was told last of each layer, what the worker sent last, and how far a
   load has come.                                                          *)

Fields ==
  {"on", "file", "doc", "loading", "rendering", "tree", "canvas", "wanted", "eyes",
   "thumbs", "toggles", "serial"}
Show == [DOMAIN Doc -> BOOLEAN]

Awaiting == {"opening", "header", "section", "records"}
Loading == {"layers", "reading"}
Drawing == worker.step \in Loading \cup {"ready"}

ToWorker ==
  [type : {"load"}]
    \cup [type : {"setLayerVisibility"}, layer : DOMAIN Doc, visible : BOOLEAN]
    \cup [type : {"getLayerThumbnail"}, layer : DOMAIN Doc, serial : Nat]
FromWorker ==
  [type : {"load"}]
    \cup [type : {"render"}, of : {viewer.file}, visible : Show]
    \cup [type : {"layerThumbnail"}, serial : Nat, ok : BOOLEAN]

PsdTypes ==
  /\ DOMAIN viewer = Fields /\ DOMAIN worker = {"step", "at", "visible"}
  /\ Doc \in Documents /\ viewer.serial \in Nat
  /\ viewer.loading \in BOOLEAN /\ viewer.rendering \in BOOLEAN
  /\ viewer.wanted \in Show /\ viewer.eyes \in Show
  /\ worker.step \in Awaiting \cup Loading \cup {"ready", "failed"}
  /\ Drawing => worker.visible \in Show
  /\ worker.step \in Loading => worker.at \in 0..Len(Doc)
  /\ worker.step = "reading" => worker.at # 0
  /\ inbox \in Seq(ToWorker) /\ outbox \in Seq(FromWorker)

(* Only a parser reads, when the file is open. *)
FileOfParser ==
  /\ loader.prefetched = 0
  /\ worker.step \notin {"opening", "failed"} => Open

Sets(m) == m.type = "setLayerVisibility"
Draws(m) == m.type = "render"

(* As long as a file is loaded the panel asks for nothing, and nothing is drawn. *)
LoadFirst ==
  /\ worker.step \in Awaiting => outbox = <<>> /\ viewer.wanted = Visible(Doc)
  /\ worker.step # "ready" => viewer.loading /\ \A i \in DOMAIN outbox : ~Draws(outbox[i])
  /\ viewer.loading => \A i \in DOMAIN inbox : inbox[i].type = "load"

(* A layer is to be seen as the last message under way says, and as the worker
   has it if there is none. *)
WantedIsAsked ==
  Drawing => \A l \in DOMAIN Doc :
    /\ \/ viewer.wanted[l] = worker.visible[l]
       \/ \E i \in DOMAIN inbox : Sets(inbox[i]) /\ inbox[i].layer = l
    /\ \A i \in DOMAIN inbox :
         \/ ~Sets(inbox[i]) \/ inbox[i].layer # l \/ viewer.wanted[l] = inbox[i].visible
         \/ \E j \in DOMAIN inbox : j > i /\ Sets(inbox[j]) /\ inbox[j].layer = l

(* The last picture under way is drawn as the worker has the layers, and so is
   the canvas if there is none. *)
DrawnIsShown ==
  /\ \A i \in DOMAIN outbox :
       \/ ~Draws(outbox[i]) \/ outbox[i].visible = worker.visible
       \/ \E j \in DOMAIN outbox : j > i /\ Draws(outbox[j])
  /\ \/ viewer.loading \/ viewer.canvas = [of |-> viewer.file, visible |-> worker.visible]
     \/ \E i \in DOMAIN outbox : Draws(outbox[i])

(* The page learns of the layers before it is sent a picture of them. *)
TreeComesFirst ==
  /\ Drawing => \/ viewer.tree = viewer.file
                \/ outbox # <<>> /\ outbox[1].type = "load"
  /\ viewer.loading \/ viewer.tree = viewer.file

(* Whoever waits for a picture has asked for it, or it is under way. *)
PictureComes ==
  viewer.rendering =>
    \/ viewer.loading
    \/ \E i \in DOMAIN inbox : Sets(inbox[i])
    \/ \E i \in DOMAIN outbox : Draws(outbox[i])

ViewerInv ==
  /\ PsdTypes /\ FileOfParser /\ LoadFirst
  /\ WantedIsAsked /\ DrawnIsShown /\ TreeComesFirst /\ PictureComes

PsdInv == IInv /\ (viewer.on => ViewerInv)

-----------------------------------------------------------------------------
(* The file of a viewer of layers.                                         *)

LEMMA ReadsKeep ==
  ASSUME IInv, Open, NEW c \in Call, NEW op \in {"read", "prefetch"},
         NEW span \in [offset : Nat, size : Nat], Reads(c, op, span)
  PROVE  IInv' /\ UNCHANGED <<file, loader>>
<1>1. c \in Calls /\ c # "loader"
  BY CallsAssumption DEF Calls
<1>2. call[c].count \in Nat /\ call[c].step # "fetching"
  BY <1>1 DEF Reads, CanRead, Ended, IInv, TypeInv, ShortCall, LongCall
<1>3. PICK job : job = [op |-> op, offset |-> span.offset, size |-> span.size, step |-> "new",
                        left |-> {}, count |-> call[c].count + 1]
  OBVIOUS
<1>4. job \in [op : {"read", "prefetch"}, offset : Nat, size : Nat,
               left : SUBSET Chunks, step : {"new", "woken"}, count : Nat]
  BY <1>2, <1>3
<1>5. Look(c, job) /\ UNCHANGED <<file, fetched, cursor, loader, aborted>>
  BY <1>3 DEF Reads, Begin
<1>6. loader \in [step : {"idle", "loading", "loaded", "failed"}, prefetched : Nat]
  BY DEF IInv, TypeInv
<1> QED
  BY <1>1, <1>2, <1>4, <1>5, <1>6, LookKeeps

LEMMA InitFile == PsdInit => IInv
BY InitEstablishes DEF PsdInit

LEMMA FileKeeps ==
  ASSUME IInv, HeadAnswered \/ FileFetched \/ CreateRemoteFile \/ \E c \in Call : CallStep(c)
  PROVE  IInv' /\ loader'.prefetched = loader.prefetched /\ (Open => Open')
<1>1. \A c \in Call : c \in Calls /\ c # "loader"
  BY CallsAssumption DEF Calls
<1>2. Next
  BY <1>1 DEF Next
<1>3. IInv'
  BY <1>2, StepKeeps
<1>4. UNCHANGED loader /\ (Open => Open')
  BY DEF HeadAnswered, FileFetched, CreateRemoteFile, CallStep, RangeFetched, FetchFails,
         LookAgain, Return, Open
<1> QED
  BY <1>3, <1>4

(* A new file has no calls, and nothing of it is there. *)
LEMMA NewFileKeeps ==
  ASSUME IInv, NextFile, loader.prefetched = 0
  PROVE  IInv'
<1>1. /\ file' = "none" /\ fetched' = {} /\ fetching' = Nobody
      /\ call' = [c \in Calls |-> NotCalled]
      /\ UNCHANGED <<cursor, loader, aborted>>
  BY DEF NextFile
<1>2. TypeInv'
  BY <1>1 DEF IInv, TypeInv, NotCalled, ShortCall
<1>3. \A c \in Calls : call'[c].step = "none"
  BY <1>1 DEF NotCalled
<1>4. /\ Ended(call'["loader"].step)
      /\ \A c \in Calls : Ended(call'[c].step)
  BY <1>3 DEF Ended, Calls
<1>5. NobodyBefore' /\ LoaderInStep' /\ LoadedInFile' /\ RestIsLeft'
  BY <1>1, <1>3, <1>4 DEF IInv, NobodyBefore, LoaderInStep, LoadedInFile, RestIsLeft
<1>6. OneRequest'
  BY <1>1, <1>3, CallsAssumption DEF OneRequest, Calls, Nobody
<1>7. ReadsAreFilled'
  BY <1>1, <1>3 DEF ReadsAreFilled, Span
<1> QED
  BY <1>2, <1>5, <1>6, <1>7 DEF IInv

-----------------------------------------------------------------------------
(* Messages come and go.                                                   *)

LEMMA TailFacts ==
  ASSUME NEW S, NEW s \in Seq(S), s # <<>>
  PROVE  /\ Tail(s) \in Seq(S) /\ Head(s) \in S
         /\ 1 \in DOMAIN s /\ s[1] = Head(s)
         /\ \A i \in DOMAIN Tail(s) : i \in Nat /\ i + 1 \in DOMAIN s /\ Tail(s)[i] = s[i + 1]
         /\ \A i \in DOMAIN s : \/ i = 1
                                \/ i \in Nat /\ i - 1 \in DOMAIN Tail(s) /\ Tail(s)[i - 1] = s[i]
BY HeadTailProperties

LEMMA AppendFacts ==
  ASSUME NEW S, NEW s \in Seq(S), NEW e \in S
  PROVE  /\ Append(s, e) \in Seq(S)
         /\ DOMAIN Append(s, e) = DOMAIN s \cup {Len(s) + 1}
         /\ \A i \in DOMAIN s : i \in Nat /\ i < Len(s) + 1 /\ Append(s, e)[i] = s[i]
         /\ Append(s, e)[Len(s) + 1] = e
BY AppendProperties

(* The worker goes on with a load, and sends nothing. *)
LEMMA LoadGoesOn ==
  ASSUME ViewerInv, UNCHANGED <<viewer, inbox, outbox>>, loader'.prefetched = 0,
         DOMAIN worker' = {"step", "at", "visible"}, worker'.visible = worker.visible,
         \/ worker.step \in Awaiting /\ worker'.step \in Awaiting
         \/ worker.step \in Loading /\ worker'.step \in Loading
         \/ worker.step # "ready" /\ worker'.step = "failed",
         worker'.step \in Loading => worker'.at \in 0..Len(Doc),
         worker'.step = "reading" => worker'.at # 0,
         worker'.step \notin {"opening", "failed"} => Open'
  PROVE  ViewerInv'
<1> USE DEF ViewerInv, Drawing, Awaiting, Loading
<1>1. PsdTypes'
  BY DEF PsdTypes, ToWorker, FromWorker, Show, Doc
<1>2. FileOfParser'
  BY DEF FileOfParser
<1>3. LoadFirst'
  BY DEF LoadFirst, Doc
<1>4. WantedIsAsked'
  BY DEF WantedIsAsked, Doc
<1>5. DrawnIsShown' /\ PictureComes'
  BY DEF DrawnIsShown, PictureComes
<1>6. TreeComesFirst'
  BY DEF TreeComesFirst
<1> QED
  BY <1>1, <1>2, <1>3, <1>4, <1>5, <1>6

LEMMA LoadSteps ==
  ASSUME IInv, ViewerInv, ParseHeader \/ PrefetchLayers \/ ParseLayers \/ LoadLayer \/ LayerLoaded \/ LoadFails
  PROVE  IInv' /\ ViewerInv'
<1>1. /\ DOMAIN worker = {"step", "at", "visible"} /\ Doc \in Documents
      /\ loader.prefetched = 0 /\ (worker.step \notin {"opening", "failed"} => Open)
  BY DEF ViewerInv, PsdTypes, FileOfParser
<1>2. Reader \in Call /\ Prefetcher \in Call
  BY PartsAssumption
<1>3. CASE ParseHeader
  <2>1. Open /\ Reads(Reader, "read", Header) /\ Header \in [offset : Nat, size : Nat]
    BY <1>3, SpansAssumption DEF ParseHeader
  <2>2. IInv' /\ UNCHANGED <<file, loader>>
    BY <1>2, <2>1, ReadsKeep
  <2>3. Open'
    BY <2>1, <2>2 DEF Open
  <2> QED
    BY <1>1, <1>3, <2>2, <2>3, LoadGoesOn DEF ParseHeader, Goes, Awaiting, Loading
<1>4. CASE PrefetchLayers
  <2>1. Open /\ Reads(Prefetcher, "prefetch", Section) /\ Section \in [offset : Nat, size : Nat]
    BY <1>1, <1>4, SpansAssumption DEF PrefetchLayers
  <2>2. IInv' /\ UNCHANGED <<file, loader>>
    BY <1>2, <2>1, ReadsKeep
  <2>3. Open'
    BY <2>1, <2>2 DEF Open
  <2> QED
    BY <1>1, <1>4, <2>2, <2>3, LoadGoesOn DEF PrefetchLayers, Goes, Awaiting, Loading
<1>5. CASE ParseLayers
  <2>1. Open /\ Reads(Reader, "read", Records) /\ Records \in [offset : Nat, size : Nat]
    BY <1>1, <1>5, SpansAssumption DEF ParseLayers
  <2>2. IInv' /\ UNCHANGED <<file, loader>>
    BY <1>2, <2>1, ReadsKeep
  <2>3. Open'
    BY <2>1, <2>2 DEF Open
  <2> QED
    BY <1>1, <1>5, <2>2, <2>3, LoadGoesOn DEF ParseLayers, Goes, Awaiting, Loading
<1>6. CASE LoadLayer
  <2>1. PICK span : span = LayerData[worker.at]
    OBVIOUS
  <2>2. Open /\ Reads(Reader, "read", span)
    BY <1>1, <1>6, <2>1 DEF LoadLayer
  <2>3. span \in [offset : Nat, size : Nat]
    <3>1. worker.at \in 0..Len(Doc) /\ worker.at > 0
      BY <1>6 DEF LoadLayer, ViewerInv, PsdTypes, Loading
    <3>2. worker.at \in DOMAIN Doc
      BY <1>1, <3>1, DocumentsAssumption
    <3> QED
      BY <1>1, <2>1, <3>2, SpansAssumption
  <2>4. IInv' /\ UNCHANGED <<file, loader>>
    BY <1>2, <2>2, <2>3, ReadsKeep
  <2>5. Open'
    BY <2>2, <2>4 DEF Open
  <2> QED
    BY <1>1, <1>6, <2>4, <2>5, LoadGoesOn DEF LoadLayer, Goes, Loading, ViewerInv, PsdTypes
<1>7. CASE LayerLoaded
  <2>1. UNCHANGED vars
    BY <1>7 DEF LayerLoaded
  <2>2. IInv' /\ loader'.prefetched = 0 /\ (Open => Open')
    BY <1>1, <2>1, StepKeeps DEF vars, Open
  <2>3. worker.step \in Loading /\ worker.at \in 0..Len(Doc) /\ worker.at # 0
    BY <1>7 DEF LayerLoaded, ViewerInv, PsdTypes, Loading
  <2>4. /\ worker'.at \in 0..Len(Doc) /\ worker'.step = "layers"
        /\ worker'.visible = worker.visible /\ DOMAIN worker' = {"step", "at", "visible"}
    <3>1. Len(Doc) \in Nat
      BY <1>1, DocumentsAssumption
    <3> QED
      BY <1>1, <1>7, <2>3, <3>1 DEF LayerLoaded
  <2> QED
    BY <1>1, <1>7, <2>2, <2>3, <2>4, LoadGoesOn DEF LayerLoaded, Loading, ViewerInv, FileOfParser
<1>8. CASE LoadFails
  <2>1. UNCHANGED vars
    BY <1>8 DEF LoadFails
  <2>2. IInv' /\ loader'.prefetched = 0
    BY <1>1, <2>1, StepKeeps DEF vars
  <2> QED
    BY <1>1, <1>8, <2>2, LoadGoesOn DEF LoadFails, Goes, Loading
<1> QED
  BY <1>3, <1>4, <1>5, <1>6, <1>7, <1>8

(* The worker takes a message, and does what it says of a layer. *)
LEMMA TakenIsDone ==
  ASSUME PsdTypes, WantedIsAsked, Drawing,
         inbox # <<>>, inbox' = Tail(inbox), UNCHANGED viewer,
         \/ ~Sets(Head(inbox)) /\ worker'.visible = worker.visible
         \/ /\ Sets(Head(inbox))
            /\ worker'.visible =
                 [worker.visible EXCEPT ![Head(inbox).layer] = Head(inbox).visible]
  PROVE  WantedIsAsked'
<1>1. inbox \in Seq(ToWorker) /\ worker.visible \in Show
  BY DEF PsdTypes
<1>2. PICK m : m = Head(inbox)
  OBVIOUS
<1>3. PICK rest : rest = Tail(inbox)
  OBVIOUS
<1>4. /\ 1 \in DOMAIN inbox /\ inbox[1] = m
      /\ \A i \in DOMAIN rest : i \in Nat /\ i + 1 \in DOMAIN inbox /\ rest[i] = inbox[i + 1]
      /\ \A i \in DOMAIN inbox : \/ i = 1
                                 \/ i \in Nat /\ i - 1 \in DOMAIN rest /\ rest[i - 1] = inbox[i]
  BY <1>1, <1>2, <1>3, TailFacts
<1>5. inbox' = rest /\ Doc' = Doc /\ viewer'.wanted = viewer.wanted
  BY <1>3 DEF Doc
<1>6. ASSUME NEW l \in DOMAIN Doc
      PROVE  \/ viewer.wanted[l] = worker'.visible[l]
             \/ \E i \in DOMAIN rest : Sets(rest[i]) /\ rest[i].layer = l
  <2>1. CASE Sets(m) /\ m.layer = l
    <3>1. worker'.visible[l] = m.visible
      BY <1>1, <1>2, <2>1 DEF Show
    <3>2. \/ viewer.wanted[l] = m.visible
          \/ \E j \in DOMAIN inbox : j > 1 /\ Sets(inbox[j]) /\ inbox[j].layer = l
      BY <1>4, <2>1 DEF WantedIsAsked
    <3> QED
      BY <1>4, <3>1, <3>2
  <2>2. CASE ~(Sets(m) /\ m.layer = l)
    <3>1. worker'.visible[l] = worker.visible[l]
      BY <1>1, <1>2, <2>2 DEF Show
    <3>2. \/ viewer.wanted[l] = worker.visible[l]
          \/ \E i \in DOMAIN inbox : Sets(inbox[i]) /\ inbox[i].layer = l
      BY DEF WantedIsAsked
    <3> QED
      BY <1>4, <2>2, <3>1, <3>2
  <2> QED
    BY <2>1, <2>2
<1>7. ASSUME NEW l \in DOMAIN Doc, NEW i \in DOMAIN rest
      PROVE  \/ ~Sets(rest[i]) \/ rest[i].layer # l \/ viewer.wanted[l] = rest[i].visible
             \/ \E j \in DOMAIN rest : j > i /\ Sets(rest[j]) /\ rest[j].layer = l
  <2>1. i \in Nat /\ i + 1 \in DOMAIN inbox /\ rest[i] = inbox[i + 1]
    BY <1>4
  <2>2. \/ ~Sets(rest[i]) \/ rest[i].layer # l \/ viewer.wanted[l] = rest[i].visible
        \/ \E j \in DOMAIN inbox : j > i + 1 /\ Sets(inbox[j]) /\ inbox[j].layer = l
    BY <2>1 DEF WantedIsAsked
  <2>3. CASE \E j \in DOMAIN inbox : j > i + 1 /\ Sets(inbox[j]) /\ inbox[j].layer = l
    <3>1. PICK j \in DOMAIN inbox : j > i + 1 /\ Sets(inbox[j]) /\ inbox[j].layer = l
      BY <2>3
    <3>2. j \in Nat /\ j - 1 \in DOMAIN rest /\ rest[j - 1] = inbox[j] /\ j - 1 > i
      BY <1>4, <2>1, <3>1
    <3> QED
      BY <3>1, <3>2
  <2> QED
    BY <2>2, <2>3
<1>8. \A l \in DOMAIN Doc :
        /\ \/ viewer.wanted[l] = worker'.visible[l]
           \/ \E i \in DOMAIN rest : Sets(rest[i]) /\ rest[i].layer = l
        /\ \A i \in DOMAIN rest :
             \/ ~Sets(rest[i]) \/ rest[i].layer # l \/ viewer.wanted[l] = rest[i].visible
             \/ \E j \in DOMAIN rest : j > i /\ Sets(rest[j]) /\ rest[j].layer = l
  BY <1>6, <1>7
<1> QED
  BY <1>5, <1>8 DEF WantedIsAsked, Sets

(* What the worker sends is drawn as it has the layers now. *)
LEMMA SentIsShown ==
  ASSUME PsdTypes, DrawnIsShown, NEW m \in FromWorker, outbox' = Append(outbox, m),
         UNCHANGED viewer,
         \/ ~Draws(m) /\ worker'.visible = worker.visible
         \/ Draws(m) /\ worker'.visible = m.visible
  PROVE  /\ DrawnIsShown'
         /\ \A i \in DOMAIN outbox' : 
                \/ i \in DOMAIN outbox /\ outbox'[i] = outbox[i]
                \/ outbox'[i] = m
         /\ (\E i \in DOMAIN outbox : Draws(outbox[i])) \/ Draws(m)
              => \E i \in DOMAIN outbox' : Draws(outbox'[i])
         /\ outbox' # <<>> /\ outbox'[1] = IF outbox = <<>> THEN m ELSE outbox[1]
<1>1. outbox \in Seq(FromWorker)
  BY DEF PsdTypes
<1>2. PICK n : n = Len(outbox) + 1
  OBVIOUS
<1>3. /\ DOMAIN outbox' = DOMAIN outbox \cup {n}
      /\ \A i \in DOMAIN outbox : i \in Nat /\ i < n /\ outbox'[i] = outbox[i]
      /\ outbox'[n] = m
  BY <1>1, <1>2, AppendFacts
<1>4. outbox' # <<>> /\ outbox'[1] = IF outbox = <<>> THEN m ELSE outbox[1]
  BY <1>1, AppendProperties
<1>5. (\E i \in DOMAIN outbox : Draws(outbox[i])) \/ Draws(m)
        => \E i \in DOMAIN outbox' : Draws(outbox'[i])
  BY <1>3
<1>6. DrawnIsShown'
  <2>1. ASSUME NEW i \in DOMAIN outbox'
        PROVE  \/ ~Draws(outbox'[i]) \/ outbox'[i].visible = worker'.visible
               \/ \E j \in DOMAIN outbox' : j > i /\ Draws(outbox'[j])
    <3>1. CASE i = n
      BY <1>3, <3>1
    <3>2. CASE i \in DOMAIN outbox /\ Draws(m)
      BY <1>3, <3>2
    <3>3. CASE i \in DOMAIN outbox /\ ~Draws(m)
      <4>1. \/ ~Draws(outbox[i]) \/ outbox[i].visible = worker.visible
            \/ \E j \in DOMAIN outbox : j > i /\ Draws(outbox[j])
        BY <3>3 DEF DrawnIsShown
      <4> QED
        BY <1>3, <3>3, <4>1
    <3> QED
      BY <1>3, <3>1, <3>2, <3>3
  <2>2. \/ viewer.loading \/ viewer.canvas = [of |-> viewer.file, visible |-> worker'.visible]
        \/ \E i \in DOMAIN outbox' : Draws(outbox'[i])
    BY <1>5 DEF DrawnIsShown
  <2> QED
    BY <2>1, <2>2 DEF DrawnIsShown
<1> QED
  BY <1>3, <1>4, <1>5, <1>6

-----------------------------------------------------------------------------
(* What the worker does with messages, and what it sends.                  *)

LEMMA LoadMessageKeeps ==
  ASSUME IInv, ViewerInv, LoadMessage
  PROVE  IInv' /\ ViewerInv'
<1>1. /\ inbox # <<>> /\ Head(inbox).type = "load" /\ CreateRemoteFile
      /\ inbox' = Tail(inbox) /\ UNCHANGED <<viewer, worker, outbox>>
  BY DEF LoadMessage
<1>2. IInv' /\ loader'.prefetched = loader.prefetched /\ (Open => Open')
  BY <1>1, FileKeeps
<1>3. PsdTypes /\ inbox \in Seq(ToWorker)
  BY DEF ViewerInv, PsdTypes
<1>4. /\ Tail(inbox) \in Seq(ToWorker) /\ inbox[1] = Head(inbox)
      /\ \A i \in DOMAIN Tail(inbox) : i \in Nat /\ i + 1 \in DOMAIN inbox /\ Tail(inbox)[i] = inbox[i + 1]
      /\ \A i \in DOMAIN inbox : \/ i = 1
                                 \/ i \in Nat /\ i - 1 \in DOMAIN Tail(inbox) /\ Tail(inbox)[i - 1] = inbox[i]
  BY <1>1, <1>3, TailFacts
<1>5. PsdTypes'
  BY <1>1, <1>3, <1>4 DEF PsdTypes, ToWorker, FromWorker, Show, Doc, Drawing
<1>6. FileOfParser'
  BY <1>1, <1>2 DEF ViewerInv, FileOfParser
<1>7. LoadFirst'
  BY <1>1, <1>4 DEF ViewerInv, LoadFirst, Doc
<1>8. WantedIsAsked'
  <2>1. ~Sets(Head(inbox)) /\ worker'.visible = worker.visible
    BY <1>1 DEF Sets
  <2>2. CASE Drawing
    BY <1>1, <1>3, <2>1, <2>2, TakenIsDone DEF ViewerInv
  <2>3. CASE ~Drawing
    BY <1>1, <2>3 DEF WantedIsAsked, Drawing
  <2> QED
    BY <2>2, <2>3
<1>9. DrawnIsShown' /\ TreeComesFirst'
  BY <1>1 DEF ViewerInv, DrawnIsShown, TreeComesFirst, Drawing
<1>10. PictureComes'
  <2>1. (\E i \in DOMAIN inbox : Sets(inbox[i])) => \E i \in DOMAIN inbox' : Sets(inbox'[i])
    BY <1>1, <1>4 DEF Sets
  <2> QED
    BY <1>1, <2>1 DEF ViewerInv, PictureComes
<1> QED
  BY <1>2, <1>5, <1>6, <1>7, <1>8, <1>9, <1>10 DEF ViewerInv

LEMMA ParsedKeeps ==
  ASSUME IInv, ViewerInv, Parsed
  PROVE  IInv' /\ ViewerInv'
<1>1. PICK m : m = [type |-> "load"]
  OBVIOUS
<1>2. /\ worker.step = "records" /\ outbox' = Append(outbox, m)
      /\ worker' = [step |-> "layers", at |-> Len(Doc), visible |-> Visible(Doc)]
      /\ UNCHANGED vars /\ UNCHANGED <<viewer, inbox>>
  BY <1>1 DEF Parsed
<1>3. IInv' /\ loader' = loader /\ Open'
  BY <1>2, StepKeeps DEF ViewerInv, FileOfParser, vars, Open
<1>4. /\ outbox = <<>> /\ viewer.loading /\ viewer.wanted = Visible(Doc)
      /\ \A i \in DOMAIN inbox : inbox[i].type = "load" /\ ~Sets(inbox[i])
  BY <1>2 DEF ViewerInv, LoadFirst, Awaiting, Sets
<1>5. outbox' = <<m>>
  BY <1>2, <1>4
<1>6. viewer.wanted \in Show /\ Len(Doc) \in Nat
  BY DocumentsAssumption DEF ViewerInv, PsdTypes
<1>7. PsdTypes'
  <2>1. outbox' \in Seq(FromWorker)
    BY <1>1, <1>5 DEF FromWorker
  <2>2. FromWorker' = FromWorker /\ ToWorker' = ToWorker /\ Show' = Show /\ Doc' = Doc
    BY <1>2 DEF FromWorker, ToWorker, Show, Doc
  <2> QED
    BY <1>2, <1>4, <1>6, <2>1, <2>2 DEF ViewerInv, PsdTypes, Drawing, Loading
<1>8. FileOfParser'
  BY <1>3 DEF ViewerInv, FileOfParser
<1>9. LoadFirst'
  BY <1>1, <1>2, <1>4, <1>5 DEF ViewerInv, LoadFirst, Awaiting, Draws
<1>10. WantedIsAsked'
  BY <1>2, <1>4 DEF WantedIsAsked, Doc
<1>11. DrawnIsShown'
  BY <1>1, <1>2, <1>4, <1>5 DEF DrawnIsShown, Draws
<1>12. TreeComesFirst'
  BY <1>1, <1>2, <1>4, <1>5 DEF TreeComesFirst
<1>13. PictureComes'
  BY <1>2, <1>4 DEF PictureComes
<1> QED
  BY <1>3, <1>7, <1>8, <1>9, <1>10, <1>11, <1>12, <1>13 DEF ViewerInv

LEMMA FirstRenderKeeps ==
  ASSUME IInv, ViewerInv, FirstRender
  PROVE  IInv' /\ ViewerInv'
<1>1. PICK m : m = Render(worker.visible)
  OBVIOUS
<1>2. /\ worker.step = "layers" /\ worker' = [worker EXCEPT !.step = "ready"]
      /\ outbox' = outbox \/ outbox' = Append(outbox, m)
      /\ UNCHANGED vars /\ UNCHANGED <<viewer, inbox>>
  BY <1>1 DEF FirstRender, Goes
<1>3. IInv' /\ loader' = loader /\ Open'
  BY <1>2, StepKeeps DEF ViewerInv, FileOfParser, vars, Open
<1>4. PsdTypes /\ viewer.loading /\ outbox \in Seq(FromWorker) /\ worker.visible \in Show
  BY <1>2 DEF ViewerInv, LoadFirst, PsdTypes, Drawing, Loading
<1>5. m \in FromWorker /\ Draws(m) /\ m.visible = worker.visible
  BY <1>1, <1>4 DEF FromWorker, Render, Draws
<1>6. /\ worker'.step = "ready" /\ worker'.visible = worker.visible
      /\ DOMAIN worker' = {"step", "at", "visible"}
  BY <1>2, <1>4 DEF PsdTypes
<1>7. Append(outbox, m) \in Seq(FromWorker)
  BY <1>4, <1>5, AppendProperties
<1>8. PsdTypes'
  <2>1. FromWorker' = FromWorker /\ ToWorker' = ToWorker /\ Show' = Show /\ Doc' = Doc
    BY <1>2 DEF FromWorker, ToWorker, Show, Doc
  <2> QED
    BY <1>2, <1>4, <1>6, <1>7, <2>1 DEF PsdTypes, Drawing, Loading
<1>9. FileOfParser'
  BY <1>3 DEF ViewerInv, FileOfParser
<1>10. LoadFirst'
  BY <1>2, <1>6 DEF ViewerInv, LoadFirst, Awaiting
<1>11. WantedIsAsked'
  BY <1>2, <1>6 DEF ViewerInv, WantedIsAsked, Drawing, Loading, Doc
<1>12. DrawnIsShown' /\ TreeComesFirst'
  <2>1. DrawnIsShown /\ (viewer.tree = viewer.file \/ (outbox # <<>> /\ outbox[1].type = "load"))
    BY <1>2 DEF ViewerInv, TreeComesFirst, Drawing, Loading
  <2>2. CASE outbox' = outbox
    BY <1>2, <1>4, <1>6, <2>1, <2>2 DEF DrawnIsShown, TreeComesFirst
  <2>3. CASE outbox' = Append(outbox, m)
    <3>1. DrawnIsShown' /\ outbox' # <<>> /\ outbox'[1] = IF outbox = <<>> THEN m ELSE outbox[1]
      BY <1>2, <1>4, <1>5, <1>6, <2>1, <2>3, SentIsShown
    <3> QED
      BY <1>2, <1>4, <2>1, <3>1 DEF TreeComesFirst
  <2> QED
    BY <1>2, <2>2, <2>3
<1>13. PictureComes'
  BY <1>2, <1>4 DEF PictureComes
<1> QED
  BY <1>3, <1>8, <1>9, <1>10, <1>11, <1>12, <1>13 DEF ViewerInv

LEMMA SetLayerVisibilityKeeps ==
  ASSUME IInv, ViewerInv, SetLayerVisibility
  PROVE  IInv' /\ ViewerInv'
<1>1. PICK m : m = Head(inbox)
  OBVIOUS
<1>2. PICK shown : shown = [worker.visible EXCEPT ![m.layer] = m.visible]
  OBVIOUS
<1>3. PICK r : r = Render(shown)
  OBVIOUS
<1>4. /\ inbox # <<>> /\ Sets(m)
      /\ worker' = [worker EXCEPT !.visible = shown] /\ outbox' = Append(outbox, r)
      /\ inbox' = Tail(inbox) /\ UNCHANGED vars /\ UNCHANGED viewer
  BY <1>1, <1>2, <1>3 DEF SetLayerVisibility, Sets
<1>5. IInv' /\ loader' = loader /\ (Open => Open')
  BY <1>4, StepKeeps DEF vars, Open
<1>6. /\ PsdTypes /\ outbox \in Seq(FromWorker) /\ inbox \in Seq(ToWorker)
      /\ DOMAIN worker = {"step", "at", "visible"}
  BY DEF ViewerInv, PsdTypes
<1>7. m \in ToWorker /\ Tail(inbox) \in Seq(ToWorker) /\ 1 \in DOMAIN inbox /\ inbox[1] = m
  BY <1>1, <1>4, <1>6, TailFacts
<1>8. ~viewer.loading /\ worker.step = "ready" /\ Drawing
  BY <1>4, <1>7 DEF ViewerInv, LoadFirst, Drawing, Sets
<1>9. m.visible \in BOOLEAN /\ worker.visible \in Show
  BY <1>4, <1>6, <1>7, <1>8 DEF ToWorker, Sets, PsdTypes
<1>10. shown \in Show
  BY <1>2, <1>9 DEF Show
<1>11. r \in FromWorker /\ Draws(r) /\ r.visible = shown
  BY <1>3, <1>10 DEF FromWorker, Render, Draws
<1>12. /\ worker'.step = "ready" /\ worker'.visible = shown
       /\ DOMAIN worker' = {"step", "at", "visible"}
  BY <1>4, <1>6, <1>8
<1>13. /\ DrawnIsShown'
       /\ \E i \in DOMAIN outbox' : Draws(outbox'[i])
       /\ outbox' # <<>> /\ outbox'[1] = IF outbox = <<>> THEN r ELSE outbox[1]
  BY <1>4, <1>6, <1>11, <1>12, SentIsShown DEF ViewerInv
<1>14. PsdTypes'
  <2>1. FromWorker' = FromWorker /\ ToWorker' = ToWorker /\ Show' = Show /\ Doc' = Doc
    BY <1>4 DEF FromWorker, ToWorker, Show, Doc
  <2>2. outbox' \in Seq(FromWorker)
    BY <1>4, <1>6, <1>11, AppendProperties
  <2> QED
    BY <1>4, <1>6, <1>7, <1>10, <1>12, <2>1, <2>2 DEF PsdTypes, Drawing, Loading
<1>15. FileOfParser'
  BY <1>5, <1>8 DEF ViewerInv, FileOfParser
<1>16. LoadFirst'
  BY <1>4, <1>8, <1>12 DEF LoadFirst, Awaiting
<1>17. WantedIsAsked'
  BY <1>1, <1>2, <1>4, <1>6, <1>8, <1>12, TakenIsDone DEF ViewerInv
<1>18. TreeComesFirst'
  BY <1>4, <1>8 DEF ViewerInv, TreeComesFirst
<1>19. PictureComes'
  BY <1>13 DEF PictureComes
<1> QED
  BY <1>5, <1>13, <1>14, <1>15, <1>16, <1>17, <1>18, <1>19 DEF ViewerInv

LEMMA GetLayerThumbnailKeeps ==
  ASSUME IInv, ViewerInv, GetLayerThumbnail
  PROVE  IInv' /\ ViewerInv'
<1>1. PICK m : m = Head(inbox)
  OBVIOUS
<1>2. PICK t : t = [type |-> "layerThumbnail", serial |-> m.serial, ok |-> Doc[m.layer].pixels]
  OBVIOUS
<1>3. /\ inbox # <<>> /\ m.type = "getLayerThumbnail" /\ ~Sets(m)
      /\ outbox' = Append(outbox, t)
      /\ inbox' = Tail(inbox) /\ UNCHANGED vars /\ UNCHANGED <<viewer, worker>>
  BY <1>1, <1>2 DEF GetLayerThumbnail, Sets
<1>4. IInv' /\ loader' = loader /\ (Open => Open')
  BY <1>3, StepKeeps DEF vars, Open
<1>5. PsdTypes /\ outbox \in Seq(FromWorker) /\ inbox \in Seq(ToWorker) /\ Doc \in Seq(Entry)
  BY DocumentsAssumption DEF ViewerInv, PsdTypes
<1>6. /\ m \in ToWorker /\ Tail(inbox) \in Seq(ToWorker) /\ 1 \in DOMAIN inbox /\ inbox[1] = m
      /\ \A i \in DOMAIN Tail(inbox) : i \in Nat /\ i + 1 \in DOMAIN inbox /\ Tail(inbox)[i] = inbox[i + 1]
      /\ \A i \in DOMAIN inbox : \/ i = 1
                                 \/ i \in Nat /\ i - 1 \in DOMAIN Tail(inbox) /\ Tail(inbox)[i - 1] = inbox[i]
  BY <1>1, <1>3, <1>5, TailFacts
<1>7. m.layer \in DOMAIN Doc /\ m.serial \in Nat
  BY <1>3, <1>6 DEF ToWorker
<1>8. Doc[m.layer].pixels \in BOOLEAN
  <2>1. Doc[m.layer] \in Entry
    BY <1>5, <1>7
  <2> QED
    BY <2>1 DEF Entry
<1>9. t \in FromWorker /\ ~Draws(t)
  BY <1>2, <1>7, <1>8 DEF FromWorker, Draws
<1>10. /\ DrawnIsShown'
       /\ \A i \in DOMAIN outbox' :
            \/ i \in DOMAIN outbox /\ outbox'[i] = outbox[i]
            \/ outbox'[i] = t
       /\ (\E i \in DOMAIN outbox : Draws(outbox[i])) => \E i \in DOMAIN outbox' : Draws(outbox'[i])
       /\ outbox' # <<>> /\ outbox'[1] = IF outbox = <<>> THEN t ELSE outbox[1]
  BY <1>3, <1>5, <1>9, SentIsShown DEF ViewerInv
<1>11. PsdTypes'
  <2>1. FromWorker' = FromWorker /\ ToWorker' = ToWorker /\ Show' = Show /\ Doc' = Doc
    BY <1>3 DEF FromWorker, ToWorker, Show, Doc
  <2>2. outbox' \in Seq(FromWorker)
    BY <1>3, <1>5, <1>9, AppendProperties
  <2> QED
    BY <1>3, <1>5, <1>6, <2>1, <2>2 DEF PsdTypes, Drawing
<1>12. FileOfParser'
  BY <1>3, <1>4 DEF ViewerInv, FileOfParser
<1>13. LoadFirst'
  <2>1. ~viewer.loading /\ worker.step = "ready"
    BY <1>3, <1>5, <1>6 DEF ViewerInv, LoadFirst
  <2> QED
    BY <1>3, <2>1 DEF LoadFirst, Awaiting
<1>14. WantedIsAsked'
  <2>1. CASE Drawing
    BY <1>1, <1>3, <1>5, <2>1, TakenIsDone DEF ViewerInv
  <2>2. CASE ~Drawing
    BY <1>3, <2>2 DEF WantedIsAsked, Drawing
  <2> QED
    BY <2>1, <2>2
<1>15. TreeComesFirst'
  BY <1>3, <1>10 DEF ViewerInv, TreeComesFirst, Drawing
<1>16. PictureComes'
  <2>1. (\E i \in DOMAIN inbox : Sets(inbox[i])) => \E i \in DOMAIN inbox' : Sets(inbox'[i])
    BY <1>3, <1>6 DEF Sets
  <2> QED
    BY <1>3, <1>10, <2>1 DEF ViewerInv, PictureComes
<1> QED
  BY <1>4, <1>10, <1>11, <1>12, <1>13, <1>14, <1>15, <1>16 DEF ViewerInv

-----------------------------------------------------------------------------
(* What the page does.                                                     *)

LEMMA VisibleShown ==
  ASSUME NEW doc \in Documents
  PROVE  Visible(doc) \in [DOMAIN doc -> BOOLEAN]
<1>1. \A l \in DOMAIN doc : doc[l] \in Entry
  BY DocumentsAssumption
<1>2. \A l \in DOMAIN doc : doc[l].visible \in BOOLEAN
  BY <1>1 DEF Entry
<1> QED
  BY <1>2 DEF Visible

LEMMA OnMessageKeeps ==
  ASSUME IInv, ViewerInv, OnMessage
  PROVE  IInv' /\ ViewerInv'
<1>1. PICK m : m = Head(outbox)
  OBVIOUS
<1>2. PICK rest : rest = Tail(outbox)
  OBVIOUS
<1>3. /\ outbox # <<>> /\ outbox' = rest /\ UNCHANGED vars /\ UNCHANGED <<worker, inbox>>
      /\ viewer' =
           CASE m.type = "load" -> [viewer EXCEPT !.tree = viewer.file]
             [] m.type = "render" ->
                  [viewer EXCEPT !.rendering = FALSE, !.loading = FALSE,
                                 !.canvas = [of |-> m.of, visible |-> m.visible]]
             [] m.type = "layerThumbnail" ->
                  [viewer EXCEPT !.thumbs =
                     [l \in DOMAIN @ |-> IF @[l] = m.serial /\ m.ok THEN Shown ELSE @[l]]]
  BY <1>1, <1>2 DEF OnMessage
<1>4. IInv' /\ loader' = loader /\ (Open => Open')
  BY <1>3, StepKeeps DEF vars, Open
<1>5. PsdTypes /\ outbox \in Seq(FromWorker) /\ DOMAIN viewer = Fields
  BY DEF ViewerInv, PsdTypes
<1>6. /\ rest \in Seq(FromWorker) /\ m \in FromWorker
      /\ 1 \in DOMAIN outbox /\ outbox[1] = m
      /\ \A i \in DOMAIN rest : i \in Nat /\ i + 1 \in DOMAIN outbox /\ rest[i] = outbox[i + 1]
      /\ \A i \in DOMAIN outbox : \/ i = 1
                                  \/ i \in Nat /\ i - 1 \in DOMAIN rest /\ rest[i - 1] = outbox[i]
  BY <1>1, <1>2, <1>3, <1>5, TailFacts
<1>7. m.type \in {"load", "render", "layerThumbnail"}
  BY <1>6 DEF FromWorker
<1>8. /\ DOMAIN viewer' = Fields
      /\ viewer'.on = viewer.on /\ viewer'.doc = viewer.doc /\ viewer'.file = viewer.file
      /\ viewer'.wanted = viewer.wanted /\ viewer'.eyes = viewer.eyes
      /\ viewer'.serial = viewer.serial
      /\ viewer'.tree = IF m.type = "load" THEN viewer.file ELSE viewer.tree
      /\ viewer'.loading = IF Draws(m) THEN FALSE ELSE viewer.loading
      /\ viewer'.rendering = IF Draws(m) THEN FALSE ELSE viewer.rendering
      /\ viewer'.canvas = IF Draws(m) THEN [of |-> m.of, visible |-> m.visible] ELSE viewer.canvas
  <2>1. CASE m.type = "load"
    BY <1>3, <1>5, <2>1 DEF Fields, Draws
  <2>2. CASE m.type = "render"
    BY <1>3, <1>5, <2>2 DEF Fields, Draws
  <2>3. CASE m.type = "layerThumbnail"
    BY <1>3, <1>5, <2>3 DEF Fields, Draws
  <2> QED
    BY <1>7, <2>1, <2>2, <2>3
<1>9. Draws(m) => worker.step = "ready" /\ viewer.tree = viewer.file /\ m.of = viewer.file
  BY <1>6 DEF ViewerInv, LoadFirst, TreeComesFirst, Drawing, Draws, FromWorker
<1>10. PsdTypes'
  <2>1. FromWorker' = FromWorker /\ ToWorker' = ToWorker /\ Show' = Show /\ Doc' = Doc
    BY <1>8 DEF FromWorker, ToWorker, Show, Doc
  <2>2. viewer'.loading \in BOOLEAN /\ viewer'.rendering \in BOOLEAN
    BY <1>5, <1>8 DEF PsdTypes
  <2>3. /\ viewer'.wanted \in Show' /\ viewer'.eyes \in Show' /\ viewer'.serial \in Nat
        /\ Doc' \in Documents
    BY <1>5, <1>8, <2>1 DEF PsdTypes
  <2>4. inbox' \in Seq(ToWorker') /\ outbox' \in Seq(FromWorker')
    BY <1>3, <1>5, <1>6, <2>1 DEF PsdTypes
  <2>5. /\ DOMAIN worker' = {"step", "at", "visible"}
        /\ worker'.step \in Awaiting \cup Loading \cup {"ready", "failed"}
        /\ Drawing' => worker'.visible \in Show'
        /\ worker'.step \in Loading => worker'.at \in 0..Len(Doc')
        /\ worker'.step = "reading" => worker'.at # 0
    BY <1>3, <1>5, <2>1 DEF PsdTypes, Drawing
  <2> QED
    BY <1>8, <2>2, <2>3, <2>4, <2>5 DEF PsdTypes
<1>11. FileOfParser'
  BY <1>3, <1>4 DEF ViewerInv, FileOfParser
<1>12. LoadFirst'
  <2>1. worker.step \in Awaiting => outbox = <<>>
    BY DEF ViewerInv, LoadFirst
  <2>2. worker.step # "ready" => viewer.loading /\ \A i \in DOMAIN outbox : ~Draws(outbox[i])
    BY DEF ViewerInv, LoadFirst
  <2>3. worker.step # "ready" => viewer'.loading /\ \A i \in DOMAIN outbox' : ~Draws(outbox'[i])
    BY <1>3, <1>6, <1>8, <1>9, <2>2
  <2>4. viewer'.loading => \A i \in DOMAIN inbox : inbox[i].type = "load"
    BY <1>8 DEF ViewerInv, LoadFirst
  <2> QED
    BY <1>3, <2>1, <2>3, <2>4 DEF LoadFirst, Draws
<1>13. WantedIsAsked'
  <2>1. /\ inbox' = inbox /\ worker' = worker
        /\ viewer'.doc = viewer.doc /\ viewer'.wanted = viewer.wanted
    BY <1>3, <1>8
  <2> QED
    BY <2>1 DEF ViewerInv, WantedIsAsked, Drawing, Doc, Sets
<1>14. DrawnIsShown'
  <2>1. ASSUME NEW i \in DOMAIN rest
        PROVE  \/ ~Draws(rest[i]) \/ rest[i].visible = worker.visible
               \/ \E j \in DOMAIN rest : j > i /\ Draws(rest[j])
    <3>1. i \in Nat /\ i + 1 \in DOMAIN outbox /\ rest[i] = outbox[i + 1]
      BY <1>6
    <3>2. \/ ~Draws(rest[i]) \/ rest[i].visible = worker.visible
          \/ \E j \in DOMAIN outbox : j > i + 1 /\ Draws(outbox[j])
      BY <3>1 DEF ViewerInv, DrawnIsShown
    <3>3. ASSUME NEW j \in DOMAIN outbox, j > i + 1, Draws(outbox[j])
          PROVE  j - 1 \in DOMAIN rest /\ j - 1 > i /\ Draws(rest[j - 1])
      BY <1>6, <3>1, <3>3
    <3> QED
      BY <3>2, <3>3
  <2>2. \/ viewer'.loading \/ viewer'.canvas = [of |-> viewer'.file, visible |-> worker.visible]
        \/ \E i \in DOMAIN rest : Draws(rest[i])
    <3>1. CASE Draws(m)
      <4>1. \/ m.visible = worker.visible
            \/ \E j \in DOMAIN outbox : j > 1 /\ Draws(outbox[j])
        BY <1>6, <3>1 DEF ViewerInv, DrawnIsShown
      <4> QED
        BY <1>6, <1>8, <1>9, <3>1, <4>1
    <3>2. CASE ~Draws(m)
      BY <1>6, <1>8, <3>2 DEF ViewerInv, DrawnIsShown
    <3> QED
      BY <3>1, <3>2
  <2> QED
    BY <1>3, <2>1, <2>2 DEF DrawnIsShown, Draws
<1>15. TreeComesFirst'
  <2>1. /\ Drawing => viewer.tree = viewer.file \/ m.type = "load"
        /\ viewer.loading \/ viewer.tree = viewer.file
    BY <1>6 DEF ViewerInv, TreeComesFirst
  <2>2. /\ Drawing => viewer'.tree = viewer'.file
        /\ viewer'.loading \/ viewer'.tree = viewer'.file
    BY <1>8, <1>9, <2>1
  <2> QED
    BY <1>3, <2>2 DEF TreeComesFirst, Drawing
<1>16. PictureComes'
  <2>1. CASE Draws(m)
    BY <1>8, <2>1 DEF PictureComes
  <2>2. CASE ~Draws(m)
    <3>1. (\E i \in DOMAIN outbox : Draws(outbox[i])) => \E i \in DOMAIN rest : Draws(rest[i])
      BY <1>6, <2>2
    <3> QED
      BY <1>3, <1>8, <2>2, <3>1 DEF ViewerInv, PictureComes, Draws
  <2> QED
    BY <2>1, <2>2
<1> QED
  BY <1>4, <1>10, <1>11, <1>12, <1>13, <1>14, <1>15, <1>16 DEF ViewerInv

LEMMA NextFileKeeps ==
  ASSUME IInv, ViewerInv, NextFile
  PROVE  IInv' /\ ViewerInv'
<1>1. PICK doc \in Documents : viewer' = Opened(doc, viewer)
  BY DEF NextFile
<1>2. /\ inbox' = <<Load>> /\ outbox' = <<>> /\ worker' = NewWorker /\ loader' = loader
  BY DEF NextFile, Terminated
<1>3. loader.prefetched = 0 /\ DOMAIN viewer = Fields /\ viewer.rendering \in BOOLEAN
      /\ viewer.serial \in Nat
  BY DEF ViewerInv, FileOfParser, PsdTypes
<1>4. IInv'
  BY <1>3, NewFileKeeps
<1>5. /\ DOMAIN viewer' = Fields /\ viewer'.doc = doc /\ viewer'.loading = TRUE
      /\ viewer'.wanted = Visible(doc) /\ viewer'.eyes = Visible(doc)
      /\ viewer'.rendering = viewer.rendering /\ viewer'.serial = viewer.serial
  BY <1>1, <1>3 DEF Opened, Fields
<1>6. Visible(doc) \in [DOMAIN doc -> BOOLEAN]
  BY VisibleShown
<1>7. worker'.step = "opening" /\ DOMAIN worker' = {"step", "at", "visible"}
  BY <1>2 DEF NewWorker
<1>8. PsdTypes'
  <2>1. inbox' \in Seq(ToWorker') /\ outbox' \in Seq(FromWorker')
    BY <1>2 DEF ToWorker, FromWorker, Load
  <2> QED
    BY <1>3, <1>5, <1>6, <1>7, <2>1 DEF PsdTypes, Show, Doc, Drawing, Awaiting, Loading
<1>9. FileOfParser'
  BY <1>2, <1>3, <1>7 DEF FileOfParser
<1>10. LoadFirst'
  BY <1>2, <1>5, <1>7 DEF LoadFirst, Awaiting, Doc, Load
<1>11. WantedIsAsked' /\ TreeComesFirst'
  BY <1>5, <1>7 DEF WantedIsAsked, TreeComesFirst, Drawing, Loading
<1>12. DrawnIsShown' /\ PictureComes'
  BY <1>2, <1>5 DEF DrawnIsShown, PictureComes
<1> QED
  BY <1>4, <1>8, <1>9, <1>10, <1>11, <1>12 DEF ViewerInv

LEMMA InitViewer == PsdInit => PsdInv
<1> SUFFICES ASSUME PsdInit, viewer.on PROVE ViewerInv
  BY InitFile DEF PsdInv
<1>1. PICK doc \in Documents : viewer = Opened(doc, Blank)
  BY DEF PsdInit, Closed, Blank
<1>2. inbox = <<Load>> /\ outbox = <<>> /\ worker = NewWorker /\ loader.prefetched = 0
  BY DEF PsdInit, Init, Closed, Blank
<1>3. /\ DOMAIN viewer = Fields /\ viewer.doc = doc /\ viewer.loading = TRUE
      /\ viewer.wanted = Visible(doc) /\ viewer.eyes = Visible(doc)
      /\ viewer.rendering = FALSE /\ viewer.serial = 0
  BY <1>1 DEF Opened, Blank, Fields
<1>4. Visible(doc) \in [DOMAIN doc -> BOOLEAN]
  BY VisibleShown
<1>5. worker.step = "opening" /\ DOMAIN worker = {"step", "at", "visible"}
  BY <1>2 DEF NewWorker
<1>6. PsdTypes
  <2>1. inbox \in Seq(ToWorker) /\ outbox \in Seq(FromWorker)
    BY <1>2 DEF ToWorker, FromWorker, Load
  <2>2. Doc \in Documents /\ viewer.wanted \in Show /\ viewer.eyes \in Show
    BY <1>3, <1>4 DEF Show, Doc
  <2>3. viewer.loading \in BOOLEAN /\ viewer.rendering \in BOOLEAN
    BY <1>3, Zenon
  <2>4. viewer.serial \in Nat
    BY <1>3
  <2> QED
    BY <1>3, <1>5, <2>1, <2>2, <2>3, <2>4 DEF PsdTypes, Drawing, Awaiting, Loading
<1>7. FileOfParser
  BY <1>2, <1>5 DEF FileOfParser
<1>8. LoadFirst
  BY <1>2, <1>3, <1>5 DEF LoadFirst, Awaiting, Doc, Load
<1>9. WantedIsAsked /\ TreeComesFirst
  BY <1>3, <1>5 DEF WantedIsAsked, TreeComesFirst, Drawing, Loading
<1>10. DrawnIsShown /\ PictureComes
  BY <1>2, <1>3 DEF DrawnIsShown, PictureComes
<1> QED
  BY <1>6, <1>7, <1>8, <1>9, <1>10 DEF ViewerInv

(* The panel asks for something, and the page waits for a picture if it asks for
   a layer to be shown or not.                                             *)
LEMMA PanelAsks ==
  ASSUME ViewerInv, ~viewer.loading, NEW m \in ToWorker, NEW k, NEW l \in DOMAIN Doc,
         inbox' \in Seq(ToWorker), DOMAIN inbox' = DOMAIN inbox \cup {k},
         \A i \in DOMAIN inbox : i \in Nat /\ i < k /\ inbox'[i] = inbox[i],
         inbox'[k] = m,
         loader'.prefetched = 0, Open => Open', UNCHANGED <<worker, outbox>>,
         DOMAIN viewer' = Fields, viewer'.doc = viewer.doc, viewer'.file = viewer.file,
         viewer'.tree = viewer.tree, viewer'.loading = viewer.loading,
         viewer'.canvas = viewer.canvas, viewer'.serial \in Nat,
         viewer'.rendering \in BOOLEAN, viewer'.wanted \in Show, viewer'.eyes \in Show,
         \/ /\ ~Sets(m) /\ viewer'.wanted = viewer.wanted
            /\ viewer'.rendering = viewer.rendering
         \/ /\ Sets(m) /\ m.layer = l
            /\ viewer'.wanted = [viewer.wanted EXCEPT ![l] = m.visible]
  PROVE  ViewerInv'
<1>1. worker.step = "ready" /\ Drawing /\ worker'.step = "ready" /\ Drawing'
  BY DEF ViewerInv, LoadFirst, Drawing
<1>2. FromWorker' = FromWorker /\ ToWorker' = ToWorker /\ Show' = Show /\ Doc' = Doc
  BY DEF FromWorker, ToWorker, Show, Doc
<1>3. PsdTypes /\ viewer.wanted \in Show /\ viewer'.loading \in BOOLEAN
  BY DEF ViewerInv, PsdTypes
<1>4. PsdTypes'
  <2>1. Doc \in Documents /\ outbox \in Seq(FromWorker) /\ worker.visible \in Show
        /\ DOMAIN worker = {"step", "at", "visible"}
    BY <1>1, <1>3 DEF PsdTypes
  <2> QED
    BY <1>1, <1>2, <1>3, <2>1 DEF PsdTypes, Loading
<1>5. FileOfParser'
  BY DEF ViewerInv, FileOfParser
<1>6. LoadFirst'
  BY <1>1 DEF LoadFirst, Awaiting
<1>7. \A d \in DOMAIN Doc :
        /\ \/ viewer'.wanted[d] = worker.visible[d]
           \/ \E i \in DOMAIN inbox' : Sets(inbox'[i]) /\ inbox'[i].layer = d
        /\ \A i \in DOMAIN inbox' :
             \/ ~Sets(inbox'[i]) \/ inbox'[i].layer # d \/ viewer'.wanted[d] = inbox'[i].visible
             \/ \E j \in DOMAIN inbox' : j > i /\ Sets(inbox'[j]) /\ inbox'[j].layer = d
  <2> SUFFICES ASSUME NEW d \in DOMAIN Doc
               PROVE  /\ \/ viewer'.wanted[d] = worker.visible[d]
                         \/ \E i \in DOMAIN inbox' : Sets(inbox'[i]) /\ inbox'[i].layer = d
                      /\ \A i \in DOMAIN inbox' :
                           \/ ~Sets(inbox'[i]) \/ inbox'[i].layer # d
                           \/ viewer'.wanted[d] = inbox'[i].visible
                           \/ \E j \in DOMAIN inbox' : j > i /\ Sets(inbox'[j]) /\ inbox'[j].layer = d
    OBVIOUS
  <2>1. CASE Sets(m) /\ d = l
    <3>1. viewer'.wanted[d] = m.visible
      BY <1>3, <2>1 DEF Show
    <3> QED
      BY <2>1, <3>1
  <2>2. CASE ~(Sets(m) /\ d = l)
    <3>1. viewer'.wanted[d] = viewer.wanted[d]
      BY <1>3, <2>2 DEF Show
    <3>2. /\ \/ viewer.wanted[d] = worker.visible[d]
             \/ \E i \in DOMAIN inbox : Sets(inbox[i]) /\ inbox[i].layer = d
          /\ \A i \in DOMAIN inbox :
               \/ ~Sets(inbox[i]) \/ inbox[i].layer # d \/ viewer.wanted[d] = inbox[i].visible
               \/ \E j \in DOMAIN inbox : j > i /\ Sets(inbox[j]) /\ inbox[j].layer = d
      BY <1>1 DEF ViewerInv, WantedIsAsked
    <3>3. ~Sets(m) \/ m.layer # d
      BY <2>2
    <3> QED
      BY <3>1, <3>2, <3>3
  <2> QED
    BY <2>1, <2>2
<1>8. WantedIsAsked'
  BY <1>2, <1>7 DEF WantedIsAsked, Sets
<1>9. DrawnIsShown' /\ TreeComesFirst'
  BY <1>1 DEF ViewerInv, DrawnIsShown, TreeComesFirst
<1>10. PictureComes'
  <2>1. (\E i \in DOMAIN inbox : Sets(inbox[i])) \/ Sets(m)
          => \E i \in DOMAIN inbox' : Sets(inbox'[i])
    BY DEF Sets
  <2> QED
    BY <2>1 DEF ViewerInv, PictureComes
<1> QED
  BY <1>4, <1>5, <1>6, <1>8, <1>9, <1>10 DEF ViewerInv

LEMMA AskThumbnailKeeps ==
  ASSUME IInv, ViewerInv, NEW l, AskThumbnail(l)
  PROVE  IInv' /\ ViewerInv'
<1>1. PICK n : n = viewer.serial + 1
  OBVIOUS
<1>2. PICK m : m = [type |-> "getLayerThumbnail", layer |-> l, serial |-> n]
  OBVIOUS
<1>3. /\ ~viewer.loading /\ l \in DOMAIN Doc
      /\ viewer' = [viewer EXCEPT !.serial = n, !.thumbs[l] = n]
      /\ inbox' = Append(inbox, m) /\ UNCHANGED vars /\ UNCHANGED <<worker, outbox>>
  BY <1>1, <1>2 DEF AskThumbnail, PanelShown, Doc
<1>4. IInv' /\ loader' = loader /\ (Open => Open')
  BY <1>3, StepKeeps DEF vars, Open
<1>5. PsdTypes /\ inbox \in Seq(ToWorker) /\ DOMAIN viewer = Fields /\ viewer.serial \in Nat
  BY DEF ViewerInv, PsdTypes
<1>6. m \in ToWorker /\ ~Sets(m)
  BY <1>1, <1>2, <1>3, <1>5 DEF ToWorker, Sets
<1>7. PICK k : k = Len(inbox) + 1
  OBVIOUS
<1>8. /\ inbox' \in Seq(ToWorker) /\ DOMAIN inbox' = DOMAIN inbox \cup {k}
      /\ \A i \in DOMAIN inbox : i \in Nat /\ i < k /\ inbox'[i] = inbox[i]
      /\ inbox'[k] = m
  BY <1>3, <1>5, <1>6, <1>7, AppendFacts
<1>9. /\ DOMAIN viewer' = Fields /\ viewer'.doc = viewer.doc /\ viewer'.file = viewer.file
      /\ viewer'.wanted = viewer.wanted /\ viewer'.eyes = viewer.eyes
      /\ viewer'.serial = n /\ viewer'.tree = viewer.tree /\ viewer'.loading = viewer.loading
      /\ viewer'.rendering = viewer.rendering /\ viewer'.canvas = viewer.canvas
  BY <1>3, <1>5 DEF Fields
<1>10. /\ viewer'.serial \in Nat /\ viewer'.rendering \in BOOLEAN
       /\ viewer'.wanted \in Show /\ viewer'.eyes \in Show
  BY <1>1, <1>5, <1>9 DEF PsdTypes
<1>11. ViewerInv'
  BY <1>3, <1>4, <1>6, <1>8, <1>9, <1>10, PanelAsks DEF ViewerInv, FileOfParser
<1> QED
  BY <1>4, <1>11

LEMMA ToggleVisibilityKeeps ==
  ASSUME IInv, ViewerInv, NEW l, ToggleVisibility(l)
  PROVE  IInv' /\ ViewerInv'
<1>1. PICK v : v = ~viewer.eyes[l]
  OBVIOUS
<1>2. PICK m : m = [type |-> "setLayerVisibility", layer |-> l, visible |-> v]
  OBVIOUS
<1>3. /\ ~viewer.loading /\ l \in DOMAIN Doc
      /\ viewer' = [viewer EXCEPT !.eyes[l] = v, !.wanted[l] = v, !.rendering = TRUE,
                                  !.toggles = @ + 1]
      /\ inbox' = Append(inbox, m) /\ UNCHANGED vars /\ UNCHANGED <<worker, outbox>>
  BY <1>1, <1>2 DEF ToggleVisibility, PanelShown, Doc
<1>4. IInv' /\ loader' = loader /\ (Open => Open')
  BY <1>3, StepKeeps DEF vars, Open
<1>5. /\ PsdTypes /\ inbox \in Seq(ToWorker) /\ DOMAIN viewer = Fields
      /\ viewer.wanted \in Show /\ viewer.eyes \in Show
  BY DEF ViewerInv, PsdTypes
<1>6. v \in BOOLEAN
  BY <1>1
<1>7. m \in ToWorker /\ Sets(m) /\ m.layer = l /\ m.visible = v
  BY <1>2, <1>3, <1>6 DEF ToWorker, Sets
<1>8. PICK k : k = Len(inbox) + 1
  OBVIOUS
<1>9. /\ inbox' \in Seq(ToWorker) /\ DOMAIN inbox' = DOMAIN inbox \cup {k}
      /\ \A i \in DOMAIN inbox : i \in Nat /\ i < k /\ inbox'[i] = inbox[i]
      /\ inbox'[k] = m
  BY <1>3, <1>5, <1>7, <1>8, AppendFacts
<1>10. /\ DOMAIN viewer' = Fields /\ viewer'.doc = viewer.doc /\ viewer'.file = viewer.file
       /\ viewer'.wanted = [viewer.wanted EXCEPT ![l] = v]
       /\ viewer'.eyes = [viewer.eyes EXCEPT ![l] = v]
       /\ viewer'.serial = viewer.serial /\ viewer'.tree = viewer.tree
       /\ viewer'.loading = viewer.loading /\ viewer'.rendering = TRUE
       /\ viewer'.canvas = viewer.canvas
  BY <1>3, <1>5 DEF Fields
<1>11. viewer'.serial \in Nat /\ viewer'.rendering \in BOOLEAN
  BY <1>5, <1>10 DEF PsdTypes
<1>12. viewer'.wanted \in Show /\ viewer'.eyes \in Show
  BY <1>5, <1>6, <1>10 DEF Show
<1>13. ViewerInv'
  BY <1>3, <1>4, <1>7, <1>9, <1>10, <1>11, <1>12, PanelAsks DEF ViewerInv, FileOfParser
<1> QED
  BY <1>4, <1>13

LEMMA ReopenPanelKeeps ==
  ASSUME IInv, ViewerInv, ReopenPanel
  PROVE  IInv' /\ ViewerInv'
<1>1. PICK part : viewer' = [viewer EXCEPT
        !.eyes = [l \in DOMAIN @ |-> IF l \in part THEN viewer.doc[l].visible ELSE @[l]],
        !.thumbs = [l \in DOMAIN @ |-> IF l \in part THEN 0 ELSE @[l]]]
  BY DEF ReopenPanel
<1>2. UNCHANGED vars /\ UNCHANGED <<worker, inbox, outbox>>
  BY DEF ReopenPanel
<1>3. IInv' /\ loader' = loader /\ (Open => Open')
  BY <1>2, StepKeeps DEF vars, Open
<1>4. PsdTypes /\ DOMAIN viewer = Fields /\ viewer.eyes \in Show /\ Doc \in Documents
  BY DEF ViewerInv, PsdTypes
<1>5. /\ DOMAIN viewer' = Fields /\ viewer'.doc = viewer.doc /\ viewer'.file = viewer.file
      /\ viewer'.wanted = viewer.wanted
      /\ viewer'.eyes = [l \in DOMAIN viewer.eyes |->
                           IF l \in part THEN viewer.doc[l].visible ELSE viewer.eyes[l]]
      /\ viewer'.serial = viewer.serial /\ viewer'.tree = viewer.tree
      /\ viewer'.loading = viewer.loading /\ viewer'.rendering = viewer.rendering
      /\ viewer'.canvas = viewer.canvas
  BY <1>1, <1>4 DEF Fields
<1>6. viewer'.eyes \in Show
  <2>1. \A l \in DOMAIN Doc : Doc[l].visible \in BOOLEAN
    BY <1>4, VisibleShown DEF Visible
  <2> QED
    BY <1>4, <1>5, <2>1 DEF Show, Doc
<1>7. FromWorker' = FromWorker /\ ToWorker' = ToWorker /\ Show' = Show /\ Doc' = Doc
  BY <1>5 DEF FromWorker, ToWorker, Show, Doc
<1>8. PsdTypes'
  BY <1>2, <1>4, <1>5, <1>6, <1>7 DEF PsdTypes, Drawing
<1>9. FileOfParser' /\ LoadFirst'
  BY <1>2, <1>3, <1>5, <1>7 DEF ViewerInv, FileOfParser, LoadFirst, Draws
<1>10. WantedIsAsked'
  BY <1>2, <1>5, <1>7 DEF ViewerInv, WantedIsAsked, Drawing, Sets
<1>11. DrawnIsShown' /\ TreeComesFirst' /\ PictureComes'
  BY <1>2, <1>5 DEF ViewerInv, DrawnIsShown, TreeComesFirst, PictureComes, Drawing, Draws, Sets
<1> QED
  BY <1>3, <1>8, <1>9, <1>10, <1>11 DEF ViewerInv

-----------------------------------------------------------------------------
(* The viewer as a whole.                                                  *)

LEMMA FileStepKeeps ==
  ASSUME IInv, ViewerInv, FileStep
  PROVE  IInv' /\ ViewerInv'
<1>1. IInv' /\ loader'.prefetched = loader.prefetched /\ (Open => Open')
  BY FileKeeps DEF FileStep
<1>2. UNCHANGED <<viewer, worker, inbox, outbox>>
  BY DEF FileStep, psdVars
<1>3. FromWorker' = FromWorker /\ ToWorker' = ToWorker /\ Show' = Show /\ Doc' = Doc
  BY <1>2 DEF FromWorker, ToWorker, Show, Doc
<1>4. PsdTypes'
  BY <1>2, <1>3 DEF ViewerInv, PsdTypes, Drawing
<1>5. FileOfParser'
  BY <1>1, <1>2 DEF ViewerInv, FileOfParser
<1>6. LoadFirst' /\ WantedIsAsked'
  BY <1>2, <1>3 DEF ViewerInv, LoadFirst, WantedIsAsked, Drawing, Draws, Sets
<1>7. DrawnIsShown' /\ TreeComesFirst' /\ PictureComes'
  BY <1>2 DEF ViewerInv, DrawnIsShown, TreeComesFirst, PictureComes, Drawing, Draws, Sets
<1> QED
  BY <1>1, <1>4, <1>5, <1>6, <1>7 DEF ViewerInv

LEMMA ViewerStepKeeps == PsdInv /\ [PsdNext]_allVars => PsdInv'
<1> SUFFICES ASSUME PsdInv, [PsdNext]_allVars PROVE PsdInv'
  OBVIOUS
<1>1. IInv
  BY DEF PsdInv
<1>2. CASE (~viewer.on /\ OtherViewer) \/ UNCHANGED allVars
  <2>1. [Next]_vars /\ UNCHANGED psdVars
    BY <1>2 DEF OtherViewer, allVars
  <2>2. IInv'
    BY <1>1, <2>1, StepKeeps
  <2>3. CASE ~viewer.on
    BY <2>1, <2>2, <2>3 DEF PsdInv, psdVars
  <2>4. CASE viewer.on
    <3>1. UNCHANGED vars /\ UNCHANGED psdVars
      BY <1>2, <2>4 DEF allVars
    <3>2. ViewerInv
      BY <2>4 DEF PsdInv
    <3>3. FromWorker' = FromWorker /\ ToWorker' = ToWorker /\ Show' = Show /\ Doc' = Doc
      BY <3>1 DEF FromWorker, ToWorker, Show, Doc, psdVars
    <3>4. PsdTypes'
      BY <3>1, <3>2, <3>3 DEF ViewerInv, PsdTypes, Drawing, psdVars
    <3>5. FileOfParser' /\ LoadFirst' /\ WantedIsAsked'
      BY <3>1, <3>2, <3>3 DEF ViewerInv, FileOfParser, LoadFirst, WantedIsAsked, Drawing,
                              Draws, Sets, Open, vars, psdVars
    <3>6. DrawnIsShown' /\ TreeComesFirst' /\ PictureComes'
      BY <3>1, <3>2 DEF ViewerInv, DrawnIsShown, TreeComesFirst, PictureComes, Drawing,
                        Draws, Sets, psdVars
    <3> QED
      BY <2>2, <3>4, <3>5, <3>6 DEF PsdInv, ViewerInv
  <2> QED
    BY <2>3, <2>4
<1>3. ASSUME viewer.on,
             \/ FileStep \/ WorkerStep \/ NextFile \/ ReopenPanel \/ OnMessage
             \/ \E l : ToggleVisibility(l) \/ AskThumbnail(l)
      PROVE  PsdInv'
  <2>1. ViewerInv
    BY <1>3 DEF PsdInv
  <2>2. CASE FileStep
    BY <1>1, <2>1, <2>2, FileStepKeeps DEF PsdInv
  <2>3. CASE LoadMessage
    BY <1>1, <2>1, <2>3, LoadMessageKeeps DEF PsdInv
  <2>4. CASE ParseHeader \/ PrefetchLayers \/ ParseLayers \/ LoadLayer \/ LayerLoaded \/ LoadFails
    BY <1>1, <2>1, <2>4, LoadSteps DEF PsdInv
  <2>5. CASE Parsed
    BY <1>1, <2>1, <2>5, ParsedKeeps DEF PsdInv
  <2>6. CASE FirstRender
    BY <1>1, <2>1, <2>6, FirstRenderKeeps DEF PsdInv
  <2>7. CASE SetLayerVisibility
    BY <1>1, <2>1, <2>7, SetLayerVisibilityKeeps DEF PsdInv
  <2>8. CASE GetLayerThumbnail
    BY <1>1, <2>1, <2>8, GetLayerThumbnailKeeps DEF PsdInv
  <2>9. CASE NextFile
    BY <1>1, <2>1, <2>9, NextFileKeeps DEF PsdInv
  <2>10. CASE ReopenPanel
    BY <1>1, <2>1, <2>10, ReopenPanelKeeps DEF PsdInv
  <2>11. CASE OnMessage
    BY <1>1, <2>1, <2>11, OnMessageKeeps DEF PsdInv
  <2>12. CASE \E l : ToggleVisibility(l)
    BY <1>1, <2>1, <2>12, ToggleVisibilityKeeps DEF PsdInv
  <2>13. CASE \E l : AskThumbnail(l)
    BY <1>1, <2>1, <2>13, AskThumbnailKeeps DEF PsdInv
  <2> QED
    BY <1>3, <2>2, <2>3, <2>4, <2>5, <2>6, <2>7, <2>8, <2>9, <2>10, <2>11, <2>12, <2>13
       DEF WorkerStep
<1>4. NextFile \/ ReopenPanel \/ OnMessage \/ (\E l : ToggleVisibility(l) \/ AskThumbnail(l))
        => viewer.on
  BY DEF NextFile, ReopenPanel, OnMessage, ToggleVisibility, AskThumbnail, PanelShown
<1> QED
  BY <1>2, <1>3, <1>4 DEF PsdNext

(* The strengthening is an invariant of the viewer of layers, whatever the files
   and however often it is toggled.                                         *)
THEOREM ViewerInvariantHolds == PsdSpec => []PsdInv
BY InitViewer, ViewerStepKeeps, PTL DEF PsdSpec

(* The parser of layers and its prefetch too are given what has been fetched,
   through any number of files (stream.ts:204-251, psd/stream.ts:3-50).     *)
THEOREM LayersReadFilled == PsdSpec => []ReadsAreFilled
<1>1. PsdInv => ReadsAreFilled
  BY DEF PsdInv, IInv
<1> QED
  BY <1>1, ViewerInvariantHolds, PTL

(* And one of them fetches at a time (stream.ts:238-317).                   *)
THEOREM LayersOneAtATime == PsdSpec => []OneRequest
<1>1. PsdInv => OneRequest
  BY DEF PsdInv, IInv
<1> QED
  BY <1>1, ViewerInvariantHolds, PTL

-----------------------------------------------------------------------------
(***************************************************************************)
(* The compositor and the panel, for any document whose groups nest. The   *)
(* panel goes through the entries from the top and keeps the groups that   *)
(* are open; the compositor goes from the bottom and keeps a canvas for    *)
(* each of them. At every entry canvas i of the compositor is that of the  *)
(* first i-1 groups that are open there (Composed).                        *)
(***************************************************************************)
(* What Front and Last are of. *)
LEMMA FrontIs ==
  ASSUME NEW S, NEW s \in Seq(S), s # <<>>
  PROVE  /\ Front(s) \in Seq(S) /\ Len(Front(s)) = Len(s) - 1
         /\ \A i \in 1 .. Len(s) - 1 : Front(s)[i] = s[i]
         /\ Last(s) = s[Len(s)] /\ Last(s) \in S /\ Len(s) >= 1
<1>1. Len(s) \in Nat /\ Len(s) >= 1
  BY EmptySeq
<1>2. Front(s) = [i \in 1 .. Len(s) - 1 |-> s[i]]
  BY <1>1 DEF Front
<1>3. \A i \in 1 .. Len(s) - 1 : s[i] \in S
  BY <1>1
<1>4. Front(s) \in [1 .. Len(s) - 1 -> S]
  BY <1>2, <1>3
<1>5. Front(s) \in Seq(S) /\ Len(Front(s)) = Len(s) - 1
  BY <1>1, <1>4
<1> QED
  BY <1>1, <1>2, <1>5 DEF Last

(* What an entry does to the groups that are open (layerUtils.ts:9-58). *)
LEMMA EnterIs ==
  ASSUME NEW doc, NEW open, NEW k
  PROVE  /\ OpensGroup(doc[k]) => Enter(doc, open, k) = Append(open, k)
         /\ doc[k].kind = "divider" /\ open # <<>> => Enter(doc, open, k) = Front(open)
         /\ ~OpensGroup(doc[k]) /\ ~(doc[k].kind = "divider" /\ open # <<>>)
            => Enter(doc, open, k) = open
<1>1. CASE OpensGroup(doc[k])
  BY <1>1 DEF Enter, OpensGroup
<1>2. CASE doc[k].kind = "divider" /\ open # <<>>
  BY <1>2 DEF Enter, OpensGroup
<1>3. CASE ~OpensGroup(doc[k]) /\ ~(doc[k].kind = "divider" /\ open # <<>>)
  BY <1>3 DEF Enter
<1> QED
  BY <1>1, <1>2, <1>3

(* The groups open after each entry, as a function that has its equation. *)
LEMMA OpenIs ==
  ASSUME NEW doc \in Seq(Entry)
  PROVE  /\ OpenAfter(doc) \in [0 .. Len(doc) -> Seq(DOMAIN doc)]
         /\ OpenAfter(doc)[0] = <<>>
         /\ \A k \in DOMAIN doc : OpenAfter(doc)[k] = Enter(doc, OpenAfter(doc)[k - 1], k)
<1> DEFINE n == Len(doc)
           T == Seq(DOMAIN doc)
           step == [k \in 1 .. n |-> [t \in T |-> Enter(doc, t, k)]]
           Does(g) == g = [k \in 0 .. n |-> IF k = 0 THEN <<>> ELSE Enter(doc, g[k - 1], k)]
<1>1. n \in Nat /\ DOMAIN doc = 1 .. n /\ <<>> \in T
  OBVIOUS
<1>2. ASSUME NEW k \in 1 .. n, NEW t \in T
      PROVE  Enter(doc, t, k) \in T
  <2>1. Append(t, k) \in T
    BY <1>1
  <2>2. t # <<>> => Front(t) \in T
    BY FrontIs
  <2>3. Enter(doc, t, k) \in {Append(t, k), t} \/ (t # <<>> /\ Enter(doc, t, k) = Front(t))
    BY EnterIs
  <2> QED
    BY <2>1, <2>2, <2>3
<1>3. step \in [1 .. n -> [T -> T]] /\ \A k \in 1 .. n, t \in T : step[k][t] = Enter(doc, t, k)
  <2> HIDE DEF T, n
  <2> QED
    BY <1>2
<1> HIDE DEF n, T, step
<1>4. PICK g : Iterates(g, n, T, <<>>, step)
  BY <1>1, <1>3, Recursion
<1>5. \A k \in 0 .. n : k # 0 => k \in 1 .. n /\ k - 1 \in 0 .. n
  BY <1>1
<1>6. \A k \in 1 .. n : g[k - 1] \in T /\ g[k] = Enter(doc, g[k - 1], k)
  BY <1>1, <1>3, <1>4, <1>5 DEF Iterates
<1>7. \E h : Does(h)
  <2>1. g = [k \in 0 .. n |-> IF k = 0 THEN <<>> ELSE Enter(doc, g[k - 1], k)]
    BY <1>4, <1>5, <1>6 DEF Iterates
  <2> QED
    BY <2>1
<1>8. Does(OpenAfter(doc))
  BY <1>7 DEF OpenAfter, n
<1> DEFINE h == OpenAfter(doc)
           Typed == {k \in 0 .. n : h[k] \in T}
<1> HIDE DEF h
<1>9. h[0] = <<>> /\ \A k \in 1 .. n : h[k] = Enter(doc, h[k - 1], k)
  BY <1>1, <1>8 DEF h
<1>10. ASSUME NEW k \in 0 .. n - 1, k \in Typed
       PROVE  k + 1 \in Typed
  <2>1. h[k] \in T /\ k + 1 \in 1 .. n /\ k + 1 \in 0 .. n /\ (k + 1) - 1 = k
    BY <1>1, <1>10
  <2>2. h[k + 1] = Enter(doc, h[k], k + 1)
    BY <1>9, <2>1
  <2> QED
    BY <1>2, <2>1, <2>2
<1>11. 0 .. n \subseteq Typed
  <2>1. 0 \in Typed
    BY <1>1, <1>9
  <2> HIDE DEF Typed
  <2> QED
    BY <1>1, <1>10, <2>1, UpTo
<1>12. h \in [0 .. n -> T]
  BY <1>8, <1>11 DEF h
<1> QED
  BY <1>1, <1>9, <1>12 DEF h, n, T

(* The canvases of the compositor, of which there is always one. *)
CanvasesOf(doc) == [drawn : SUBSET DOMAIN doc, clip : BOOLEAN]
Stacks(doc) == Seq(CanvasesOf(doc)) \ {<<>>}

(* A layer is drawn unless it is hidden, empty or clipped by nothing (render.ts:154-347). *)
LEMMA LayerDrawn ==
  ASSUME NEW doc \in Seq(Entry), NEW target \in CanvasesOf(doc), NEW l \in DOMAIN doc,
         NEW shown \in BOOLEAN
  PROVE  /\ DrawLayer(target, doc[l], l, shown) \in CanvasesOf(doc)
         /\ target.drawn \subseteq DrawLayer(target, doc[l], l, shown).drawn
         /\ DrawLayer(target, doc[l], l, shown).drawn
              \subseteq target.drawn \cup (IF shown THEN {l} ELSE {})
         /\ shown /\ doc[l].pixels /\ ~doc[l].clipping
              => l \in DrawLayer(target, doc[l], l, shown).drawn
<1> DEFINE e == doc[l]
<1>1. e \in Entry
  OBVIOUS
<1>10. e.pixels \in BOOLEAN /\ e.clipping \in BOOLEAN
  BY <1>1 DEF Entry
<1>2. CASE ~shown
  BY <1>2 DEF DrawLayer, CanvasesOf
<1>3. CASE shown /\ (~e.pixels \/ (e.clipping /\ ~target.clip))
  BY <1>10, <1>3 DEF DrawLayer, CanvasesOf
<1>4. CASE shown /\ ~(~e.pixels \/ (e.clipping /\ ~target.clip))
  <2>1. DrawLayer(target, e, l, shown) = [drawn |-> target.drawn \cup {l}, clip |-> TRUE]
    BY <1>4 DEF DrawLayer
  <2>2. target.drawn \cup {l} \in SUBSET DOMAIN doc
    BY DEF CanvasesOf
  <2> DEFINE drawn == target.drawn \cup {l}
  <2>3. [drawn |-> drawn, clip |-> TRUE] \in CanvasesOf(doc)
    BY <2>2 DEF CanvasesOf
  <2>4. target.drawn \subseteq drawn /\ drawn \subseteq target.drawn \cup {l} /\ l \in drawn
    OBVIOUS
  <2> HIDE DEF drawn
  <2>5. DrawLayer(target, e, l, shown).drawn = drawn
    BY <2>1 DEF drawn
  <2>6. DrawLayer(target, e, l, shown) \in CanvasesOf(doc)
    BY <2>1, <2>3 DEF drawn
  <2> QED
    BY <1>4, <2>4, <2>5, <2>6
<1> QED
  BY <1>2, <1>3, <1>4

(* A group is drawn, with what is on its canvas, if it is to be seen. *)
LEMMA GroupDrawn ==
  ASSUME NEW doc, NEW target \in CanvasesOf(doc), NEW group \in CanvasesOf(doc), NEW shown \in BOOLEAN
  PROVE  /\ DrawGroup(target, group, shown) \in CanvasesOf(doc)
         /\ DrawGroup(target, group, shown).drawn
              = IF shown THEN target.drawn \cup group.drawn ELSE target.drawn
BY DEF DrawGroup, CanvasesOf

(* One entry on the stack. *)
LEMMA DividerOnStack ==
  ASSUME NEW doc \in Seq(Entry), NEW stack \in Stacks(doc), NEW l \in DOMAIN doc,
         NEW shown, doc[l].kind = "divider"
  PROVE  /\ DrawOnStack(stack, doc[l], l, shown) \in Stacks(doc)
         /\ Len(DrawOnStack(stack, doc[l], l, shown)) = Len(stack) + 1
         /\ \A i \in 1 .. Len(stack) : DrawOnStack(stack, doc[l], l, shown)[i] = stack[i]
         /\ DrawOnStack(stack, doc[l], l, shown)[Len(stack) + 1].drawn = {}
<1>1. DrawOnStack(stack, doc[l], l, shown) = Append(stack, Canvas)
  BY DEF DrawOnStack, OpensGroup
<1>2. Canvas \in CanvasesOf(doc) /\ Canvas.drawn = {}
  BY DEF Canvas, CanvasesOf
<1> QED
  BY <1>1, <1>2, AppendProperties DEF Stacks

LEMMA LayerOnStack ==
  ASSUME NEW doc \in Seq(Entry), NEW stack \in Stacks(doc), NEW l \in DOMAIN doc,
         NEW shown \in BOOLEAN, doc[l].kind = "layer"
  PROVE  /\ DrawOnStack(stack, doc[l], l, shown) \in Stacks(doc)
         /\ Len(DrawOnStack(stack, doc[l], l, shown)) = Len(stack)
         /\ \A i \in 1 .. Len(stack) - 1 : DrawOnStack(stack, doc[l], l, shown)[i] = stack[i]
         /\ DrawOnStack(stack, doc[l], l, shown)[Len(stack)]
              = DrawLayer(stack[Len(stack)], doc[l], l, shown)
<1> DEFINE top == DrawLayer(stack[Len(stack)], doc[l], l, shown)
<1>1. DrawOnStack(stack, doc[l], l, shown) = [stack EXCEPT ![Len(stack)] = top]
  BY DEF DrawOnStack, OpensGroup
<1>2. stack \in Seq(CanvasesOf(doc)) /\ Len(stack) \in 1 .. Len(stack) /\ Len(stack) \in Nat
  BY EmptySeq DEF Stacks
<1>3. top \in CanvasesOf(doc)
  BY <1>2, LayerDrawn
<1> HIDE DEF top
<1>4. [stack EXCEPT ![Len(stack)] = top] \in Seq(CanvasesOf(doc))
  BY <1>2, <1>3
<1>5. /\ [stack EXCEPT ![Len(stack)] = top] # <<>>
      /\ Len([stack EXCEPT ![Len(stack)] = top]) = Len(stack)
      /\ \A i \in 1 .. Len(stack) - 1 : [stack EXCEPT ![Len(stack)] = top][i] = stack[i]
      /\ [stack EXCEPT ![Len(stack)] = top][Len(stack)] = top
  BY <1>2
<1> QED
  BY <1>1, <1>4, <1>5 DEF Stacks, top

LEMMA GroupOnStack ==
  ASSUME NEW doc \in Seq(Entry), NEW stack \in Stacks(doc), NEW l \in DOMAIN doc,
         NEW shown \in BOOLEAN, OpensGroup(doc[l]), Len(stack) > 1
  PROVE  /\ DrawOnStack(stack, doc[l], l, shown) \in Stacks(doc)
         /\ Len(DrawOnStack(stack, doc[l], l, shown)) = Len(stack) - 1
         /\ \A i \in 1 .. Len(stack) - 2 : DrawOnStack(stack, doc[l], l, shown)[i] = stack[i]
         /\ DrawOnStack(stack, doc[l], l, shown)[Len(stack) - 1]
              = DrawGroup(stack[Len(stack) - 1], stack[Len(stack)], shown)
<1> DEFINE n == Len(stack)
           below == Front(stack)
           top == DrawGroup(stack[n - 1], stack[n], shown)
<1>1. stack \in Seq(CanvasesOf(doc)) /\ n \in Nat /\ n - 1 \in 1 .. n /\ n \in 1 .. n /\ stack # <<>>
  BY DEF Stacks
<1>2. /\ below \in Seq(CanvasesOf(doc)) /\ Len(below) = n - 1
      /\ \A i \in 1 .. n - 1 : below[i] = stack[i]
      /\ Last(stack) = stack[n]
  BY <1>1, FrontIs
<1>3. below[n - 1] = stack[n - 1]
  BY <1>1, <1>2
<1>4. doc[l].kind # "divider"
  BY DEF OpensGroup
<1>5. DrawOnStack(stack, doc[l], l, shown)
        = [below EXCEPT ![Len(below)] = DrawGroup(@, Last(stack), shown)]
  BY <1>4 DEF DrawOnStack
<1>6. DrawOnStack(stack, doc[l], l, shown) = [below EXCEPT ![n - 1] = top]
  BY <1>1, <1>2, <1>3, <1>5
<1>7. top \in CanvasesOf(doc)
  <2>1. stack[n - 1] \in CanvasesOf(doc) /\ stack[n] \in CanvasesOf(doc)
    BY <1>1
  <2> QED
    BY <2>1, GroupDrawn
<1>8. [below EXCEPT ![n - 1] = top] \in Seq(CanvasesOf(doc))
  <2> HIDE DEF top, below
  <2> QED
    BY <1>1, <1>2, <1>7
<1> HIDE DEF top, below
<1>9. /\ [below EXCEPT ![n - 1] = top] # <<>> /\ Len([below EXCEPT ![n - 1] = top]) = n - 1
      /\ \A i \in 1 .. n - 2 : [below EXCEPT ![n - 1] = top][i] = stack[i]
      /\ [below EXCEPT ![n - 1] = top][n - 1] = top
  BY <1>1, <1>2
<1> QED
  BY <1>6, <1>8, <1>9 DEF Stacks, top

LEMMA OnStack ==
  ASSUME NEW doc \in Seq(Entry), NEW stack \in Stacks(doc), NEW l \in DOMAIN doc,
         NEW shown \in BOOLEAN
  PROVE  DrawOnStack(stack, doc[l], l, shown) \in Stacks(doc)
<1>1. doc[l].kind \in {"layer", "open", "closed", "divider"}
  <2>1. doc[l] \in Entry
    OBVIOUS
  <2> QED
    BY <2>1 DEF Entry
<1>2. CASE OpensGroup(doc[l]) /\ Len(stack) > 1
  BY <1>2, GroupOnStack
<1>3. CASE OpensGroup(doc[l]) /\ ~(Len(stack) > 1)
  <2>1. Len(stack) \in Nat /\ Len(stack) <= 1 /\ doc[l].kind # "divider"
    BY <1>3 DEF Stacks, OpensGroup
  <2>2. DrawOnStack(stack, doc[l], l, shown) = stack
    BY <1>3, <2>1 DEF DrawOnStack
  <2> QED
    BY <2>2
<1> QED
  BY <1>1, <1>2, <1>3, DividerOnStack, LayerOnStack DEF OpensGroup

(* The canvases before each entry, as a function that has its equation. *)
LEMMA CanvasesAre ==
  ASSUME NEW doc \in Seq(Entry), NEW visible \in [DOMAIN doc -> BOOLEAN]
  PROVE  /\ \A l \in 1 .. Len(doc) + 1 : Canvases(doc, visible)[l] \in Stacks(doc)
         /\ Canvases(doc, visible)[Len(doc) + 1] = <<Canvas>>
         /\ \A l \in DOMAIN doc : Canvases(doc, visible)[l]
               = DrawOnStack(Canvases(doc, visible)[l + 1], doc[l], l, visible[l])
<1> DEFINE n == Len(doc)
           T == Stacks(doc)
           On(stack, l) == DrawOnStack(stack, doc[l], l, visible[l])
           step == [k \in 1 .. n |-> [t \in T |-> On(t, n + 1 - k)]]
           Does(g) == g = [l \in 1 .. n + 1 |-> IF l > n THEN <<Canvas>> ELSE On(g[l + 1], l)]
<1>1. n \in Nat /\ DOMAIN doc = 1 .. n
  OBVIOUS
<1>2. <<Canvas>> \in T
  BY DEF Canvas, CanvasesOf, Stacks
<1>3. ASSUME NEW l \in 1 .. n, NEW t \in T
      PROVE  On(t, l) \in T
  BY OnStack
<1> HIDE DEF n, T, On
<1>4. step \in [1 .. n -> [T -> T]] /\ \A k \in 1 .. n, t \in T : step[k][t] = On(t, n + 1 - k)
  <2>1. \A k \in 1 .. n, t \in T : On(t, n + 1 - k) \in T
    BY <1>1, <1>3
  <2> QED
    BY <2>1
<1> HIDE DEF step
<1>5. PICK f : Iterates(f, n, T, <<Canvas>>, step)
  BY <1>1, <1>2, <1>4, Recursion
<1> DEFINE g == [l \in 1 .. n + 1 |-> f[n + 1 - l]]
<1>6. \A l \in 1 .. n + 1 : g[l] = IF l > n THEN <<Canvas>> ELSE On(g[l + 1], l)
  <2> SUFFICES ASSUME NEW l \in 1 .. n + 1
               PROVE  g[l] = IF l > n THEN <<Canvas>> ELSE On(g[l + 1], l)
    OBVIOUS
  <2>1. CASE l > n
    BY <1>1, <1>5, <2>1 DEF Iterates
  <2>2. CASE ~(l > n)
    <3>1. /\ l + 1 \in 1 .. n + 1 /\ n + 1 - l \in 1 .. n /\ n + 1 - (n + 1 - l) = l
          /\ (n + 1 - l) - 1 \in 0 .. n /\ (n + 1 - l) - 1 = n + 1 - (l + 1)
      BY <1>1, <2>2
    <3>2. f[(n + 1 - l) - 1] \in T
      BY <1>5, <3>1 DEF Iterates
    <3>3. f[n + 1 - l] = step[n + 1 - l][f[(n + 1 - l) - 1]]
      BY <1>5, <3>1 DEF Iterates
    <3>4. f[n + 1 - l] = On(f[(n + 1 - l) - 1], l)
      BY <1>4, <3>1, <3>2, <3>3
    <3> QED
      BY <2>2, <3>1, <3>4
  <2> QED
    BY <2>1, <2>2
<1>7. \E h : Does(h)
  <2>1. Does(g)
    BY <1>6
  <2> QED
    BY <2>1
<1>8. Does(Canvases(doc, visible))
  BY <1>7 DEF Canvases, n, On
<1> DEFINE h == Canvases(doc, visible)
           Typed == {k \in 0 .. n : h[n + 1 - k] \in T}
<1> HIDE DEF h
<1>9. h[n + 1] = <<Canvas>> /\ \A l \in 1 .. n : h[l] = On(h[l + 1], l)
  BY <1>1, <1>8 DEF h
<1>10. ASSUME NEW k \in 0 .. n - 1, k \in Typed
       PROVE  k + 1 \in Typed
  <2>1. /\ h[n + 1 - k] \in T /\ k + 1 \in 0 .. n
        /\ n + 1 - (k + 1) \in 1 .. n /\ (n + 1 - (k + 1)) + 1 = n + 1 - k
    BY <1>1, <1>10
  <2>2. h[n + 1 - (k + 1)] = On(h[n + 1 - k], n + 1 - (k + 1))
    BY <1>9, <2>1
  <2> QED
    BY <1>3, <2>1, <2>2
<1>11. 0 .. n \subseteq Typed
  <2>1. 0 \in Typed
    <3>1. 0 \in 0 .. n /\ n + 1 - 0 = n + 1
      BY <1>1
    <3> QED
      BY <1>2, <1>9, <3>1
  <2> HIDE DEF Typed
  <2> QED
    BY <1>1, <1>10, <2>1, UpTo
<1>12. ASSUME NEW l \in 1 .. n + 1
       PROVE  h[l] \in T
  <2>1. n + 1 - l \in 0 .. n /\ n + 1 - (n + 1 - l) = l
    BY <1>1
  <2>2. n + 1 - l \in Typed
    BY <1>11, <2>1
  <2> QED
    BY <2>1, <2>2
<1> QED
  BY <1>1, <1>9, <1>12 DEF h, n, T, On

(* Two stacks of groups have their first i groups in common, and the groups of
   a stack from the i-th on are all visible.                                *)
InCommon(s, t, i) == i <= Len(s) /\ i <= Len(t) /\ \A m \in 1 .. i : s[m] = t[m]
ShownFrom(visible, open, i) == \A m \in i .. Len(open) : visible[open[m]]

(* Canvas i of the stack at entry k is that of the i-1 groups that are open around
   it: what is on it is in those, and is visible inside them.                *)
OnlySeen(doc, visible, open, stack, k) ==
  \A i \in 1 .. Len(stack) : \A l \in stack[i].drawn :
    /\ l \in k .. Len(doc) /\ visible[l]
    /\ InCommon(OpenAfter(doc)[l - 1], open, i - 1)
    /\ ShownFrom(visible, OpenAfter(doc)[l - 1], i)

(* And what is visible inside them is on it. *)
Solid(e) == e.kind = "layer" /\ e.pixels /\ ~e.clipping
AllSeen(doc, visible, open, stack, k) ==
  \A l \in k .. Len(doc) : Solid(doc[l]) =>
    \E i \in 1 .. Len(stack) :
      /\ InCommon(OpenAfter(doc)[l - 1], open, i - 1)
      /\ visible[l] /\ ShownFrom(visible, OpenAfter(doc)[l - 1], i) => l \in stack[i].drawn

Composed(doc, visible, open, stack, k) ==
  /\ Len(stack) = Len(open) + 1
  /\ OnlySeen(doc, visible, open, stack, k) /\ AllSeen(doc, visible, open, stack, k)

LEMMA LayerComposes ==
  ASSUME NEW doc \in Seq(Entry), NEW visible \in [DOMAIN doc -> BOOLEAN], NEW k \in DOMAIN doc,
         NEW open \in Seq(DOMAIN doc), open = OpenAfter(doc)[k - 1],
         NEW stack \in Stacks(doc), doc[k].kind = "layer",
         Composed(doc, visible, open, stack, k + 1)
  PROVE  Composed(doc, visible, open, DrawOnStack(stack, doc[k], k, visible[k]), k)
<1> DEFINE drawn == DrawOnStack(stack, doc[k], k, visible[k])
           n == Len(stack)
           o == OpenAfter(doc)
           top == DrawLayer(stack[n], doc[k], k, visible[k])
<1>1. /\ n \in Nat /\ Len(open) \in Nat /\ n = Len(open) + 1 /\ n \in 1 .. n
      /\ k \in 1 .. Len(doc) /\ Len(doc) \in Nat /\ visible[k] \in BOOLEAN
      /\ stack \in Seq(CanvasesOf(doc))
  BY DEF Composed, Stacks
<1>2. /\ Len(drawn) = n /\ \A i \in 1 .. n - 1 : drawn[i] = stack[i]
      /\ drawn[n] = top
  BY <1>1, LayerOnStack
<1>3. /\ stack[n].drawn \subseteq top.drawn
      /\ top.drawn \subseteq stack[n].drawn \cup (IF visible[k] THEN {k} ELSE {})
      /\ visible[k] /\ doc[k].pixels /\ ~doc[k].clipping => k \in top.drawn
  <2>1. stack[n] \in CanvasesOf(doc)
    BY <1>1
  <2> QED
    BY <1>1, <2>1, LayerDrawn
<1>4. InCommon(o[k - 1], open, n - 1) /\ ShownFrom(visible, o[k - 1], n)
  BY <1>1 DEF InCommon, ShownFrom
<1> HIDE DEF drawn, top, o
<1>5. \A i \in 1 .. n : stack[i].drawn \subseteq drawn[i].drawn
                       /\ drawn[i].drawn \subseteq stack[i].drawn \cup
                                     (IF i = n /\ visible[k] THEN {k} ELSE {})
  <2> SUFFICES ASSUME NEW i \in 1 .. n
               PROVE  stack[i].drawn \subseteq drawn[i].drawn
                       /\ drawn[i].drawn \subseteq stack[i].drawn \cup
                                     (IF i = n /\ visible[k] THEN {k} ELSE {})
    OBVIOUS
  <2>1. CASE i = n
    BY <1>2, <1>3, <2>1
  <2>2. CASE i # n
    <3>1. i \in 1 .. n - 1
      BY <1>1, <2>2
    <3> QED
      BY <1>2, <2>2, <3>1
  <2> QED
    BY <2>1, <2>2
<1>10. \A i \in 1 .. n : \A l \in stack[i].drawn :
         /\ l \in k + 1 .. Len(doc) /\ visible[l]
         /\ InCommon(o[l - 1], open, i - 1) /\ ShownFrom(visible, o[l - 1], i)
  BY DEF Composed, OnlySeen, o
<1>6. OnlySeen(doc, visible, open, drawn, k)
  <2> SUFFICES ASSUME NEW i \in 1 .. n, NEW l \in drawn[i].drawn
               PROVE  /\ l \in k .. Len(doc) /\ visible[l]
                      /\ InCommon(o[l - 1], open, i - 1) /\ ShownFrom(visible, o[l - 1], i)
    BY <1>2 DEF OnlySeen, o
  <2>1. CASE l \in stack[i].drawn
    <3>1. l \in k .. Len(doc)
      <4>1. l \in k + 1 .. Len(doc)
        BY <1>10, <2>1
      <4> QED
        BY <1>1, <4>1
    <3> QED
      BY <1>10, <2>1, <3>1
  <2>2. CASE l \notin stack[i].drawn
    <3>1. i = n /\ visible[k] /\ l = k
      BY <1>5, <2>2
    <3> QED
      BY <1>1, <1>4, <3>1
  <2> QED
    BY <2>1, <2>2
<1>7. AllSeen(doc, visible, open, drawn, k)
  <2> SUFFICES ASSUME NEW l \in k .. Len(doc), Solid(doc[l])
               PROVE  \E i \in 1 .. n :
                        /\ InCommon(o[l - 1], open, i - 1)
                        /\ visible[l] /\ ShownFrom(visible, o[l - 1], i) => l \in drawn[i].drawn
    BY <1>2 DEF AllSeen, o
  <2>1. CASE l = k
    <3>1. visible[l] => l \in drawn[n].drawn
      BY <1>2, <1>3, <2>1 DEF Solid
    <3> QED
      BY <1>1, <1>4, <2>1, <3>1
  <2>2. CASE l # k
    <3>1. l \in k + 1 .. Len(doc)
      BY <1>1, <2>2
    <3>2. PICK i \in 1 .. n :
            /\ InCommon(o[l - 1], open, i - 1)
            /\ visible[l] /\ ShownFrom(visible, o[l - 1], i) => l \in stack[i].drawn
      BY <3>1 DEF Composed, AllSeen, o
    <3> QED
      BY <1>5, <3>2
  <2> QED
    BY <2>1, <2>2
<1> QED
  BY <1>1, <1>2, <1>6, <1>7 DEF Composed, drawn

LEMMA DividerComposes ==
  ASSUME NEW doc \in Seq(Entry), NEW visible \in [DOMAIN doc -> BOOLEAN], NEW k \in DOMAIN doc,
         NEW open \in Seq(DOMAIN doc), open # <<>>,
         NEW stack \in Stacks(doc), doc[k].kind = "divider",
         Composed(doc, visible, Front(open), stack, k + 1)
  PROVE  Composed(doc, visible, open, DrawOnStack(stack, doc[k], k, visible[k]), k)
<1> DEFINE drawn == DrawOnStack(stack, doc[k], k, visible[k])
           n == Len(stack)
           o == OpenAfter(doc)
           front == Front(open)
<1>1. /\ n \in Nat /\ Len(open) \in Nat /\ n = Len(open)
      /\ Len(front) = n - 1 /\ \A m \in 1 .. n - 1 : front[m] = open[m]
      /\ k \in 1 .. Len(doc) /\ Len(doc) \in Nat
  <2>1. /\ Len(open) \in Nat /\ Len(front) = Len(open) - 1
        /\ \A m \in 1 .. Len(open) - 1 : front[m] = open[m]
    <3>1. Len(open) \in Nat
      OBVIOUS
    <3> QED
      BY <3>1, FrontIs, Zenon
  <2>2. n = Len(front) + 1
    BY DEF Composed
  <2> QED
    BY <2>1, <2>2
<1>2. /\ Len(drawn) = n + 1 /\ \A i \in 1 .. n : drawn[i] = stack[i]
      /\ drawn[n + 1].drawn = {}
  BY <1>1, DividerOnStack
<1> HIDE DEF drawn, o, front
<1>3. ASSUME NEW s, NEW i \in 1 .. n, InCommon(s, front, i - 1)
      PROVE  InCommon(s, open, i - 1)
  <2>1. i - 1 <= Len(open) /\ \A m \in 1 .. i - 1 : m \in 1 .. n - 1
    BY <1>1
  <2> QED
    BY <1>1, <1>3, <2>1 DEF InCommon
<1>4. \A i \in 1 .. n : \A l \in stack[i].drawn :
         /\ l \in k + 1 .. Len(doc) /\ visible[l]
         /\ InCommon(o[l - 1], front, i - 1) /\ ShownFrom(visible, o[l - 1], i)
  BY DEF Composed, OnlySeen, o, front
<1>5. OnlySeen(doc, visible, open, drawn, k)
  <2> SUFFICES ASSUME NEW i \in 1 .. n + 1, NEW l \in drawn[i].drawn
               PROVE  /\ l \in k .. Len(doc) /\ visible[l]
                      /\ InCommon(o[l - 1], open, i - 1) /\ ShownFrom(visible, o[l - 1], i)
    BY <1>2 DEF OnlySeen, o
  <2>1. i \in 1 .. n /\ l \in stack[i].drawn
    BY <1>1, <1>2
  <2>2. l \in k .. Len(doc)
    <3>1. l \in k + 1 .. Len(doc)
      BY <1>4, <2>1
    <3> QED
      BY <1>1, <3>1
  <2>3. InCommon(o[l - 1], open, i - 1)
    BY <1>3, <1>4, <2>1
  <2> QED
    BY <1>4, <2>1, <2>2, <2>3
<1>6. AllSeen(doc, visible, open, drawn, k)
  <2> SUFFICES ASSUME NEW l \in k .. Len(doc), Solid(doc[l])
               PROVE  \E i \in 1 .. n + 1 :
                        /\ InCommon(o[l - 1], open, i - 1)
                        /\ visible[l] /\ ShownFrom(visible, o[l - 1], i) => l \in drawn[i].drawn
    BY <1>2 DEF AllSeen, o
  <2>1. l \in k + 1 .. Len(doc)
    BY <1>1 DEF Solid
  <2>2. PICK i \in 1 .. n :
          /\ InCommon(o[l - 1], front, i - 1)
          /\ visible[l] /\ ShownFrom(visible, o[l - 1], i) => l \in stack[i].drawn
    BY <2>1 DEF Composed, AllSeen, o, front
  <2>3. i \in 1 .. n + 1
    BY <1>1
  <2> QED
    BY <1>2, <1>3, <2>2, <2>3
<1> QED
  BY <1>1, <1>2, <1>5, <1>6 DEF Composed, drawn

LEMMA GroupComposes ==
  ASSUME NEW doc \in Seq(Entry), NEW visible \in [DOMAIN doc -> BOOLEAN], NEW k \in DOMAIN doc,
         NEW open \in Seq(DOMAIN doc),
         NEW stack \in Stacks(doc), OpensGroup(doc[k]),
         Composed(doc, visible, Append(open, k), stack, k + 1)
  PROVE  Composed(doc, visible, open, DrawOnStack(stack, doc[k], k, visible[k]), k)
<1> DEFINE drawn == DrawOnStack(stack, doc[k], k, visible[k])
           n == Len(stack)
           o == OpenAfter(doc)
           inner == Append(open, k)
<1>1. /\ n \in Nat /\ Len(open) \in Nat /\ n = Len(open) + 2
      /\ Len(inner) = n - 1 /\ \A m \in 1 .. n - 2 : inner[m] = open[m]
      /\ inner[n - 1] = k /\ n > 1
      /\ k \in 1 .. Len(doc) /\ Len(doc) \in Nat /\ visible[k] \in BOOLEAN
  <2>1. /\ Len(open) \in Nat /\ Len(inner) = Len(open) + 1
        /\ \A m \in 1 .. Len(open) : inner[m] = open[m]
        /\ inner[Len(open) + 1] = k
    BY AppendProperties
  <2>2. n = Len(inner) + 1
    BY DEF Composed
  <2> QED
    BY <2>1, <2>2
<1>2. /\ Len(drawn) = n - 1 /\ \A i \in 1 .. n - 2 : drawn[i] = stack[i]
      /\ drawn[n - 1] = DrawGroup(stack[n - 1], stack[n], visible[k])
  BY <1>1, GroupOnStack
<1>3. drawn[n - 1].drawn = IF visible[k] THEN stack[n - 1].drawn \cup stack[n].drawn
                           ELSE stack[n - 1].drawn
  <2>1. stack[n - 1] \in CanvasesOf(doc) /\ stack[n] \in CanvasesOf(doc)
    BY <1>1 DEF Stacks
  <2> HIDE DEF drawn
  <2>2. DrawGroup(stack[n - 1], stack[n], visible[k]).drawn
          = IF visible[k] THEN stack[n - 1].drawn \cup stack[n].drawn ELSE stack[n - 1].drawn
    BY <2>1 DEF DrawGroup, CanvasesOf
  <2> QED
    BY <1>2, <2>2
<1> HIDE DEF drawn, o, inner
<1>4. ASSUME NEW s, NEW i \in 1 .. n - 1, InCommon(s, inner, i - 1)
      PROVE  InCommon(s, open, i - 1)
  <2>1. i - 1 <= Len(open) /\ \A m \in 1 .. i - 1 : m \in 1 .. n - 2
    BY <1>1
  <2> QED
    BY <1>1, <1>4, <2>1 DEF InCommon
<1>5. \A s : InCommon(s, inner, n - 1) => InCommon(s, open, n - 2) /\ s[n - 1] = k
  BY <1>1 DEF InCommon
<1>6. \A i \in 1 .. n : \A l \in stack[i].drawn :
         /\ l \in k + 1 .. Len(doc) /\ visible[l]
         /\ InCommon(o[l - 1], inner, i - 1) /\ ShownFrom(visible, o[l - 1], i)
  BY DEF Composed, OnlySeen, o, inner
<1>7. \A i \in 1 .. n - 1 : stack[i].drawn \subseteq drawn[i].drawn
  <2> SUFFICES ASSUME NEW i \in 1 .. n - 1 PROVE stack[i].drawn \subseteq drawn[i].drawn
    OBVIOUS
  <2>1. CASE i = n - 1
    BY <1>3, <2>1
  <2>2. CASE i # n - 1
    <3>1. i \in 1 .. n - 2
      BY <1>1, <2>2
    <3> QED
      BY <1>2, <3>1
  <2> QED
    BY <2>1, <2>2
<1>8. OnlySeen(doc, visible, open, drawn, k)
  <2> SUFFICES ASSUME NEW i \in 1 .. n - 1, NEW l \in drawn[i].drawn
               PROVE  /\ l \in k .. Len(doc) /\ visible[l]
                      /\ InCommon(o[l - 1], open, i - 1) /\ ShownFrom(visible, o[l - 1], i)
    BY <1>2 DEF OnlySeen, o
  <2>1. CASE l \in stack[i].drawn
    <3>1. i \in 1 .. n
      BY <1>1
    <3>2. l \in k + 1 .. Len(doc)
      BY <1>6, <2>1, <3>1
    <3> QED
      BY <1>1, <1>4, <1>6, <2>1, <3>1, <3>2
  <2>2. CASE l \notin stack[i].drawn
    <3>1. i = n - 1 /\ visible[k] /\ l \in stack[n].drawn
      <4>1. i \notin 1 .. n - 2
        BY <1>2, <2>2
      <4>2. i \in Int /\ 1 <= i /\ i <= n - 1 /\ ~(i <= n - 2)
        BY <1>1, <4>1
      <4>3. i = n - 1
        BY <1>1, <4>2
      <4> QED
        BY <1>3, <2>2, <4>3
    <3>2. n \in 1 .. n
      BY <1>1
    <3>3. /\ l \in k + 1 .. Len(doc) /\ visible[l]
          /\ InCommon(o[l - 1], inner, n - 1) /\ ShownFrom(visible, o[l - 1], n)
      BY <1>6, <3>1, <3>2
    <3>4. ShownFrom(visible, o[l - 1], n - 1)
      <4>1. o[l - 1][n - 1] = k
        BY <1>5, <3>3
      <4>2. \A m : m \in n - 1 .. Len(o[l - 1]) => m = n - 1 \/ m \in n .. Len(o[l - 1])
        BY <1>1
      <4> QED
        BY <3>1, <3>3, <4>1, <4>2 DEF ShownFrom
    <3> QED
      BY <1>1, <1>5, <3>1, <3>3, <3>4
  <2> QED
    BY <2>1, <2>2
<1>9. AllSeen(doc, visible, open, drawn, k)
  <2> SUFFICES ASSUME NEW l \in k .. Len(doc), Solid(doc[l])
               PROVE  \E i \in 1 .. n - 1 :
                        /\ InCommon(o[l - 1], open, i - 1)
                        /\ visible[l] /\ ShownFrom(visible, o[l - 1], i) => l \in drawn[i].drawn
    BY <1>2 DEF AllSeen, o
  <2>1. l \in k + 1 .. Len(doc)
    BY <1>1 DEF Solid, OpensGroup
  <2>2. PICK i \in 1 .. n :
          /\ InCommon(o[l - 1], inner, i - 1)
          /\ visible[l] /\ ShownFrom(visible, o[l - 1], i) => l \in stack[i].drawn
    BY <2>1 DEF Composed, AllSeen, o, inner
  <2>3. CASE i < n
    <3>1. i \in 1 .. n - 1
      BY <1>1, <2>3
    <3> QED
      BY <1>4, <1>7, <2>2, <3>1
  <2>4. CASE i = n
    <3>1. InCommon(o[l - 1], open, (n - 1) - 1) /\ o[l - 1][n - 1] = k
      <4>1. n - 2 = (n - 1) - 1
        BY <1>1
      <4> QED
        BY <1>5, <2>2, <2>4, <4>1
    <3>2. ASSUME visible[l], ShownFrom(visible, o[l - 1], n - 1)
          PROVE  l \in drawn[n - 1].drawn
      <4>1. n - 1 \in n - 1 .. Len(o[l - 1])
        BY <1>1, <2>2, <2>4 DEF InCommon
      <4>2. visible[k]
        BY <3>1, <3>2, <4>1 DEF ShownFrom
      <4>3. ShownFrom(visible, o[l - 1], n)
        <5>1. ASSUME NEW m \in n .. Len(o[l - 1])
              PROVE  m \in n - 1 .. Len(o[l - 1])
          BY <1>1
        <5> QED
          BY <3>2, <5>1 DEF ShownFrom
      <4>4. l \in stack[n].drawn
        BY <2>2, <2>4, <3>2, <4>3
      <4> QED
        BY <1>3, <4>2, <4>4
    <3>3. n - 1 \in 1 .. n - 1
      BY <1>1
    <3> QED
      BY <3>1, <3>2, <3>3
  <2> QED
    BY <1>1, <2>3, <2>4
<1> QED
  BY <1>1, <1>2, <1>8, <1>9 DEF Composed, drawn

(* Before every entry of a document whose groups nest. *)
LEMMA EntriesCompose ==
  ASSUME NEW doc \in Seq(Entry), Nests(doc), NEW visible \in [DOMAIN doc -> BOOLEAN],
         NEW k \in 1 .. Len(doc) + 1
  PROVE  Composed(doc, visible, OpenAfter(doc)[k - 1], Canvases(doc, visible)[k], k)
<1> DEFINE n == Len(doc)
           o == OpenAfter(doc)
           c == Canvases(doc, visible)
           At(l) == Composed(doc, visible, o[l - 1], c[l], l)
           Done == {j \in 0 .. n : At(n + 1 - j)}
<1>1. n \in Nat /\ DOMAIN doc = 1 .. n
  OBVIOUS
<1>2. /\ o \in [0 .. n -> Seq(DOMAIN doc)]
      /\ \A l \in 1 .. n : o[l] = Enter(doc, o[l - 1], l)
      /\ o[n] = <<>> /\ \A l \in 1 .. n : doc[l].kind = "divider" => o[l - 1] # <<>>
  <2>1. /\ o \in [0 .. n -> Seq(DOMAIN doc)]
        /\ \A l \in DOMAIN doc : o[l] = Enter(doc, o[l - 1], l)
    BY OpenIs
  <2>2. o[n] = <<>> /\ \A l \in DOMAIN doc : doc[l].kind = "divider" => o[l - 1] # <<>>
    BY DEF Nests
  <2> HIDE DEF o, n
  <2> QED
    BY <1>1, <2>1, <2>2
<1>3. /\ \A l \in 1 .. n + 1 : c[l] \in Stacks(doc)
      /\ c[n + 1] = <<Canvas>>
      /\ \A l \in 1 .. n : c[l] = DrawOnStack(c[l + 1], doc[l], l, visible[l])
  BY CanvasesAre
<1> HIDE DEF o, c, n
<1>4. 0 \in Done
  <2>1. n + 1 - 0 = n + 1 /\ (n + 1) - 1 = n /\ 0 \in 0 .. n
    BY <1>1
  <2>2. Len(<<Canvas>>) = 1 /\ <<Canvas>>[1].drawn = {} /\ Len(<<>>) = 0
    BY DEF Canvas
  <2>3. OnlySeen(doc, visible, <<>>, <<Canvas>>, n + 1)
    BY <2>2 DEF OnlySeen
  <2>4. AllSeen(doc, visible, <<>>, <<Canvas>>, n + 1)
    BY <1>1 DEF AllSeen, n
  <2>5. Composed(doc, visible, <<>>, <<Canvas>>, n + 1)
    BY <2>2, <2>3, <2>4 DEF Composed
  <2> QED
    BY <1>2, <1>3, <2>1, <2>5
<1>5. ASSUME NEW l \in 1 .. n, At(l + 1)
      PROVE  At(l)
  <2>1. (l + 1) - 1 = l /\ l - 1 \in 0 .. n /\ l \in DOMAIN doc /\ l + 1 \in 1 .. n + 1
    BY <1>1
  <2>2. /\ o[l - 1] \in Seq(DOMAIN doc) /\ c[l + 1] \in Stacks(doc)
        /\ o[l] = Enter(doc, o[l - 1], l)
        /\ c[l] = DrawOnStack(c[l + 1], doc[l], l, visible[l])
        /\ Composed(doc, visible, o[l], c[l + 1], l + 1)
    BY <1>2, <1>3, <1>5, <2>1
  <2>3. doc[l].kind \in {"layer", "open", "closed", "divider"}
    <3>1. doc[l] \in Entry
      BY <2>1
    <3> QED
      BY <3>1 DEF Entry
  <2>4. CASE doc[l].kind = "layer"
    <3>1. o[l] = o[l - 1]
      BY <2>2, <2>4, EnterIs DEF OpensGroup
    <3>2. Composed(doc, visible, o[l - 1], c[l + 1], l + 1)
      BY <2>2, <3>1
    <3> QED
      BY <2>1, <2>2, <2>4, <3>2, LayerComposes DEF o
  <2>5. CASE doc[l].kind = "divider"
    <3>1. o[l - 1] # <<>>
      BY <1>2, <2>5
    <3>2. o[l] = Front(o[l - 1])
      BY <2>2, <2>5, <3>1, EnterIs
    <3>3. Composed(doc, visible, Front(o[l - 1]), c[l + 1], l + 1)
      BY <2>2, <3>2
    <3> QED
      BY <2>1, <2>2, <2>5, <3>1, <3>3, DividerComposes
  <2>6. CASE OpensGroup(doc[l])
    <3>1. o[l] = Append(o[l - 1], l)
      BY <2>2, <2>6, EnterIs
    <3>2. Composed(doc, visible, Append(o[l - 1], l), c[l + 1], l + 1)
      BY <2>2, <3>1
    <3> QED
      BY <2>1, <2>2, <2>6, <3>2, GroupComposes
  <2> QED
    BY <2>3, <2>4, <2>5, <2>6 DEF OpensGroup
<1> HIDE DEF At
<1>6. ASSUME NEW j \in 0 .. n - 1, j \in Done
      PROVE  j + 1 \in Done
  <2>1. n + 1 - (j + 1) \in 1 .. n /\ (n + 1 - (j + 1)) + 1 = n + 1 - j /\ j + 1 \in 0 .. n
    BY <1>1
  <2> QED
    BY <1>5, <1>6, <2>1
<1>7. 0 .. n \subseteq Done
  <2> HIDE DEF Done
  <2> QED
    BY <1>1, <1>4, <1>6, UpTo
<1>8. n + 1 - k \in 0 .. n /\ n + 1 - (n + 1 - k) = k
  BY <1>1 DEF n
<1>9. At(k)
  BY <1>7, <1>8
<1> QED
  BY <1>9 DEF At, o, c

(* What the compositor draws of a document whose groups nest is what the panel
   says is to be seen, whatever is visible, for any number of entries and any
   depth of groups (render.ts:154-347, layerUtils.ts:9-58).                 *)
THEOREM CompositorDoesAgree ==
  ASSUME NEW docs \in SUBSET Seq(Entry), \A doc \in docs : Nests(doc)
  PROVE  CompositorAgrees(docs)
<1> SUFFICES ASSUME NEW doc \in docs, NEW visible \in [DOMAIN doc -> BOOLEAN]
             PROVE  Depicts(Picture(doc, visible), doc, visible)
  BY DEF CompositorAgrees
<1> DEFINE o == OpenAfter(doc)
           c == Canvases(doc, visible)
<1>1. doc \in Seq(Entry) /\ Nests(doc) /\ Len(doc) \in Nat /\ DOMAIN doc = 1 .. Len(doc)
  OBVIOUS
<1>2. 1 \in 1 .. Len(doc) + 1 /\ 1 - 1 = 0
  BY <1>1
<1>3. o[0] = <<>> /\ \A l \in 1 .. Len(doc) : o[l - 1] \in Seq(DOMAIN doc)
  <2>1. \A l \in 1 .. Len(doc) : l - 1 \in 0 .. Len(doc)
    BY <1>1
  <2> QED
    BY <1>1, <2>1, OpenIs
<1>4. Composed(doc, visible, o[0], c[1], 1)
  <2>1. Composed(doc, visible, o[1 - 1], c[1], 1)
    BY <1>1, <1>2, EntriesCompose
  <2> QED
    BY <1>2, <2>1
<1> HIDE DEF o, c
<1>5. Len(c[1]) = 1 /\ 1 \in 1 .. Len(c[1])
  BY <1>3, <1>4 DEF Composed
<1>6. Picture(doc, visible) = c[1][1].drawn
  BY DEF Picture, c
<1>7. ASSUME NEW l \in 1 .. Len(doc)
      PROVE  Seen(doc, visible, l) <=> visible[l] /\ ShownFrom(visible, o[l - 1], 1)
  <2>1. DOMAIN o[l - 1] = 1 .. Len(o[l - 1])
    BY <1>3
  <2>2. Groups(doc, l) = {o[l - 1][m] : m \in 1 .. Len(o[l - 1])}
    BY <2>1 DEF Groups, Range, o
  <2> QED
    BY <2>2 DEF Seen, ShownFrom
<1>8. ASSUME NEW l \in c[1][1].drawn
      PROVE  Seen(doc, visible, l)
  BY <1>4, <1>5, <1>7 DEF Composed, OnlySeen, o
<1>9. ASSUME NEW l \in 1 .. Len(doc), doc[l].kind = "layer", doc[l].pixels, ~doc[l].clipping,
             Seen(doc, visible, l)
      PROVE  l \in c[1][1].drawn
  <2>1. PICK i \in 1 .. Len(c[1]) : visible[l] /\ ShownFrom(visible, o[l - 1], i) => l \in c[1][i].drawn
    BY <1>4, <1>9 DEF Composed, AllSeen, Solid, o
  <2>2. i = 1
    BY <1>5
  <2> QED
    BY <1>7, <1>9, <2>1, <2>2
<1> QED
  BY <1>1, <1>6, <1>8, <1>9 DEF Depicts

-----------------------------------------------------------------------------
(* When no message is under way the canvas shows the file of the viewer with the
   layers last asked for, if the groups of the documents nest, in whatever order
   toggles, thumbnails, loads and other files come (renderWorker.ts:66-73,
   psd.worker.ts:128-143).                                                  *)
THEOREM PictureAsAsked ==
  ASSUME \A doc \in Documents : Nests(doc)
  PROVE  PsdSpec => []ShowsWhatWasAsked
<1>0. CompositorAgrees(Documents)
  BY DocumentsAssumption, CompositorDoesAgree
<1>1. ASSUME PsdInv PROVE ShowsWhatWasAsked
  <2> SUFFICES ASSUME Quiet
               PROVE  /\ viewer.canvas.of = viewer.file /\ viewer.tree = viewer.file
                      /\ ~viewer.rendering
                      /\ Depicts(Picture(Doc, viewer.canvas.visible), Doc, viewer.wanted)
    BY DEF ShowsWhatWasAsked
  <2>1. ViewerInv /\ ~viewer.loading /\ inbox = <<>> /\ outbox = <<>>
    BY <1>1 DEF PsdInv, Quiet
  <2>2. DOMAIN inbox = {} /\ DOMAIN outbox = {}
    BY <2>1
  <2>3. viewer.canvas = [of |-> viewer.file, visible |-> worker.visible]
    BY <2>1, <2>2 DEF ViewerInv, DrawnIsShown
  <2>4. viewer.tree = viewer.file /\ ~viewer.rendering
    BY <2>1, <2>2 DEF ViewerInv, TreeComesFirst, PictureComes
  <2>5. Drawing
    BY <2>1 DEF ViewerInv, LoadFirst, Drawing
  <2>6. viewer.wanted \in Show /\ worker.visible \in Show /\ Doc \in Documents
    BY <2>1, <2>5 DEF ViewerInv, PsdTypes
  <2>7. viewer.wanted = worker.visible
    <3>1. \A l \in DOMAIN Doc : viewer.wanted[l] = worker.visible[l]
      BY <2>1, <2>2, <2>5 DEF ViewerInv, WantedIsAsked
    <3> QED
      BY <2>6, <3>1 DEF Show
  <2>8. Depicts(Picture(Doc, viewer.wanted), Doc, viewer.wanted)
    BY <1>0, <2>6 DEF CompositorAgrees, Show
  <2>9. viewer.canvas.of = viewer.file /\ viewer.canvas.visible = viewer.wanted
    BY <2>3, <2>7
  <2> QED
    BY <2>4, <2>8, <2>9
<1> QED
  BY <1>1, ViewerInvariantHolds, PTL

===============================================================================
