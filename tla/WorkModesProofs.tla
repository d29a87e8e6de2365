--------------------------- MODULE WorkModesProofs ---------------------------
(***************************************************************************)
(* Theorems about the editor and the work modes (LadderDesigner,           *)
(* WorkModes), for every number of networks, of commands and of restarts   *)
(* and for all programs that are uploaded.                                 *)
(*                                                                         *)
(* The first part is about who may debug and edit the program: ModesInv,   *)
(* over the flag in RTC memory and the bits of the modes.  The second part *)
(* is about the program itself: LadderInv, over the networks, the view,    *)
(* the file and what is still to be written.  Its lemmas follow the code:  *)
(* what one network, then all of them, the records, each button, each end  *)
(* of an editing, the loading and the start do.                            *)
(***************************************************************************)
EXTENDS WorkModes, SequenceLemmas

\* The debug flag is explained by what was asked for.
Explained == "Debug" \in asked \/ {"Stop", "Run"} \subseteq asked

\* The program is edited in Run, and no change of the mode came later.
EditedInRun == in_design /\ work_mode # "Stop" /\ ~overtaken

\* What the debug flag may be, in the RTC memory and in the writes to it.
DebugFlags == {d \in BOOLEAN : (d => Explained) /\ (EditedInRun => d)}

Record(r, flags) ==
  /\ r = [view |-> r.view, selected |-> r.selected, debug |-> r.debug, valid |-> r.valid]
  /\ r.debug \in flags

Pending(w, flags) ==
  /\ \E T : w \in Seq(T)
  /\ \A i \in DOMAIN w : w[i].to = "hotreload" => Record(w[i].value, flags)

BitsAreAsked ==
  /\ 0 \in bits => "Stop" \in asked \/ "Debug" \in asked
  /\ 1 \in bits => "Run" \in asked \/ "Debug" \in asked

ModesInv ==
  /\ Record(hotreload, DebugFlags)
  /\ Pending(writes, DebugFlags)
  /\ BitsAreAsked
  /\ request.kind = "mode" => request.mode \in Modes
  /\ device # "on" => ~in_design
-----------------------------------------------------------------------------
(* Writes *)

\* More flags allow more writes.
LEMMA PendingMonotone ==
  ASSUME NEW w, NEW F, NEW G, F \subseteq G, Pending(w, F)
  PROVE  Pending(w, G)
  BY DEF Pending, Record

LEMMA NothingPending ==
  ASSUME NEW F
  PROVE  Pending(<<>>, F)
<1>1. <<>> \in Seq({})
  OBVIOUS
<1> QED
  BY <1>1 DEF Pending

LEMMA OnePending ==
  ASSUME NEW F, NEW e, e.to = "hotreload" => Record(e.value, F)
  PROVE  Pending(<<e>>, F)
<1>1. <<e>> \in Seq({e}) /\ DOMAIN <<e>> = {1} /\ <<e>>[1] = e
  OBVIOUS
<1> QED
  BY <1>1 DEF Pending

\* Writes that follow others.
LEMMA PendingConcat ==
  ASSUME NEW F, NEW u, NEW w, Pending(u, F), Pending(w, F)
  PROVE  Pending(u \o w, F)
<1>1. PICK T : u \in Seq(T)
  BY DEF Pending
<1>2. PICK U : w \in Seq(U)
  BY DEF Pending
<1>3. /\ u \in Seq(T \cup U) /\ w \in Seq(T \cup U)
  BY <1>1, <1>2
<1>4. /\ u \o w \in Seq(T \cup U)
      /\ Len(u \o w) = Len(u) + Len(w)
      /\ \A i \in 1..(Len(u) + Len(w)) : (u \o w)[i] =
            IF i <= Len(u) THEN u[i] ELSE w[i - Len(u)]
  BY <1>3, ConcatProperties
<1>5. Len(u) \in Nat /\ Len(w) \in Nat /\ DOMAIN u = 1..Len(u) /\ DOMAIN w = 1..Len(w)
      /\ DOMAIN (u \o w) = 1..(Len(u) + Len(w))
  BY <1>1, <1>2, <1>4
<1>6. ASSUME NEW i \in DOMAIN (u \o w), (u \o w)[i].to = "hotreload"
      PROVE  Record((u \o w)[i].value, F)
  <2>1. CASE i <= Len(u)
    <3>1. i \in DOMAIN u /\ (u \o w)[i] = u[i]
      BY <1>4, <1>5, <2>1
    <3> QED
      BY <1>6, <3>1 DEF Pending
  <2>2. CASE i > Len(u)
    <3>1. i - Len(u) \in DOMAIN w /\ (u \o w)[i] = w[i - Len(u)]
      BY <1>4, <1>5, <2>2
    <3> QED
      BY <1>6, <3>1 DEF Pending
  <2> QED
    BY <1>5, <2>1, <2>2
<1> QED
  BY <1>4, <1>6 DEF Pending

\* The first write is done, the others are left.
LEMMA PendingTail ==
  ASSUME NEW F, NEW w, w # <<>>, Pending(w, F)
  PROVE  /\ Pending(Tail(w), F)
         /\ Head(w).to = "hotreload" => Record(Head(w).value, F)
<1>1. PICK T : w \in Seq(T)
  BY DEF Pending
<1>2. /\ Tail(w) \in Seq(T) /\ Len(w) \in Nat \ {0} /\ DOMAIN w = 1..Len(w)
      /\ DOMAIN Tail(w) = 1..(Len(w) - 1)
      /\ \A i \in 1..(Len(w) - 1) : Tail(w)[i] = w[i + 1] /\ i + 1 \in DOMAIN w
      /\ Head(w) = w[1] /\ 1 \in DOMAIN w
  BY <1>1, HeadTailProperties
<1>3. \A i \in DOMAIN Tail(w) : Tail(w)[i].to = "hotreload" => Record(Tail(w)[i].value, F)
  BY <1>2 DEF Pending
<1> QED
  BY <1>2, <1>3 DEF Pending

\* store_hotreload writes a record that may be written.
LEMMA PendingHotreload ==
  ASSUME NEW F, NEW r, Record(r, F)
  PROVE  Pending(ToHotreload(r), F)
<1> DEFINE e == [to |-> "hotreload", value |-> [r EXCEPT !.valid = TRUE]]
<1>1. Record(e.value, F)
  BY DEF Record
<1>2. Pending(<<e>>, F)
  <2> HIDE DEF e
  <2> QED
    BY <1>1, OnePending
<1> QED
  BY <1>2 DEF ToHotreload

\* Ladder::Store writes no record.
LEMMA PendingStore ==
  ASSUME NEW F, NEW mode, NEW nets
  PROVE  Pending(Store(mode, nets), F)
<1> DEFINE e == [to |-> "file", value |-> Program(mode, nets)]
<1>1. Pending(<<e>>, F)
  <2>1. e.to # "hotreload"
    OBVIOUS
  <2> HIDE DEF e
  <2> QED
    BY <2>1, OnePending
<1> QED
  BY <1>1, NothingPending DEF Store

\* The view and the selection of a record do not touch its flag.
LEMMA RecordView ==
  ASSUME NEW F, NEW r, Record(r, F), NEW view
  PROVE  Record([r EXCEPT !.view = view], F)
<1>1. [r EXCEPT !.view = view]
        = [view |-> view, selected |-> r.selected, debug |-> r.debug, valid |-> r.valid]
  BY DEF Record
<1> QED
  BY <1>1 DEF Record

LEMMA RecordSelected ==
  ASSUME NEW F, NEW r, Record(r, F), NEW selected
  PROVE  Record([r EXCEPT !.selected = selected], F)
<1>1. [r EXCEPT !.selected = selected]
        = [view |-> r.view, selected |-> selected, debug |-> r.debug, valid |-> r.valid]
  BY DEF Record
<1> QED
  BY <1>1 DEF Record

LEMMA RecordValid ==
  ASSUME NEW F, NEW r, Record(r, F), NEW valid
  PROVE  Record([r EXCEPT !.valid = valid], F)
<1>1. [r EXCEPT !.valid = valid]
        = [view |-> r.view, selected |-> r.selected, debug |-> r.debug, valid |-> valid]
  BY DEF Record
<1> QED
  BY <1>1 DEF Record

\* A record whose flag is replaced.
LEMMA RecordDebug ==
  ASSUME NEW F, NEW G, NEW r, Record(r, F), NEW debug \in G
  PROVE  Record([r EXCEPT !.debug = debug], G)
<1>1. [r EXCEPT !.debug = debug]
        = [view |-> r.view, selected |-> r.selected, debug |-> debug, valid |-> r.valid]
  BY DEF Record
<1> QED
  BY <1>1 DEF Record

LEMMA RecordMonotone ==
  ASSUME NEW F, NEW G, NEW r, Record(r, F), r.debug \in G
  PROVE  Record(r, G)
  BY DEF Record
-----------------------------------------------------------------------------
(* The handlers *)

\* What the view and the selection become is written with the flag there is.
LEMMA ShowingPending ==
  ASSUME NEW F, Record(hotreload, F), NEW view, NEW selected
  PROVE  Pending(Showing(view, selected), F)
<1> DEFINE last == [hotreload EXCEPT !.view = IF view = view_top_index THEN @ ELSE view,
                                     !.selected = selected]
           first == IF view = view_top_index THEN <<>> ELSE ToHotreload([hotreload EXCEPT !.view = view])
<1>1. Record(last, F)
  <2> DEFINE shown == [hotreload EXCEPT
                         !.view = IF view = view_top_index THEN hotreload.view ELSE view]
  <2>1. last = [shown EXCEPT !.selected = selected]
    OBVIOUS
  <2>2. Record(shown, F)
    BY RecordView
  <2> HIDE DEF shown, last
  <2> QED
    BY <2>1, <2>2, RecordSelected
<1>2. Pending(ToHotreload(last), F)
  <2> HIDE DEF last
  <2> QED
    BY <1>1, PendingHotreload
<1>3. Pending(first, F)
  BY NothingPending, RecordView, PendingHotreload
<1>4. Showing(view, selected) = first \o ToHotreload(last)
  BY DEF Showing
<1> QED
  <2> HIDE DEF first, last
  <2> QED
    BY <1>2, <1>3, <1>4, PendingConcat

\* The presses leave the mode and the record alone; they write the flag
\* that there is, and open the editor only if they may.
EditKept(F) ==
  /\ hotreload' = hotreload /\ work_mode' = work_mode
  /\ Pending(writes', F)
  /\ in_design' => in_design \/ MayDesign(work_mode, hotreload)

LEMMA FinishKeeps ==
  ASSUME NEW F, Record(hotreload, F), Finish
  PROVE  EditKept(F)
<1> USE DEF EditKept
<1>1. CASE FinishEditing
  <2> DEFINE i == SelectedNetwork
             ended == Ended(networks, i)
             removed == ended[i].content = "empty"
             nets == IF removed THEN RemoveAt(ended, i) ELSE ended
             view == IF removed THEN FitView(nets) ELSE view_top_index
             fitted == [hotreload EXCEPT !.view = IF view = view_top_index THEN @ ELSE view]
             first == IF view = view_top_index THEN <<>> ELSE ToHotreload(fitted)
             last == [fitted EXCEPT !.selected = IF removed THEN 0 ELSE i]
  <2>1. writes' = first \o Store(work_mode, nets) \o ToHotreload(last)
    BY <1>1 DEF FinishEditing
  <2>2. hotreload' = hotreload /\ work_mode' = work_mode /\ ~in_design'
    BY <1>1 DEF FinishEditing
  <2> HIDE DEF i, nets, view, removed
  <2>3. Record(fitted, F)
    <3>1. fitted = [hotreload EXCEPT !.view = IF view = view_top_index THEN hotreload.view ELSE view]
      OBVIOUS
    <3> QED
      BY <3>1, RecordView
  <2> HIDE DEF fitted
  <2>4. Record(last, F)
    BY <2>3, RecordSelected
  <2> HIDE DEF last
  <2>5. Pending(first, F)
    BY <2>3, NothingPending, PendingHotreload
  <2> HIDE DEF first
  <2>6. Pending(first \o Store(work_mode, nets), F)
    BY <2>5, PendingStore, PendingConcat
  <2>7. Pending(writes', F)
    BY <2>1, <2>4, <2>6, PendingHotreload, PendingConcat
  <2> QED
    BY <2>2, <2>7
<1>2. CASE FinishMoving
  BY <1>2, PendingStore DEF FinishMoving
<1>3. CASE FinishCopying
  BY <1>3, PendingStore DEF FinishCopying
<1>4. CASE FinishDeleting
  <2> DEFINE first == IF view_top_index' = view_top_index THEN <<>>
                      ELSE ToHotreload([hotreload EXCEPT !.view = view_top_index'])
  <2>1. writes' = first \o Store(work_mode, networks')
    BY <1>4 DEF FinishDeleting
  <2>2. Pending(first, F)
    BY NothingPending, RecordView, PendingHotreload
  <2> HIDE DEF first
  <2>3. Pending(writes', F)
    BY <2>1, <2>2, PendingStore, PendingConcat
  <2> QED
    BY <1>4, <2>3 DEF FinishDeleting
<1>5. CASE FinishDisabling
  BY <1>5, PendingStore DEF FinishDisabling
<1> QED
  BY <1>1, <1>2, <1>3, <1>4, <1>5 DEF Finish

LEMMA ScrollPending ==
  ASSUME NEW F, Record(hotreload, F), NEW i, NEW to, Scroll(i, to)
  PROVE  Pending(writes', F)
  BY NothingPending, ShowingPending DEF Scroll

LEMMA ButtonsKeep ==
  ASSUME NEW F, Record(hotreload, F), Buttons
  PROVE  EditKept(F)
<1> USE DEF EditKept
<1>1. CASE ScrollView
  BY <1>1, RecordView, PendingHotreload DEF ScrollView
<1>2. CASE SelectUp
  BY <1>2, ScrollPending DEF SelectUp
<1>3. CASE SelectDown
  BY <1>3, ScrollPending DEF SelectDown
<1>4. CASE MoveNetwork
  BY <1>4, ScrollPending DEF MoveNetwork
<1>5. CASE EditElements
  BY <1>5, NothingPending DEF EditElements, Designing
<1>6. CASE TurnAdvancedSelect
  BY <1>6, NothingPending DEF TurnAdvancedSelect
<1>7. CASE BeginDesign
  BY <1>7, NothingPending, RecordSelected, PendingHotreload DEF BeginDesign, OpenDesign
<1>8. CASE BeginEditing
  BY <1>8, RecordSelected, PendingHotreload DEF BeginEditing
<1>9. CASE BeginAdvanced
  BY <1>9, NothingPending DEF BeginAdvanced
<1>10. CASE CancelAdvanced
  BY <1>10, NothingPending DEF CancelAdvanced
<1> QED
  BY <1>1, <1>2, <1>3, <1>4, <1>5, <1>6, <1>7, <1>8, <1>9, <1>10 DEF Buttons
-----------------------------------------------------------------------------
(* The restart *)

\* The record there is, or the one of a cold start, whose flag is down.
LEMMA LoadedRecord ==
  ASSUME NEW kept \in BOOLEAN, NEW F, Record(hotreload, F)
  PROVE  /\ Record(LoadedHotreload(kept), F \cup {FALSE})
         /\ ~kept => Record(LoadedHotreload(kept), {FALSE})
<1>1. Record(ColdHotreload, {FALSE})
  BY DEF Record, ColdHotreload
<1>2. Record(ColdHotreload, F \cup {FALSE}) /\ Record(hotreload, F \cup {FALSE})
  BY <1>1, RecordMonotone DEF Record
<1> QED
  BY <1>1, <1>2 DEF LoadedHotreload

\* The start opens the editor only if the record that it loads allows it.
LEMMA BootKeeps ==
  ASSUME NEW F, NEW record, Record(record, F), Boot(record)
  PROVE  /\ Record(hotreload', F)
         /\ Pending(writes', F)
         /\ hotreload'.debug = record.debug
         /\ in_design' => MayDesign(work_mode', record)
         /\ device' = "on" /\ request' = NoRequest /\ bits' = {}
<1> DEFINE loaded == LoadedNetworks(file)
           view == RestoredView(record, loaded)
           last == IF loaded = <<>> /\ Clamped(record.selected, view) # view
                   THEN ToHotreload([record EXCEPT !.selected = view]) ELSE <<>>
<1>1. Start(record)
  BY DEF Boot
<1>2. writes' = ToHotreload(record) \o last
  BY <1>1 DEF Start
<1>3. Pending(last, F)
  <2> HIDE DEF view
  <2> QED
    BY NothingPending, RecordSelected, PendingHotreload
<1>4. Pending(writes', F)
  <2> HIDE DEF last
  <2> QED
    BY <1>2, <1>3, PendingHotreload, PendingConcat
<1>5. hotreload' = [record EXCEPT !.valid = FALSE]
  BY <1>1 DEF Start
<1>6. Record(hotreload', F)
  BY <1>5, RecordValid
<1>7. hotreload'.debug = record.debug
  BY <1>5 DEF Record
<1>8. in_design' => MayDesign(work_mode', record)
  BY <1>1 DEF Start
<1> QED
  BY <1>4, <1>6, <1>7, <1>8 DEF Boot
-----------------------------------------------------------------------------
(* The invariant *)

\* More may be asked for, and the flags stay allowed.
LEMMA FlagsGrow ==
  ASSUME Explained => Explained', EditedInRun' => EditedInRun
  PROVE  DebugFlags \subseteq DebugFlags'
  BY DEF DebugFlags

LEMMA ModesInvInit ==
  Init => ModesInv
<1> SUFFICES ASSUME Init PROVE ModesInv
  OBVIOUS
<1>1. Record(hotreload, DebugFlags)
  BY DEF Init, Record, ColdHotreload, DebugFlags, EditedInRun
<1>2. Pending(writes, DebugFlags)
  BY NothingPending DEF Init
<1> QED
  BY <1>1, <1>2 DEF Init, ModesInv, BitsAreAsked, NoRequest

LEMMA EditStep ==
  ASSUME ModesInv, Edit
  PROVE  ModesInv'
<1> DEFINE F == {hotreload.debug}
<1>1. Record(hotreload, F)
  BY RecordMonotone DEF ModesInv
<1>2. EditKept(F)
  BY <1>1, FinishKeeps, ButtonsKeep DEF Edit
<1>3. hotreload.debug \in DebugFlags
  BY DEF ModesInv, Record
<1>4. EditedInRun' => hotreload.debug
  BY <1>2, <1>3 DEF EditKept, Edit, EditedInRun, DebugFlags, MayDesign
<1>5. hotreload.debug \in DebugFlags'
  BY <1>3, <1>4 DEF DebugFlags, Explained, Edit
<1>6. Record(hotreload', DebugFlags') /\ Pending(writes', DebugFlags')
  <2>1. F \subseteq DebugFlags'
    BY <1>5
  <2>2. hotreload' = hotreload /\ Pending(writes', F)
    BY <1>2 DEF EditKept
  <2> QED
    BY <1>1, <1>5, <2>1, <2>2, PendingMonotone, RecordMonotone
<1> QED
  BY <1>6 DEF Edit, ModesInv, BitsAreAsked, remoteVars

\* A change of the mode writes a flag that is explained, and the editor, if it
\* is open, was open before.
LEMMA ChangeKeeps ==
  ASSUME NEW F, NEW mode, NEW debug \in F, ChangeWorkMode(mode, debug),
         Record(hotreload, F)
  PROVE  Record(hotreload', F) /\ Pending(writes', F)
<1>1. writes' = ToHotreload([hotreload EXCEPT !.debug = debug]) \o Store(mode, networks')
      /\ hotreload' = hotreload
  BY DEF ChangeWorkMode
<1>2. Pending(ToHotreload([hotreload EXCEPT !.debug = debug]), F)
  BY RecordDebug, PendingHotreload
<1> QED
  BY <1>1, <1>2, PendingStore, PendingConcat

LEMMA HandleBitsStep ==
  ASSUME ModesInv, HandleBits
  PROVE  ModesInv'
<1>1. asked' = asked /\ in_design' = in_design /\ bits' = {} /\ UNCHANGED <<device, request>>
  BY DEF HandleBits, ChangeWorkMode
<1>2. ~EditedInRun'
  BY <1>1 DEF HandleBits, EditedInRun
<1>3. DebugFlags' = {d \in BOOLEAN : d => Explained}
  BY <1>1, <1>2 DEF DebugFlags, Explained
<1>4. FALSE \in DebugFlags'
  BY <1>3
<1>5. bits = {0, 1} => TRUE \in DebugFlags'
  BY <1>3 DEF ModesInv, BitsAreAsked, Explained
<1>6. Record(hotreload, DebugFlags')
  BY <1>3, RecordMonotone DEF ModesInv, Record, DebugFlags
<1>7. Record(hotreload', DebugFlags') /\ Pending(writes', DebugFlags')
  <2>1. CASE bits = {0, 1} /\ ChangeWorkMode("Run", TRUE)
    BY <1>5, <1>6, <2>1, ChangeKeeps
  <2>2. CASE ChangeWorkMode("Stop", FALSE)
    BY <1>4, <1>6, <2>2, ChangeKeeps
  <2>3. CASE ChangeWorkMode("Run", FALSE)
    BY <1>4, <1>6, <2>3, ChangeKeeps
  <2> QED
    BY <2>1, <2>2, <2>3 DEF HandleBits
<1> QED
  BY <1>1, <1>7 DEF ModesInv, BitsAreAsked

LEMMA WriteStep ==
  ASSUME ModesInv, Write
  PROVE  ModesInv'
<1>1. /\ UNCHANGED <<in_design, work_mode, overtaken, asked, bits, request, device>>
  BY DEF Write, TearHotreload, SealHotreload, WriteFile, remoteVars, histories
<1>2. DebugFlags' = DebugFlags
  BY <1>1 DEF DebugFlags, Explained, EditedInRun
<1> DEFINE F == DebugFlags
<1>3. Record(hotreload, F) /\ Pending(writes, F)
  BY DEF ModesInv
<1> HIDE DEF F
<1>4. Record(hotreload', F) /\ Pending(writes', F)
  <2>1. CASE TearHotreload
    <3>1. writes # <<>> /\ Head(writes).to = "hotreload"
      BY <2>1 DEF TearHotreload
    <3>2. Record(Head(writes).value, F)
      BY <1>3, <3>1, PendingTail
    <3>3. Record([Head(writes).value EXCEPT !.valid = FALSE], F)
      BY <3>2, RecordValid
    <3> QED
      BY <1>3, <2>1, <3>3 DEF TearHotreload
  <2>2. CASE SealHotreload
    BY <1>3, <2>2, PendingTail DEF SealHotreload
  <2>3. CASE WriteFile
    BY <1>3, <2>3, PendingTail DEF WriteFile
  <2> QED
    BY <2>1, <2>2, <2>3 DEF Write
<1> QED
  BY <1>1, <1>2, <1>4 DEF ModesInv, BitsAreAsked, F

\* A step that leaves the records alone, and after which no flag is forbidden
\* that was allowed.
LEMMA QuietStep ==
  ASSUME Record(hotreload, DebugFlags), Pending(writes, DebugFlags),
         UNCHANGED <<hotreload, writes>>, DebugFlags \subseteq DebugFlags'
  PROVE  Record(hotreload', DebugFlags') /\ Pending(writes', DebugFlags')
<1>1. Record(hotreload, DebugFlags')
  BY RecordMonotone DEF Record
<1>2. Pending(writes, DebugFlags')
  BY PendingMonotone
<1> QED
  BY <1>1, <1>2

LEMMA RequestStep ==
  ASSUME ModesInv,
         \/ \E mode \in Commands : BeginSetWorkMode(mode)
         \/ RaiseWorkMode \/ BeginUpload \/ EndUpload
  PROVE  ModesInv'
<1>1. UNCHANGED <<hotreload, writes, in_design, overtaken, device>>
  BY DEF BeginSetWorkMode, RaiseWorkMode, BeginUpload, EndUpload, ladderVars, histories
<1>2. asked \subseteq asked'
  BY DEF BeginSetWorkMode, RaiseWorkMode, BeginUpload, EndUpload, histories
<1>3. EditedInRun' => EditedInRun
  <2>1. CASE UNCHANGED work_mode
    BY <1>1, <2>1 DEF EditedInRun
  <2>2. CASE EndUpload /\ ~UNCHANGED work_mode
    BY <1>1, <2>2 DEF EndUpload, MayUpload, EditedInRun
  <2> QED
    BY <2>1, <2>2 DEF BeginSetWorkMode, RaiseWorkMode, BeginUpload, ladderVars
<1>4. DebugFlags \subseteq DebugFlags'
  BY <1>2, <1>3, FlagsGrow DEF Explained
<1>5. Record(hotreload', DebugFlags') /\ Pending(writes', DebugFlags')
  BY <1>1, <1>4, QuietStep DEF ModesInv
<1>6. BitsAreAsked'
  <2>1. CASE RaiseWorkMode
    <3>1. PICK mode \in Modes : bits' = bits \cup EventsOf(mode) /\ asked' = asked \cup {mode}
      BY <2>1 DEF RaiseWorkMode, ModesInv
    <3> QED
      BY <3>1 DEF ModesInv, BitsAreAsked, EventsOf, Modes
  <2>2. CASE UNCHANGED <<bits, asked>>
    BY <2>2 DEF ModesInv, BitsAreAsked
  <2> QED
    BY <2>1, <2>2 DEF BeginSetWorkMode, BeginUpload, EndUpload, histories
<1>7. request'.kind = "mode" => request'.mode \in Modes
  <2>1. CASE \E mode \in Commands : BeginSetWorkMode(mode)
    BY <2>1, CommandsAssumption DEF BeginSetWorkMode, ModeRequest, Modes
  <2>2. CASE RaiseWorkMode \/ BeginUpload \/ EndUpload
    BY <2>2 DEF RaiseWorkMode, BeginUpload, EndUpload, NoRequest, UploadRequest
  <2> QED
    BY <2>1, <2>2
<1> QED
  BY <1>1, <1>5, <1>6, <1>7 DEF ModesInv

\* A start leaves what the record allows, if what was asked for stays.
LEMMA BootStep ==
  ASSUME NEW record, NEW F, Record(record, F), Boot(record),
         F \subseteq BOOLEAN, \A d \in F : d => Explained'
  PROVE  ModesInv'
<1> DEFINE G == {record.debug}
<1>1. Record(record, G)
  BY RecordMonotone DEF Record
<1>2. /\ Record(hotreload', G) /\ Pending(writes', G)
      /\ in_design' => MayDesign(work_mode', record)
      /\ device' = "on" /\ request' = NoRequest /\ bits' = {}
  BY <1>1, BootKeeps
<1>3. record.debug \in DebugFlags'
  <2>1. record.debug \in BOOLEAN /\ (record.debug => Explained')
    BY DEF Record
  <2>2. EditedInRun' => record.debug
    BY <1>2 DEF EditedInRun, MayDesign
  <2> QED
    BY <2>1, <2>2 DEF DebugFlags
<1>4. Record(hotreload', DebugFlags') /\ Pending(writes', DebugFlags')
  <2>1. G \subseteq DebugFlags'
    BY <1>3
  <2> HIDE DEF G
  <2> QED
    BY <1>2, <2>1, PendingMonotone, RecordMonotone DEF Record
<1> QED
  BY <1>2, <1>4 DEF ModesInv, BitsAreAsked, NoRequest

LEMMA RestartStep ==
  ASSUME ModesInv, Restart \/ PowerLoss \/ LeaveService
  PROVE  ModesInv'
<1> DEFINE F == DebugFlags \cup {FALSE}
<1>1. F \subseteq BOOLEAN /\ \A d \in F : d => Explained
  BY DEF DebugFlags
<1>2. /\ Record(LoadedHotreload(TRUE), F)
      /\ Record(LoadedHotreload(FALSE), {FALSE})
      /\ Record(hotreload, DebugFlags)
  BY LoadedRecord DEF ModesInv
<1>3. CASE Restart
  <2>1. Boot(LoadedHotreload(TRUE)) /\ Explained' = Explained
    BY <1>3 DEF Restart, Explained
  <2> QED
    BY <1>1, <1>2, <2>1, BootStep
<1>4. CASE PowerLoss /\ Boot(LoadedHotreload(FALSE))
  <2> DEFINE Down == {FALSE}
  <2>1. Record(LoadedHotreload(FALSE), Down)
    BY <1>2
  <2>2. Down \subseteq BOOLEAN /\ \A d \in Down : d => Explained'
    OBVIOUS
  <2> HIDE DEF Down
  <2> QED
    BY <1>4, <2>1, <2>2, BootStep
<1>5. CASE PowerLoss /\ ~Boot(LoadedHotreload(FALSE))
  <2>1. /\ hotreload' = ColdHotreload /\ writes' = <<>> /\ ~in_design'
        /\ request' = NoRequest /\ bits' = {}
    BY <1>5 DEF PowerLoss
  <2>2. FALSE \in DebugFlags'
    BY <2>1 DEF DebugFlags, EditedInRun
  <2>3. Record(hotreload', DebugFlags')
    BY <2>1, <2>2 DEF Record, ColdHotreload
  <2>4. Pending(writes', DebugFlags')
    BY <2>1, NothingPending
  <2> QED
    BY <2>1, <2>3, <2>4 DEF ModesInv, BitsAreAsked, NoRequest
<1>6. CASE LeaveService
  <2>1. Explained' = Explained
    BY <1>6 DEF LeaveService, Explained
  <2>2. Record(hotreload, F)
    BY <1>2, RecordMonotone DEF Record
  <2>3. Boot(hotreload) \/ Boot(LoadedHotreload(TRUE))
    BY <1>6 DEF LeaveService
  <2> QED
    BY <1>1, <1>2, <2>1, <2>2, <2>3, BootStep
<1> QED
  BY <1>3, <1>4, <1>5, <1>6

LEMMA ServiceStep ==
  ASSUME ModesInv,
         \/ \E mode \in Commands : ServiceChangeMode(mode)
         \/ \E program \in Uploads : ServiceRestore(program)
         \/ ServiceReset
  PROVE  ModesInv'
<1>1. /\ UNCHANGED <<in_design, overtaken, bits, request>>
      /\ device = "service" /\ device' \in {"starting", "restarting"}
      /\ asked \subseteq asked'
  BY DEF ServiceChangeMode, ServiceRestore, ServiceReset, ChangeWorkMode, histories
<1>2. ~in_design /\ ~in_design'
  BY <1>1 DEF ModesInv
<1>3. DebugFlags \subseteq DebugFlags' /\ FALSE \in DebugFlags'
  BY <1>1, <1>2 DEF DebugFlags, Explained, EditedInRun
<1>4. Record(hotreload, DebugFlags') /\ Pending(writes, DebugFlags')
  BY <1>3, PendingMonotone, RecordMonotone DEF ModesInv, Record
<1>5. Record(hotreload', DebugFlags') /\ Pending(writes', DebugFlags')
  <2>1. CASE \E mode \in Commands : ServiceChangeMode(mode)
    <3>1. PICK mode \in Commands : ServiceChangeMode(mode)
      BY <2>1
    <3> DEFINE debug == mode = "Debug"
    <3>2. debug \in DebugFlags'
      BY <1>2, <3>1 DEF ServiceChangeMode, DebugFlags, Explained, EditedInRun
    <3>3. ChangeWorkMode(IF mode = "Stop" THEN "Stop" ELSE "Run", debug)
      BY <3>1 DEF ServiceChangeMode
    <3> HIDE DEF debug
    <3> QED
      BY <1>4, <3>2, <3>3, ChangeKeeps
  <2>2. ASSUME NEW value, writes' = <<[to |-> "file", value |-> value]>>, hotreload' = hotreload
        PROVE  Record(hotreload', DebugFlags') /\ Pending(writes', DebugFlags')
    <3> DEFINE e == [to |-> "file", value |-> value]
    <3>1. e.to # "hotreload"
      OBVIOUS
    <3>2. writes' = <<e>>
      BY <2>2
    <3> HIDE DEF e
    <3> QED
      BY <1>4, <2>2, <3>1, <3>2, OnePending
  <2>3. CASE \E program \in Uploads : ServiceRestore(program)
    BY <2>2, <2>3 DEF ServiceRestore
  <2>4. CASE ServiceReset
    BY <2>2, <2>4 DEF ServiceReset
  <2> QED
    BY <2>1, <2>3, <2>4
<1> QED
  BY <1>1, <1>2, <1>5 DEF ModesInv, BitsAreAsked

LEMMA ModesInvStep ==
  ModesInv /\ [Next]_vars => ModesInv'
<1> SUFFICES ASSUME ModesInv, [Next]_vars PROVE ModesInv'
  OBVIOUS
<1>1. CASE UNCHANGED vars
  <2>1. UNCHANGED <<hotreload, writes, in_design, work_mode, overtaken, asked, bits, request, device>>
    BY <1>1 DEF vars, ladderVars, remoteVars, histories
  <2>2. DebugFlags' = DebugFlags
    BY <2>1 DEF DebugFlags, Explained, EditedInRun
  <2>3. Record(hotreload', DebugFlags') /\ Pending(writes', DebugFlags')
    BY <2>1, <2>2, QuietStep DEF ModesInv
  <2> QED
    BY <2>1, <2>3 DEF ModesInv, BitsAreAsked
<1>2. CASE Next
  BY <1>2, EditStep, HandleBitsStep, WriteStep, RequestStep, RestartStep, ServiceStep DEF Next
<1> QED
  BY <1>1, <1>2
-----------------------------------------------------------------------------
(* The theorems *)

\* Nobody debugs without having asked: a torn record, a lost one and one that
\* was written before a restart never raise the flag.
THEOREM DebugIsAskedTheorem == Spec => []DebugIsAsked
<1>1. Init => ModesInv
  BY ModesInvInit
<1>2. ModesInv /\ [Next]_vars => ModesInv'
  BY ModesInvStep
<1>3. ModesInv => DebugIsAsked
  BY DEF ModesInv, Record, DebugFlags, Explained, DebugIsAsked
<1> QED
  BY <1>1, <1>2, <1>3, PTL DEF Spec

\* A program that is edited in Run was opened for debugging, unless the mode
\* was changed under the open editor.
THEOREM EditingAllowedTheorem == Spec => []EditingAllowed
<1>1. Init => ModesInv
  BY ModesInvInit
<1>2. ModesInv /\ [Next]_vars => ModesInv'
  BY ModesInvStep
<1>3. ModesInv => EditingAllowed
  BY DEF ModesInv, Record, DebugFlags, EditedInRun, EditingAllowed, MayDesign
<1> QED
  BY <1>1, <1>2, <1>3, PTL DEF Spec
-----------------------------------------------------------------------------
(***************************************************************************)
(* The editor and what it stores.                                          *)
(***************************************************************************)
NetworkItems == [content : Contents, state : NetworkStates, edit : EditStates]
SavedNetworks == [content : Contents \ {"empty"}, state : NetworkStates]
StatesFit(nets, mode) == \A i \in DOMAIN nets : nets[i].state = InMode(nets[i].state, mode)

\* What the file may hold, and what may be written to it and to the RTC memory.
Programs ==
  {NoFile} \cup {p \in [mode : WorkModes, networks : Seq(SavedNetworks)] :
                   Len(p.networks) \in 1..MaxNetworksCount /\ StatesFit(p.networks, p.mode)}
RecordWrites == [to : {"hotreload"}, value : Hotreloads]
FileWrites(programs) == [to : {"file"}, value : programs]
WriteItems == RecordWrites \cup FileWrites(Programs)

\* The networks there may be in a mode.
Ladders(mode) ==
  {nets \in Seq(NetworkItems) : Len(nets) <= MaxNetworksCount /\ StatesFit(nets, mode)}

NoneEdited(nets) == \A i \in DOMAIN nets : nets[i].edit = "Regular"
OnlyEdited(nets, i) ==
  i \in DOMAIN nets /\ \A j \in DOMAIN nets : nets[j].edit # "Regular" <=> j = i
ViewFits(nets, view) ==
  view \in Nat \ {0} /\ (IF nets = <<>> THEN view = 1 ELSE view <= Len(nets))

\* An open editor edits one network, and shows it.
Selection(nets, view, design) ==
  IF design /\ nets # <<>>
  THEN \E i \in view..(view + ViewPort - 1) : OnlyEdited(nets, i)
  ELSE NoneEdited(nets)

Editor(nets, view, mode, design) ==
  /\ mode \in WorkModes /\ design \in BOOLEAN
  /\ nets \in Ladders(mode) /\ ViewFits(nets, view) /\ Selection(nets, view, design)

EditorInv == Editor(networks, view_top_index, work_mode, in_design)
MemoryInv == hotreload \in Hotreloads /\ file \in Programs /\ writes \in Seq(WriteItems)

\* The file once all is written.
WillBe(p) ==
  /\ \A k \in DOMAIN writes : writes[k].to = "file" => writes[k].value = p
  /\ file = p \/ \E k \in DOMAIN writes : writes[k].to = "file"

\* Nothing is left unsaved but the elements of a network that is being edited.
SavedInv ==
  device = "on" /\ unsaved = {} =>
    /\ Serializable(networks)
    /\ (\A i \in DOMAIN networks : networks[i].edit # "Editing")
         => WillBe(Program(work_mode, networks))

LadderInv == EditorInv /\ MemoryInv /\ SavedInv
-----------------------------------------------------------------------------
(* Networks that are changed *)

\* A sequence whose elements are changed in place.
LEMMA ChangedInPlace ==
  ASSUME NEW S, NEW T, NEW s \in Seq(S), NEW y, y = [k \in DOMAIN s |-> y[k]],
         \A k \in DOMAIN s : y[k] \in T
  PROVE  y \in Seq(T) /\ Len(y) = Len(s) /\ DOMAIN y = DOMAIN s
<1>1. DOMAIN s = 1..Len(s) /\ Len(s) \in Nat
  OBVIOUS
<1> QED
  BY <1>1

LEMMA InModeFits ==
  ASSUME NEW mode \in WorkModes
  PROVE  /\ \A s \in NetworkStates :
              InMode(s, mode) \in NetworkStates /\ InMode(InMode(s, mode), mode) = InMode(s, mode)
         /\ NewNetwork(mode) \in NetworkItems
         /\ NewNetwork(mode).state = InMode(NewNetwork(mode).state, mode)
<1>1. /\ Active(mode) \in NetworkStates /\ Passive(mode) \in NetworkStates
      /\ InMode(Active(mode), mode) = Active(mode) /\ InMode(Passive(mode), mode) = Passive(mode)
  BY DEF WorkModes, NetworkStates, Active, Passive, InMode
<1>2. \A s \in NetworkStates : InMode(s, mode) \in {Active(mode), Passive(mode)}
  BY DEF InMode
<1>3. NewNetwork(mode) \in NetworkItems
  BY <1>1 DEF NewNetwork, NetworkItems, Contents, EditStates
<1> QED
  BY <1>1, <1>2, <1>3 DEF NewNetwork

LEMMA LadderElements ==
  ASSUME NEW mode, NEW nets \in Ladders(mode)
  PROVE  /\ nets \in Seq(NetworkItems) /\ DOMAIN nets = 1..Len(nets) /\ Len(nets) \in Nat
         /\ Len(nets) <= MaxNetworksCount
         /\ nets = <<>> <=> Len(nets) = 0
         /\ \A i \in DOMAIN nets :
              /\ nets[i] \in NetworkItems
              /\ nets[i].state = InMode(nets[i].state, mode)
              /\ nets[i] = [content |-> nets[i].content, state |-> nets[i].state,
                            edit |-> nets[i].edit]
              /\ nets[i].content \in Contents /\ nets[i].state \in NetworkStates
              /\ nets[i].edit \in EditStates
<1>1. nets \in Seq(NetworkItems) /\ Len(nets) <= MaxNetworksCount /\ StatesFit(nets, mode)
  BY DEF Ladders
<1>2. DOMAIN nets = 1..Len(nets) /\ Len(nets) \in Nat /\ (nets = <<>> <=> Len(nets) = 0)
  BY <1>1
<1>3. \A i \in DOMAIN nets : nets[i] \in NetworkItems
  BY <1>1
<1> QED
  BY <1>1, <1>2, <1>3 DEF NetworkItems, StatesFit

\* Networks whose elements are changed in place, each to one that fits.
LEMMA LadderChanged ==
  ASSUME NEW mode, NEW other, NEW nets \in Ladders(mode), NEW y, y = [k \in DOMAIN nets |-> y[k]],
         \A k \in DOMAIN nets : y[k] \in NetworkItems /\ y[k].state = InMode(y[k].state, other)
  PROVE  y \in Ladders(other) /\ Len(y) = Len(nets) /\ DOMAIN y = DOMAIN nets
<1>1. nets \in Seq(NetworkItems) /\ Len(nets) <= MaxNetworksCount
  BY LadderElements
<1>2. y \in Seq(NetworkItems) /\ Len(y) = Len(nets) /\ DOMAIN y = DOMAIN nets
  BY <1>1, ChangedInPlace
<1> QED
  BY <1>1, <1>2 DEF Ladders, StatesFit

LEMMA WithEditNetworks ==
  ASSUME NEW mode, NEW nets \in Ladders(mode), NEW i, NEW edit \in EditStates
  PROVE  /\ WithEdit(nets, i, edit) \in Ladders(mode)
         /\ Len(WithEdit(nets, i, edit)) = Len(nets) /\ DOMAIN WithEdit(nets, i, edit) = DOMAIN nets
         /\ \A k \in DOMAIN nets :
              WithEdit(nets, i, edit)[k] =
                [content |-> nets[k].content, state |-> nets[k].state,
                 edit |-> IF k = i THEN edit ELSE nets[k].edit]
<1> DEFINE y == WithEdit(nets, i, edit)
<1>1. y = [k \in DOMAIN nets |-> y[k]]
  <2>1. nets = [k \in DOMAIN nets |-> nets[k]]
    BY LadderElements
  <2> QED
    BY <2>1 DEF WithEdit
<1>2. \A k \in DOMAIN nets :
        y[k] = [content |-> nets[k].content, state |-> nets[k].state,
                edit |-> IF k = i THEN edit ELSE nets[k].edit]
  <2> SUFFICES ASSUME NEW k \in DOMAIN nets
               PROVE  y[k] = [content |-> nets[k].content, state |-> nets[k].state,
                              edit |-> IF k = i THEN edit ELSE nets[k].edit]
    OBVIOUS
  <2>1. nets[k] = [content |-> nets[k].content, state |-> nets[k].state, edit |-> nets[k].edit]
    BY LadderElements
  <2>2. CASE k = i
    <3>1. y[k] = [nets[k] EXCEPT !.edit = edit]
      BY <2>2 DEF WithEdit
    <3> QED
      BY <2>1, <2>2, <3>1
  <2>3. CASE k # i
    <3>1. y[k] = nets[k]
      BY <2>3 DEF WithEdit
    <3> QED
      BY <2>1, <2>3, <3>1
  <2> QED
    BY <2>2, <2>3
<1> HIDE DEF y
<1>3. ASSUME NEW k \in DOMAIN nets
      PROVE  y[k] \in NetworkItems /\ y[k].state = InMode(y[k].state, mode)
  <2>1. /\ nets[k].content \in Contents /\ nets[k].state \in NetworkStates
        /\ nets[k].edit \in EditStates /\ nets[k].state = InMode(nets[k].state, mode)
    BY LadderElements
  <2>2. (IF k = i THEN edit ELSE nets[k].edit) \in EditStates
    BY <2>1
  <2> DEFINE e == IF k = i THEN edit ELSE nets[k].edit
  <2>3. y[k] = [content |-> nets[k].content, state |-> nets[k].state, edit |-> e]
    BY <1>2
  <2> HIDE DEF e
  <2>4. y[k].state = nets[k].state
    BY <2>3
  <2> QED
    BY <2>1, <2>2, <2>3, <2>4 DEF NetworkItems, e
<1> QED
  BY <1>1, <1>2, <1>3, LadderChanged DEF y

\* A network that is no longer edited has no wires without elements.
Bare(content) == IF content = "wires" THEN "empty" ELSE content

LEMMA EndedNetworks ==
  ASSUME NEW mode, NEW nets \in Ladders(mode), NEW i \in DOMAIN nets
  PROVE  /\ Ended(nets, i) \in Ladders(mode)
         /\ Len(Ended(nets, i)) = Len(nets) /\ DOMAIN Ended(nets, i) = DOMAIN nets
         /\ Ended(nets, i)[i] =
              [content |-> Bare(nets[i].content), state |-> nets[i].state, edit |-> "Regular"]
         /\ \A k \in DOMAIN nets : k # i => Ended(nets, i)[k] = nets[k]
<1> DEFINE y == Ended(nets, i)
<1>1. y = [k \in DOMAIN nets |-> y[k]]
  BY LadderElements DEF Ended
<1>2. y[i] = Unwired(nets[i]) /\ \A k \in DOMAIN nets : k # i => y[k] = nets[k]
  BY DEF Ended
<1>3. nets[i] = [content |-> nets[i].content, state |-> nets[i].state, edit |-> nets[i].edit]
  BY LadderElements
<1>4. Unwired(nets[i])
        = [content |-> Bare(nets[i].content), state |-> nets[i].state, edit |-> "Regular"]
  <2> DEFINE c == nets[i].content
             n == [content |-> c, state |-> nets[i].state, edit |-> nets[i].edit]
  <2>1. Unwired(n) = [n EXCEPT !.edit = "Regular", !.content = Bare(n.content)]
    BY DEF Unwired, Bare
  <2>2. Unwired(n) = [content |-> Bare(c), state |-> nets[i].state, edit |-> "Regular"]
    BY <2>1
  <2> QED
    BY <1>3, <2>2
<1> HIDE DEF y
<1>5. Bare(nets[i].content) \in Contents /\ "Regular" \in EditStates
  BY LadderElements DEF Bare, Contents, EditStates
<1>6. \A k \in DOMAIN nets : y[k] \in NetworkItems /\ y[k].state = InMode(y[k].state, mode)
  BY <1>2, <1>4, <1>5, LadderElements DEF NetworkItems
<1> QED
  BY <1>1, <1>2, <1>4, <1>6, LadderChanged DEF y

LEMMA SwappedNetworks ==
  ASSUME NEW mode, NEW nets \in Ladders(mode), NEW i \in DOMAIN nets, NEW j \in DOMAIN nets
  PROVE  /\ Swap(nets, i, j) \in Ladders(mode)
         /\ Len(Swap(nets, i, j)) = Len(nets) /\ DOMAIN Swap(nets, i, j) = DOMAIN nets
         /\ \A k \in DOMAIN nets :
              Swap(nets, i, j)[k] = IF k = j THEN nets[i] ELSE IF k = i THEN nets[j] ELSE nets[k]
<1> DEFINE y == Swap(nets, i, j)
<1>1. y = [k \in DOMAIN nets |-> y[k]]
  BY LadderElements DEF Swap
<1>2. \A k \in DOMAIN nets :
        y[k] = IF k = j THEN nets[i] ELSE IF k = i THEN nets[j] ELSE nets[k]
  BY DEF Swap
<1> HIDE DEF y
<1>3. \A k \in DOMAIN nets : y[k] \in NetworkItems /\ y[k].state = InMode(y[k].state, mode)
  BY <1>2, LadderElements
<1> QED
  BY <1>1, <1>2, <1>3, LadderChanged DEF y

LEMMA RemovedNetwork ==
  ASSUME NEW mode, NEW nets \in Ladders(mode), NEW i \in DOMAIN nets
  PROVE  /\ RemoveAt(nets, i) \in Ladders(mode) /\ Len(RemoveAt(nets, i)) = Len(nets) - 1
         /\ \A k \in 1..(Len(nets) - 1) :
              RemoveAt(nets, i)[k] = nets[IF k < i THEN k ELSE k + 1]
<1> DEFINE y == RemoveAt(nets, i)
<1>1. nets \in Seq(NetworkItems) /\ i \in 1..Len(nets) /\ Len(nets) \in Nat
      /\ Len(nets) <= MaxNetworksCount /\ MaxNetworksCount \in Nat
  BY LadderElements, NetworksCountAssumption
<1>2. /\ y \in Seq(NetworkItems) /\ Len(y) = Len(nets) - 1
      /\ \A k \in 1..(Len(nets) - 1) : y[k] = nets[IF k < i THEN k ELSE k + 1]
  BY <1>1, RemoveAtElements
<1> HIDE DEF y
<1>3. DOMAIN y = 1..(Len(nets) - 1) /\ Len(y) <= MaxNetworksCount
  BY <1>1, <1>2
<1>4. \A k \in 1..(Len(nets) - 1) : (IF k < i THEN k ELSE k + 1) \in DOMAIN nets
  BY <1>1
<1>5. StatesFit(y, mode)
  BY <1>2, <1>3, <1>4, LadderElements DEF StatesFit
<1> QED
  BY <1>2, <1>3, <1>5 DEF Ladders, y

LEMMA AppendedNetwork ==
  ASSUME NEW mode \in WorkModes, NEW nets \in Ladders(mode), Len(nets) < MaxNetworksCount
  PROVE  LET y == Append(nets, NewNetwork(mode)) IN
         /\ y \in Ladders(mode) /\ Len(y) = Len(nets) + 1 /\ y[Len(nets) + 1] = NewNetwork(mode)
         /\ \A k \in DOMAIN nets : y[k] = nets[k]
<1> DEFINE new == NewNetwork(mode)
           y == Append(nets, new)
<1>1. nets \in Seq(NetworkItems) /\ Len(nets) \in Nat /\ DOMAIN nets = 1..Len(nets)
      /\ MaxNetworksCount \in Nat
  BY LadderElements, NetworksCountAssumption
<1>2. new \in NetworkItems /\ new.state = InMode(new.state, mode)
  BY InModeFits
<1> HIDE DEF new
<1>3. /\ y \in Seq(NetworkItems) /\ Len(y) = Len(nets) + 1 /\ y[Len(nets) + 1] = new
      /\ \A k \in 1..Len(nets) : y[k] = nets[k]
  BY <1>1, <1>2
<1> HIDE DEF y
<1>4. Len(y) <= MaxNetworksCount /\ DOMAIN y = 1..(Len(nets) + 1)
  BY <1>1, <1>3
<1>5. StatesFit(y, mode)
  BY <1>1, <1>2, <1>3, <1>4, LadderElements DEF StatesFit
<1> QED
  BY <1>1, <1>3, <1>4, <1>5 DEF Ladders, y, new

LEMMA FirstNetwork ==
  ASSUME NEW mode \in WorkModes
  PROVE  /\ <<NewNetwork(mode)>> \in Ladders(mode) /\ Len(<<NewNetwork(mode)>>) = 1
         /\ NoneEdited(<<NewNetwork(mode)>>)
<1> DEFINE new == NewNetwork(mode)
<1>1. new \in NetworkItems /\ new.state = InMode(new.state, mode) /\ new.edit = "Regular"
  BY InModeFits DEF NewNetwork
<1> HIDE DEF new
<1>2. <<new>> \in Seq(NetworkItems) /\ Len(<<new>>) = 1 /\ \A k \in DOMAIN <<new>> : <<new>>[k] = new
  BY <1>1
<1> QED
  BY <1>1, <1>2, NetworksCountAssumption DEF Ladders, StatesFit, NoneEdited, new

LEMMA CopiedElement ==
  ASSUME NEW S, NEW s \in Seq(S), NEW k \in 1..Len(s)
  PROVE  /\ InsertAt(s, k, s[k]) \in Seq(S) /\ Len(InsertAt(s, k, s[k])) = Len(s) + 1
         /\ \A j \in 1..(Len(s) + 1) :
              InsertAt(s, k, s[k])[j] = IF j < k THEN s[j] ELSE IF j = k THEN s[k] ELSE s[j - 1]
<1>1. s[k] \in S /\ k \in 1..(Len(s) + 1)
  OBVIOUS
<1>2. InsertAt(s, k, s[k]) \in Seq(S) /\ Len(InsertAt(s, k, s[k])) = Len(s) + 1
  BY <1>1, InsertAtElements
<1>3. \A j \in 1..(Len(s) + 1) :
        InsertAt(s, k, s[k])[j] = IF j < k THEN s[j] ELSE IF j = k THEN s[k] ELSE s[j - 1]
  BY <1>1, InsertAtElements
<1> QED
  BY <1>2, <1>3

LEMMA DuplicatedNetwork ==
  ASSUME NEW mode, NEW nets \in Ladders(mode), NEW i \in DOMAIN nets, NoneEdited(nets)
  PROVE  /\ Duplicated(nets, i) \in Ladders(mode) /\ Len(nets) <= Len(Duplicated(nets, i))
         /\ NoneEdited(Duplicated(nets, i))
<1> DEFINE y == InsertAt(nets, i, nets[i])
<1>1. nets \in Seq(NetworkItems) /\ DOMAIN nets = 1..Len(nets) /\ Len(nets) \in Nat
      /\ MaxNetworksCount \in Nat /\ nets[i] \in NetworkItems /\ i \in 1..(Len(nets) + 1)
  BY LadderElements, NetworksCountAssumption
<1>2. CASE Duplicated(nets, i) = nets
  BY <1>1, <1>2
<1>3. CASE Duplicated(nets, i) = y /\ ~(Len(nets) >= MaxNetworksCount)
  <2>1. /\ y \in Seq(NetworkItems) /\ Len(y) = Len(nets) + 1
        /\ \A k \in 1..(Len(nets) + 1) :
             y[k] = IF k < i THEN nets[k] ELSE IF k = i THEN nets[i] ELSE nets[k - 1]
    BY <1>1, CopiedElement
  <2> HIDE DEF y
  <2>2. DOMAIN y = 1..(Len(nets) + 1) /\ Len(y) <= MaxNetworksCount /\ Len(nets) <= Len(y)
    BY <1>1, <1>3, <2>1
  <2>3. ASSUME NEW k \in DOMAIN y
        PROVE  \E j \in DOMAIN nets : y[k] = nets[j]
    <3>1. CASE k < i
      <4>1. y[k] = nets[k] /\ k \in DOMAIN nets
        BY <1>1, <2>1, <2>2, <3>1
      <4> QED
        BY <4>1
    <3>2. CASE k = i
      BY <2>1, <2>2, <3>2
    <3>3. CASE k > i
      <4>1. y[k] = nets[k - 1] /\ k - 1 \in DOMAIN nets
        BY <1>1, <2>1, <2>2, <3>3
      <4> QED
        BY <4>1
    <3> QED
      BY <1>1, <2>2, <3>1, <3>2, <3>3
  <2>4. StatesFit(y, mode) /\ NoneEdited(y)
    BY <2>3, LadderElements DEF StatesFit, NoneEdited
  <2> QED
    BY <1>3, <2>1, <2>2, <2>4 DEF Ladders
<1> QED
  BY <1>2, <1>3 DEF Duplicated

\* SelectInSeq returns 0, or the first element that passes.
LEMMA SelectedNetworkIs ==
  ASSUME networks \in Seq(NetworkItems)
  PROVE  /\ SelectedNetwork = 0 => NoneEdited(networks)
         /\ SelectedNetwork # 0 =>
              SelectedNetwork \in DOMAIN networks /\ networks[SelectedNetwork].edit # "Regular"
<1> DEFINE I == {i \in 1..Len(networks) : networks[i].edit # "Regular"}
<1>1. SelectedNetwork = IF I # {} THEN Min(I) ELSE 0
  BY DEF SelectedNetwork, SelectInSeq
<1>2. /\ \A i \in 1..Len(networks) : i \notin I => networks[i].edit = "Regular"
      /\ \A i \in I : networks[i].edit # "Regular" /\ i \in DOMAIN networks
      /\ DOMAIN networks = 1..Len(networks) /\ I \subseteq Nat /\ 0 \notin I
  OBVIOUS
<1> HIDE DEF I
<1>3. CASE I = {}
  BY <1>1, <1>2, <1>3 DEF NoneEdited
<1>4. CASE I # {}
  <2>1. SelectedNetwork \in I
    BY <1>1, <1>2, <1>4, MinOfIndices
  <2> QED
    BY <1>2, <2>1
<1> QED
  BY <1>3, <1>4

\* While something is selected, the editor is open and shows it.
LEMMA DesigningFacts ==
  ASSUME EditorInv, DesignState # "Regular", NEW i, i = SelectedNetwork
  PROVE  /\ networks \in Ladders(work_mode) /\ work_mode \in WorkModes
         /\ i \in DOMAIN networks /\ networks[i].edit = DesignState /\ OnlyEdited(networks, i)
         /\ in_design = TRUE
         /\ DOMAIN networks = 1..Len(networks) /\ Len(networks) \in Nat
         /\ MaxNetworksCount \in Nat /\ Len(networks) <= MaxNetworksCount
         /\ view_top_index \in Nat \ {0} /\ view_top_index <= Len(networks)
         /\ i \in {view_top_index, view_top_index + 1}
<1>1. networks \in Ladders(work_mode) /\ work_mode \in WorkModes /\ in_design \in BOOLEAN
      /\ ViewFits(networks, view_top_index) /\ Selection(networks, view_top_index, in_design)
  BY DEF EditorInv, Editor
<1>2. networks \in Seq(NetworkItems) /\ DOMAIN networks = 1..Len(networks) /\ Len(networks) \in Nat
      /\ (networks = <<>> <=> Len(networks) = 0) /\ Len(networks) <= MaxNetworksCount
  BY <1>1, LadderElements
<1>3. i # 0 /\ DesignState = networks[i].edit
  BY DEF DesignState
<1>4. i \in DOMAIN networks /\ networks[i].edit # "Regular"
  BY <1>2, <1>3, SelectedNetworkIs
<1>5. in_design = TRUE /\ networks # <<>>
  BY <1>1, <1>2, <1>4 DEF Selection, NoneEdited
<1>6. PICK j \in view_top_index..(view_top_index + ViewPort - 1) : OnlyEdited(networks, j)
  BY <1>1, <1>5 DEF Selection
<1>7. j = i
  BY <1>4, <1>6 DEF OnlyEdited
<1>8. view_top_index \in Nat \ {0} /\ view_top_index <= Len(networks)
  BY <1>1, <1>5 DEF ViewFits
<1>9. i \in {view_top_index, view_top_index + 1}
  BY <1>2, <1>6, <1>7, <1>8 DEF ViewPort
<1> QED
  BY <1>1, <1>2, <1>3, <1>4, <1>5, <1>6, <1>7, <1>8, <1>9, NetworksCountAssumption

LEMMA RegularFacts ==
  ASSUME EditorInv, DesignState = "Regular"
  PROVE  NoneEdited(networks) /\ (networks # <<>> => in_design = FALSE)
<1>1. networks \in Seq(NetworkItems) /\ Selection(networks, view_top_index, in_design)
      /\ in_design \in BOOLEAN
  BY DEF EditorInv, Editor, Ladders
<1>2. NoneEdited(networks)
  BY <1>1, SelectedNetworkIs DEF DesignState
<1>3. ~\E i : OnlyEdited(networks, i)
  BY <1>2 DEF NoneEdited, OnlyEdited
<1> QED
  BY <1>1, <1>2, <1>3 DEF Selection

\* One of several networks is selected, or none.
LEMMA EditorSelects ==
  ASSUME NEW mode \in WorkModes, NEW nets \in Ladders(mode), NoneEdited(nets),
         NEW edit \in EditStates \ {"Regular"}, NEW view \in Nat \ {0}, NEW i,
         IF nets = <<>> THEN view = 1
         ELSE view <= Len(nets) /\ i \in DOMAIN nets /\ i \in {view, view + 1}
  PROVE  Editor(WithEdit(nets, i, edit), view, mode, TRUE)
<1> DEFINE y == WithEdit(nets, i, edit)
<1>1. /\ y \in Ladders(mode) /\ Len(y) = Len(nets) /\ DOMAIN y = DOMAIN nets
      /\ \A k \in DOMAIN nets :
           y[k] = [content |-> nets[k].content, state |-> nets[k].state,
                   edit |-> IF k = i THEN edit ELSE nets[k].edit]
  BY WithEditNetworks
<1> HIDE DEF y
<1>2. nets = <<>> <=> y = <<>>
  BY <1>1, LadderElements
<1>3. ViewFits(y, view)
  BY <1>1, <1>2 DEF ViewFits
<1>4. Selection(y, view, TRUE)
  <2>1. CASE y = <<>>
    BY <2>1 DEF Selection, NoneEdited
  <2>2. CASE y # <<>>
    <3>1. OnlyEdited(y, i)
      BY <1>1, <1>2, <2>2 DEF OnlyEdited, NoneEdited
    <3>2. i \in view..(view + ViewPort - 1)
      BY <1>2, <2>2 DEF ViewPort
    <3> QED
      BY <2>2, <3>1, <3>2 DEF Selection
  <2> QED
    BY <2>1, <2>2
<1> QED
  BY <1>1, <1>3, <1>4 DEF Editor, y

LEMMA EditorShows ==
  ASSUME NEW mode \in WorkModes, NEW nets \in Ladders(mode), NEW view \in Nat \ {0},
         view <= Len(nets), NEW i, OnlyEdited(nets, i), i \in {view, view + 1}
  PROVE  Editor(nets, view, mode, TRUE)
<1>1. nets # <<>>
  BY LadderElements DEF OnlyEdited
<1>2. i \in view..(view + ViewPort - 1)
  BY DEF ViewPort
<1> QED
  BY <1>1, <1>2 DEF Editor, Selection, ViewFits

LEMMA EditorCloses ==
  ASSUME NEW mode \in WorkModes, NEW nets \in Ladders(mode), NoneEdited(nets),
         NEW view, ViewFits(nets, view)
  PROVE  Editor(nets, view, mode, FALSE)
BY DEF Editor, Selection

\* The view fits what is left of the networks.
LEMMA FittedView ==
  ASSUME NEW mode, NEW nets \in Ladders(mode), view_top_index \in Nat \ {0}
  PROVE  ViewFits(nets, FitView(nets))
<1>1. Len(nets) \in Nat /\ (nets = <<>> <=> Len(nets) = 0)
  BY LadderElements
<1> DEFINE n == Len(nets)
           v == view_top_index
<1>2. FitView(nets) = IF v + 1 <= n \/ v = 1 THEN v ELSE IF n < 2 THEN 1 ELSE n - 1
  BY <1>1 DEF FitView, ViewPort
<1> HIDE DEF n, v
<1>3. n \in Nat /\ v \in Nat \ {0} /\ (nets = <<>> <=> n = 0)
  BY <1>1 DEF n, v
<1>4. FitView(nets) \in Nat \ {0} /\ (IF n = 0 THEN FitView(nets) = 1 ELSE FitView(nets) <= n)
  BY <1>2, <1>3
<1> QED
  BY <1>3, <1>4 DEF ViewFits, n
-----------------------------------------------------------------------------
(* Records that are written *)

LEMMA RecordChanges ==
  ASSUME NEW r \in Hotreloads
  PROVE  /\ \A view \in 1..MaxNetworksCount : [r EXCEPT !.view = view] \in Hotreloads
         /\ \A selected \in 0..(MaxNetworksCount + 1) : [r EXCEPT !.selected = selected] \in Hotreloads
         /\ \A d \in BOOLEAN : [r EXCEPT !.debug = d] \in Hotreloads
         /\ \A v \in BOOLEAN : [r EXCEPT !.valid = v] \in Hotreloads
BY DEF Hotreloads

LEMMA RecordWritten ==
  ASSUME NEW r \in Hotreloads
  PROVE  ToHotreload(r) \in Seq(RecordWrites) /\ ToHotreload(r) \in Seq(WriteItems)
<1> DEFINE valid == [r EXCEPT !.valid = TRUE]
           e == [to |-> "hotreload", value |-> valid]
<1>1. valid \in Hotreloads
  BY RecordChanges
<1> HIDE DEF valid
<1>2. e \in RecordWrites
  BY <1>1 DEF RecordWrites
<1> HIDE DEF e
<1>3. <<e>> \in Seq(RecordWrites) /\ <<e>> \in Seq(WriteItems)
  BY <1>2 DEF WriteItems
<1> QED
  BY <1>3 DEF ToHotreload, e, valid

LEMMA RecordWritesAreWrites ==
  ASSUME NEW w \in Seq(RecordWrites)
  PROVE  w \in Seq(WriteItems) /\ \A k \in DOMAIN w : w[k].to # "file"
<1>1. \A k \in DOMAIN w : w[k] \in RecordWrites
  OBVIOUS
<1> QED
  BY <1>1 DEF WriteItems, RecordWrites

LEMMA ShowingWritten ==
  ASSUME hotreload \in Hotreloads, NEW view \in 1..MaxNetworksCount,
         NEW selected \in 0..(MaxNetworksCount + 1)
  PROVE  Showing(view, selected) \in Seq(RecordWrites)
<1> DEFINE shown == [hotreload EXCEPT !.view = IF view = view_top_index THEN hotreload.view ELSE view]
           last == [hotreload EXCEPT !.view = IF view = view_top_index THEN @ ELSE view,
                                     !.selected = selected]
           first == IF view = view_top_index THEN <<>> ELSE ToHotreload([hotreload EXCEPT !.view = view])
<1>1. shown \in Hotreloads
  <2>1. hotreload.view \in 1..MaxNetworksCount
    BY DEF Hotreloads
  <2>2. (IF view = view_top_index THEN hotreload.view ELSE view) \in 1..MaxNetworksCount
    BY <2>1
  <2> QED
    BY <2>2, RecordChanges
<1>2. last = [shown EXCEPT !.selected = selected]
  OBVIOUS
<1> HIDE DEF shown
<1>3. ToHotreload(last) \in Seq(RecordWrites)
  <2>1. last \in Hotreloads
    BY <1>1, <1>2, RecordChanges
  <2> HIDE DEF last
  <2> QED
    BY <2>1, RecordWritten
<1>4. first \in Seq(RecordWrites)
  <2>1. [hotreload EXCEPT !.view = view] \in Hotreloads
    BY RecordChanges
  <2>2. ToHotreload([hotreload EXCEPT !.view = view]) \in Seq(RecordWrites)
    BY <2>1, RecordWritten
  <2> QED
    BY <2>2
<1>5. Showing(view, selected) = first \o ToHotreload(last)
  BY DEF Showing
<1> HIDE DEF first, last
<1> QED
  BY <1>3, <1>4, <1>5

LEMMA ScrollWritten ==
  ASSUME hotreload \in Hotreloads, NEW i, NEW view \in 1..MaxNetworksCount,
         NEW selected \in 0..(MaxNetworksCount + 1),
         Scroll(i, [view |-> view, selected |-> selected])
  PROVE  view_top_index' = view /\ writes' \in Seq(RecordWrites)
<1>1. Showing(view, selected) \in Seq(RecordWrites)
  BY ShowingWritten
<1>2. writes' = <<>> \/ writes' = Showing(view, selected)
  BY DEF Scroll
<1> QED
  BY <1>1, <1>2 DEF Scroll
-----------------------------------------------------------------------------
(* The buttons *)

\* What a button leaves: the editor as it should be, and records to be written.
ButtonDone ==
  /\ Editor(networks', view_top_index', work_mode', in_design')
  /\ writes' \in Seq(RecordWrites)
  /\ work_mode' = work_mode /\ hotreload' = hotreload /\ file' = file

LEMMA ScrollViewDone ==
  ASSUME EditorInv, MemoryInv, ScrollView
  PROVE  ButtonDone
<1>1. NoneEdited(networks) /\ (networks # <<>> => in_design = FALSE)
  BY RegularFacts DEF ScrollView, Designing
<1>2. networks \in Ladders(work_mode) /\ work_mode \in WorkModes
      /\ ViewFits(networks, view_top_index) /\ in_design \in BOOLEAN
  BY DEF EditorInv, Editor
<1>3. Len(networks) \in Nat /\ (networks = <<>> <=> Len(networks) = 0)
      /\ Len(networks) <= MaxNetworksCount /\ MaxNetworksCount \in Nat
  BY <1>2, LadderElements, NetworksCountAssumption
<1>4. ViewFits(networks, view_top_index') /\ view_top_index' \in 1..MaxNetworksCount
  BY <1>2, <1>3 DEF ScrollView, ViewFits, ViewPort
<1>5. Editor(networks, view_top_index', work_mode, in_design)
  BY <1>1, <1>2, <1>4 DEF Editor, Selection
<1>6. writes' \in Seq(RecordWrites)
  <2>1. [hotreload EXCEPT !.view = view_top_index'] \in Hotreloads
    BY <1>4, RecordChanges DEF MemoryInv
  <2> QED
    BY <2>1, RecordWritten DEF ScrollView
<1> QED
  BY <1>5, <1>6 DEF ButtonDone, ScrollView

\* The network that is left is removed if it is empty.
LEMMA LeftNetworks ==
  ASSUME EditorInv, DesignState # "Regular", NEW i, i = SelectedNetwork
  PROVE  /\ Left(i) \in Ladders(work_mode) /\ NoneEdited(Left(i))
         /\ Len(Left(i)) = IF networks[i].content = "empty" THEN Len(networks) - 1 ELSE Len(networks)
<1>1. networks \in Ladders(work_mode) /\ i \in DOMAIN networks /\ OnlyEdited(networks, i)
      /\ DOMAIN networks = 1..Len(networks) /\ Len(networks) \in Nat
  BY DesigningFacts
<1>2. CASE networks[i].content = "empty"
  <2> DEFINE y == RemoveAt(networks, i)
  <2>1. /\ y \in Ladders(work_mode) /\ Len(y) = Len(networks) - 1
        /\ \A k \in 1..(Len(networks) - 1) : y[k] = networks[IF k < i THEN k ELSE k + 1]
    BY <1>1, RemovedNetwork
  <2>2. Left(i) = y
    BY <1>2 DEF Left
  <2> HIDE DEF y
  <2>3. DOMAIN y = 1..(Len(networks) - 1)
    BY <2>1, LadderElements
  <2>4. \A k \in 1..(Len(networks) - 1) :
          (IF k < i THEN k ELSE k + 1) \in DOMAIN networks /\ (IF k < i THEN k ELSE k + 1) # i
    BY <1>1
  <2>5. NoneEdited(y)
    BY <1>1, <2>1, <2>3, <2>4 DEF NoneEdited, OnlyEdited
  <2> QED
    BY <1>2, <2>1, <2>2, <2>5
<1>3. CASE networks[i].content # "empty"
  <2> DEFINE y == WithEdit(networks, i, "Regular")
  <2>1. /\ y \in Ladders(work_mode) /\ Len(y) = Len(networks) /\ DOMAIN y = DOMAIN networks
        /\ \A k \in DOMAIN networks :
             y[k] = [content |-> networks[k].content, state |-> networks[k].state,
                     edit |-> IF k = i THEN "Regular" ELSE networks[k].edit]
    BY <1>1, WithEditNetworks DEF EditStates
  <2>2. Left(i) = y
    BY <1>3 DEF Left
  <2> HIDE DEF y
  <2>3. NoneEdited(y)
    BY <1>1, <2>1 DEF NoneEdited, OnlyEdited
  <2> QED
    BY <1>3, <2>1, <2>2, <2>3
<1> QED
  BY <1>2, <1>3

LEMMA SelectUpDone ==
  ASSUME EditorInv, MemoryInv, SelectUp
  PROVE  ButtonDone
<1>1. PICK i : i = SelectedNetwork
  OBVIOUS
<1>2. DesignState = "Selected"
  BY DEF SelectUp, Designing
<1> DEFINE left == Left(i)
           to == ScrolledUp(i)
<1>3. networks' = WithEdit(left, to.selected, "Selected") /\ Scroll(i, to)
  BY <1>1 DEF SelectUp
<1>4. left \in Ladders(work_mode) /\ NoneEdited(left)
      /\ Len(left) \in {Len(networks) - 1, Len(networks)}
  BY <1>1, <1>2, LeftNetworks
<1>5. DOMAIN left = 1..Len(left) /\ Len(left) \in Nat /\ (left = <<>> <=> Len(left) = 0)
  BY <1>4, LadderElements
<1> HIDE DEF left
<1>6. /\ work_mode \in WorkModes /\ in_design = TRUE /\ i \in 1..Len(networks)
      /\ Len(networks) \in Nat /\ MaxNetworksCount \in Nat /\ Len(networks) <= MaxNetworksCount
      /\ view_top_index \in Nat \ {0} /\ view_top_index <= Len(networks)
      /\ i \in {view_top_index, view_top_index + 1}
  BY <1>1, <1>2, DesigningFacts
<1>7. PICK view, selected : to = [view |-> view, selected |-> selected]
  BY DEF ScrolledUp
<1>8. /\ view \in 1..MaxNetworksCount /\ selected \in 0..(MaxNetworksCount + 1)
      /\ view \in Nat \ {0}
      /\ IF Len(left) = 0 THEN view = 1
         ELSE view <= Len(left) /\ selected \in 1..Len(left) /\ selected \in {view, view + 1}
  <2>1. CASE i > view_top_index
    <3>1. view = view_top_index /\ selected = i - 1
      BY <1>7, <2>1 DEF ScrolledUp
    <3> QED
      BY <1>4, <1>5, <1>6, <2>1, <3>1
  <2>2. CASE ~(i > view_top_index) /\ view_top_index > 1
    <3>1. view = view_top_index - 1 /\ selected = i - 1
      BY <1>7, <2>2 DEF ScrolledUp
    <3> QED
      BY <1>4, <1>5, <1>6, <2>2, <3>1
  <2>3. CASE ~(i > view_top_index) /\ ~(view_top_index > 1)
    <3>1. view = view_top_index /\ selected = i
      BY <1>7, <2>3 DEF ScrolledUp
    <3> QED
      BY <1>4, <1>5, <1>6, <2>3, <3>1
  <2> QED
    BY <2>1, <2>2, <2>3
<1>9. view_top_index' = view /\ writes' \in Seq(RecordWrites)
  BY <1>3, <1>7, <1>8, ScrollWritten DEF MemoryInv
<1>10. Editor(WithEdit(left, selected, "Selected"), view, work_mode, TRUE)
  BY <1>4, <1>5, <1>6, <1>8, EditorSelects DEF EditStates
<1>11. /\ networks' = WithEdit(left, selected, "Selected") /\ view_top_index' = view
       /\ work_mode' = work_mode /\ in_design' = TRUE /\ hotreload' = hotreload /\ file' = file
  BY <1>3, <1>6, <1>7, <1>9 DEF SelectUp
<1> QED
  BY <1>9, <1>10, <1>11 DEF ButtonDone

LEMMA SelectDownDone ==
  ASSUME EditorInv, MemoryInv, SelectDown
  PROVE  ButtonDone
<1>1. PICK i : i = SelectedNetwork
  OBVIOUS
<1>2. DesignState = "Selected"
  BY DEF SelectDown, Designing
<1> DEFINE left == Left(i)
           stays == \/ Len(left) < Len(networks)
                    \/ i = Len(left) /\ Len(left) >= MaxNetworksCount
           to == IF stays THEN [view |-> view_top_index, selected |-> i] ELSE ScrolledDown(left, i)
           grown == IF to.selected = Len(left) + 1 THEN Append(left, NewNetwork(work_mode)) ELSE left
<1>3. networks' = WithEdit(grown, to.selected, "Selected") /\ Scroll(i, to)
  BY <1>1 DEF SelectDown
<1>4. left \in Ladders(work_mode) /\ NoneEdited(left)
      /\ Len(left) \in {Len(networks) - 1, Len(networks)}
  BY <1>1, <1>2, LeftNetworks
<1>5. DOMAIN left = 1..Len(left) /\ Len(left) \in Nat /\ (left = <<>> <=> Len(left) = 0)
  BY <1>4, LadderElements
<1> HIDE DEF left
<1>6. /\ work_mode \in WorkModes /\ in_design = TRUE /\ i \in 1..Len(networks)
      /\ Len(networks) \in Nat /\ MaxNetworksCount \in Nat /\ Len(networks) <= MaxNetworksCount
      /\ view_top_index \in Nat \ {0} /\ view_top_index <= Len(networks)
      /\ i \in {view_top_index, view_top_index + 1}
  BY <1>1, <1>2, DesigningFacts
<1>7. PICK view, selected : to = [view |-> view, selected |-> selected]
  BY DEF ScrolledDown
<1>8. /\ view \in Nat \ {0} /\ selected \in 1..(Len(left) + 1) /\ selected \in {view, view + 1}
      /\ view <= Len(networks)
      /\ view <= Len(left) \/ selected = Len(left) + 1
      /\ view <= Len(left) + 1
      /\ Len(left) < MaxNetworksCount \/ selected # Len(left) + 1
  <2> DEFINE n == Len(left)
             N == Len(networks)
             v == view_top_index
             M == MaxNetworksCount
  <2>1. n \in Nat /\ N \in Nat /\ v \in Nat \ {0} /\ M \in Nat /\ N <= M /\ v <= N /\ i \in 1..N
        /\ (n = N - 1 \/ n = N) /\ (i = v \/ i = v + 1)
    BY <1>4, <1>5, <1>6
  <2>2. stays <=> n < N \/ (i = n /\ n >= M)
    OBVIOUS
  <2>3. stays => view = v /\ selected = i
    BY <1>7
  <2>4. ~stays =>
          IF i + 1 < v + 2 THEN view = v /\ selected = i + 1
          ELSE IF v + 2 <= n + 1 THEN view = v + 1 /\ selected = i + 1
          ELSE view = v /\ selected = i
    BY <1>7 DEF ScrolledDown, ViewPort
  <2> HIDE DEF stays, n, N, v, M
  <2>5. CASE stays
    BY <2>1, <2>2, <2>3, <2>5 DEF n, N, M
  <2>6. CASE ~stays /\ i = v
    <3>1. view = v /\ selected = i + 1 /\ n = N
      BY <2>1, <2>2, <2>4, <2>6
    <3> QED
      BY <2>1, <2>2, <2>6, <3>1 DEF n, N, M
  <2>7. CASE ~stays /\ i = v + 1
    <3>1. n = N /\ view = v + 1 /\ selected = i + 1
      BY <2>1, <2>2, <2>4, <2>7
    <3> QED
      BY <2>1, <2>2, <2>7, <3>1 DEF n, N, M
  <2> QED
    BY <2>1, <2>5, <2>6, <2>7
<1>9. view_top_index' = view /\ writes' \in Seq(RecordWrites)
  <2>1. view \in 1..MaxNetworksCount /\ selected \in 0..(MaxNetworksCount + 1)
    BY <1>4, <1>5, <1>6, <1>8
  <2>2. Scroll(i, [view |-> view, selected |-> selected])
    BY <1>3, <1>7
  <2> QED
    BY <2>1, <2>2, ScrollWritten DEF MemoryInv
<1>10. /\ grown \in Ladders(work_mode) /\ NoneEdited(grown)
       /\ Len(grown) = IF selected = Len(left) + 1 THEN Len(left) + 1 ELSE Len(left)
  <2>1. to.selected = selected
    BY <1>7
  <2> HIDE DEF to
  <2>2. CASE selected # Len(left) + 1
    BY <1>4, <2>1, <2>2
  <2>3. CASE selected = Len(left) + 1
    <3> DEFINE y == Append(left, NewNetwork(work_mode))
    <3>1. /\ y \in Ladders(work_mode) /\ Len(y) = Len(left) + 1
          /\ y[Len(left) + 1] = NewNetwork(work_mode) /\ \A k \in DOMAIN left : y[k] = left[k]
      BY <1>4, <1>6, <1>8, <2>3, AppendedNetwork
    <3>2. grown = y
      BY <2>1, <2>3
    <3> HIDE DEF y
    <3>3. DOMAIN y = 1..(Len(left) + 1)
      BY <3>1, LadderElements
    <3>4. \A k \in 1..(Len(left) + 1) : k \in DOMAIN left \/ k = Len(left) + 1
      BY <1>5
    <3>5. NoneEdited(y)
      BY <1>4, <3>1, <3>3, <3>4 DEF NoneEdited, NewNetwork
    <3> QED
      BY <2>3, <3>1, <3>2, <3>5
  <2> QED
    BY <2>2, <2>3
<1> HIDE DEF grown
<1>11. DOMAIN grown = 1..Len(grown) /\ (grown = <<>> <=> Len(grown) = 0)
  BY <1>10, LadderElements
<1>12. IF grown = <<>> THEN view = 1
       ELSE view <= Len(grown) /\ selected \in DOMAIN grown /\ selected \in {view, view + 1}
  BY <1>5, <1>8, <1>10, <1>11
<1>13. Editor(WithEdit(grown, selected, "Selected"), view, work_mode, TRUE)
  BY <1>6, <1>8, <1>10, <1>12, EditorSelects DEF EditStates
<1>14. /\ networks' = WithEdit(grown, selected, "Selected") /\ view_top_index' = view
       /\ work_mode' = work_mode /\ in_design' = TRUE /\ hotreload' = hotreload /\ file' = file
  BY <1>3, <1>6, <1>7, <1>9 DEF SelectDown
<1> QED
  BY <1>9, <1>13, <1>14 DEF ButtonDone

LEMMA SwappedEdited ==
  ASSUME NEW mode, NEW nets \in Ladders(mode), NEW i \in DOMAIN nets, NEW j \in DOMAIN nets,
         OnlyEdited(nets, i)
  PROVE  OnlyEdited(Swap(nets, i, j), j)
<1> DEFINE y == Swap(nets, i, j)
<1>1. /\ DOMAIN y = DOMAIN nets
      /\ \A k \in DOMAIN nets :
           y[k] = IF k = j THEN nets[i] ELSE IF k = i THEN nets[j] ELSE nets[k]
  BY SwappedNetworks
<1> HIDE DEF y
<1> QED
  BY <1>1 DEF OnlyEdited, y

LEMMA MoveNetworkDone ==
  ASSUME EditorInv, MemoryInv, MoveNetwork
  PROVE  ButtonDone
<1>1. PICK i : i = SelectedNetwork
  OBVIOUS
<1>2. DesignState = "Moving"
  BY DEF MoveNetwork, Designing
<1>3. /\ networks \in Ladders(work_mode) /\ OnlyEdited(networks, i)
      /\ DOMAIN networks = 1..Len(networks)
      /\ work_mode \in WorkModes /\ in_design = TRUE /\ i \in 1..Len(networks)
      /\ Len(networks) \in Nat /\ MaxNetworksCount \in Nat /\ Len(networks) <= MaxNetworksCount
      /\ view_top_index \in Nat \ {0} /\ view_top_index <= Len(networks)
      /\ i \in {view_top_index, view_top_index + 1}
  BY <1>1, <1>2, DesigningFacts
<1>4. \E view, selected, j :
        /\ Scroll(i, [view |-> view, selected |-> selected])
        /\ view \in Nat \ {0} /\ view <= Len(networks)
        /\ selected \in 0..(MaxNetworksCount + 1)
        /\ j \in DOMAIN networks /\ j \in {view, view + 1}
        /\ networks' = IF j = i THEN networks ELSE Swap(networks, i, j)
  <2>1. CASE /\ networks' = IF i > 1 THEN Swap(networks, i, i - 1) ELSE networks
             /\ Scroll(i, ScrolledUp(i))
    <3>1. PICK view, selected : ScrolledUp(i) = [view |-> view, selected |-> selected]
      BY DEF ScrolledUp
    <3> DEFINE j == IF i > 1 THEN i - 1 ELSE i
    <3>2. j \in DOMAIN networks /\ (j = i <=> ~(i > 1))
      BY <1>3
    <3>3. networks' = IF j = i THEN networks ELSE Swap(networks, i, j)
      BY <2>1, <3>2
    <3>4. /\ view \in Nat \ {0} /\ view <= Len(networks)
          /\ selected \in 0..(MaxNetworksCount + 1) /\ j \in {view, view + 1}
      <4>1. CASE i > view_top_index
        <5>1. view = view_top_index /\ selected = i - 1
          BY <3>1, <4>1 DEF ScrolledUp
        <5> QED
          BY <1>3, <4>1, <5>1
      <4>2. CASE ~(i > view_top_index) /\ view_top_index > 1
        <5>1. view = view_top_index - 1 /\ selected = i - 1
          BY <3>1, <4>2 DEF ScrolledUp
        <5> QED
          BY <1>3, <4>2, <5>1
      <4>3. CASE ~(i > view_top_index) /\ ~(view_top_index > 1)
        <5>1. view = view_top_index /\ selected = i
          BY <3>1, <4>3 DEF ScrolledUp
        <5> QED
          BY <1>3, <4>3, <5>1
      <4> QED
        BY <4>1, <4>2, <4>3
    <3> HIDE DEF j
    <3> QED
      BY <2>1, <3>1, <3>2, <3>3, <3>4
  <2>2. CASE /\ networks' = IF i < Len(networks) THEN Swap(networks, i, i + 1) ELSE networks
             /\ Scroll(i, ScrolledDown(networks, i))
    <3>1. PICK view, selected : ScrolledDown(networks, i) = [view |-> view, selected |-> selected]
      BY DEF ScrolledDown
    <3> DEFINE j == IF i < Len(networks) THEN i + 1 ELSE i
    <3>2. j \in DOMAIN networks /\ (j = i <=> ~(i < Len(networks)))
      BY <1>3
    <3>3. networks' = IF j = i THEN networks ELSE Swap(networks, i, j)
      BY <2>2, <3>2
    <3>4. /\ view \in Nat \ {0} /\ view <= Len(networks)
          /\ selected \in 0..(MaxNetworksCount + 1) /\ j \in {view, view + 1}
      <4>1. CASE i + 1 < view_top_index + ViewPort
        <5>1. view = view_top_index /\ selected = i + 1
          BY <3>1, <4>1 DEF ScrolledDown
        <5> QED
          BY <1>3, <4>1, <5>1 DEF ViewPort
      <4>2. CASE ~(i + 1 < view_top_index + ViewPort)
        <5>1. i = view_top_index + 1 /\ view_top_index + ViewPort <= Len(networks) + 1
          BY <1>3, <4>2 DEF ViewPort
        <5>2. view = view_top_index + 1 /\ selected = i + 1
          BY <3>1, <4>2, <5>1 DEF ScrolledDown
        <5> QED
          BY <1>3, <5>1, <5>2
      <4> QED
        BY <4>1, <4>2
    <3> HIDE DEF j
    <3> QED
      BY <2>2, <3>1, <3>2, <3>3, <3>4
  <2> QED
    BY <1>1, <2>1, <2>2 DEF MoveNetwork
<1>5. PICK view, selected, j :
        /\ Scroll(i, [view |-> view, selected |-> selected])
        /\ view \in Nat \ {0} /\ view <= Len(networks)
        /\ selected \in 0..(MaxNetworksCount + 1)
        /\ j \in DOMAIN networks /\ j \in {view, view + 1}
        /\ networks' = IF j = i THEN networks ELSE Swap(networks, i, j)
  BY <1>4
<1>6. view \in 1..MaxNetworksCount
  BY <1>3, <1>5
<1>7. view_top_index' = view /\ writes' \in Seq(RecordWrites)
  BY <1>5, <1>6, ScrollWritten DEF MemoryInv
<1>8. networks' \in Ladders(work_mode) /\ Len(networks') = Len(networks) /\ OnlyEdited(networks', j)
  <2>1. CASE j = i
    BY <1>3, <1>5, <2>1
  <2>2. CASE j # i
    <3>1. Swap(networks, i, j) \in Ladders(work_mode) /\ Len(Swap(networks, i, j)) = Len(networks)
      BY <1>3, <1>5, SwappedNetworks
    <3>2. OnlyEdited(Swap(networks, i, j), j)
      BY <1>3, <1>5, SwappedEdited
    <3> QED
      BY <1>5, <2>2, <3>1, <3>2
  <2> QED
    BY <2>1, <2>2
<1>9. Editor(networks', view, work_mode, TRUE)
  BY <1>3, <1>5, <1>8, EditorShows
<1>10. work_mode' = work_mode /\ in_design' = TRUE /\ hotreload' = hotreload /\ file' = file
  BY <1>3 DEF MoveNetwork
<1> QED
  BY <1>7, <1>9, <1>10 DEF ButtonDone

\* Operators for what EXCEPT does, so that a lemma about it can be applied.
Put(nets, i, n) == [nets EXCEPT ![i] = n]
Filled(nets, i, content) == [nets EXCEPT ![i].content = content]
Refilled(nets, i, edit, content) == [nets EXCEPT ![i].edit = edit, ![i].content = content]

\* One network is changed, the others stay as they are.
LEMMA OneChanged ==
  ASSUME NEW mode, NEW nets \in Ladders(mode), NEW i \in DOMAIN nets, NEW n \in NetworkItems,
         n.state = InMode(n.state, mode)
  PROVE  LET y == Put(nets, i, n) IN
         /\ y \in Ladders(mode) /\ Len(y) = Len(nets) /\ DOMAIN y = DOMAIN nets
         /\ y[i] = n /\ \A k \in DOMAIN nets : k # i => y[k] = nets[k]
         /\ OnlyEdited(nets, i) /\ n.edit # "Regular" => OnlyEdited(y, i)
         /\ OnlyEdited(nets, i) /\ n.edit = "Regular" => NoneEdited(y)
<1> DEFINE y == Put(nets, i, n)
<1>1. y = [k \in DOMAIN nets |-> y[k]]
  BY LadderElements DEF Put
<1>2. y[i] = n /\ \A k \in DOMAIN nets : k # i => y[k] = nets[k]
  BY DEF Put
<1> HIDE DEF y
<1>3. \A k \in DOMAIN nets : y[k] \in NetworkItems /\ y[k].state = InMode(y[k].state, mode)
  BY <1>2, LadderElements
<1>4. y \in Ladders(mode) /\ Len(y) = Len(nets) /\ DOMAIN y = DOMAIN nets
  BY <1>1, <1>3, LadderChanged
<1>5. OnlyEdited(nets, i) /\ n.edit # "Regular" => OnlyEdited(y, i)
  BY <1>2, <1>4 DEF OnlyEdited
<1>6. OnlyEdited(nets, i) /\ n.edit = "Regular" => NoneEdited(y)
  BY <1>2, <1>4 DEF OnlyEdited, NoneEdited
<1> QED
  BY <1>2, <1>4, <1>5, <1>6 DEF y

\* An edited network is changed, and goes on being edited.
LEMMA EditedGoesOn ==
  ASSUME EditorInv, DesignState # "Regular", NEW i, i = SelectedNetwork,
         NEW content \in Contents, NEW edit \in EditStates \ {"Regular"},
         networks' = Put(networks, i,
           [content |-> content, state |-> networks[i].state, edit |-> edit]),
         UNCHANGED <<view_top_index, work_mode, in_design>>
  PROVE  Editor(networks', view_top_index', work_mode', in_design')
<1> DEFINE n == [content |-> content, state |-> networks[i].state, edit |-> edit]
<1>1. /\ networks \in Ladders(work_mode) /\ OnlyEdited(networks, i) /\ i \in DOMAIN networks
      /\ work_mode \in WorkModes /\ in_design = TRUE
      /\ view_top_index \in Nat \ {0} /\ view_top_index <= Len(networks)
      /\ i \in {view_top_index, view_top_index + 1}
  BY DesigningFacts
<1>2. /\ networks[i].state \in NetworkStates /\ n.state = InMode(n.state, work_mode)
  BY <1>1, LadderElements
<1>3. n \in NetworkItems /\ n.edit # "Regular"
  BY <1>2 DEF NetworkItems
<1> HIDE DEF n
<1>4. networks' \in Ladders(work_mode) /\ Len(networks') = Len(networks) /\ OnlyEdited(networks', i)
  <2> DEFINE y == Put(networks, i, n)
  <2>1. networks' = y
    BY DEF n
  <2>2. y \in Ladders(work_mode) /\ Len(y) = Len(networks)
    BY <1>1, <1>2, <1>3, OneChanged
  <2>3. OnlyEdited(y, i)
    BY <1>1, <1>2, <1>3, OneChanged
  <2> HIDE DEF y
  <2> QED
    BY <2>1, <2>2, <2>3
<1>5. Editor(networks', view_top_index, work_mode, TRUE)
  BY <1>1, <1>4, EditorShows
<1> QED
  BY <1>1, <1>5

LEMMA NetworkFields ==
  ASSUME NEW mode, NEW nets \in Ladders(mode), NEW i \in DOMAIN nets, NEW edit, NEW content
  PROVE  /\ WithEdit(nets, i, edit) =
              Put(nets, i, [content |-> nets[i].content, state |-> nets[i].state, edit |-> edit])
         /\ Filled(nets, i, content) =
              Put(nets, i, [content |-> content, state |-> nets[i].state, edit |-> nets[i].edit])
         /\ Refilled(nets, i, edit, content) =
              Put(nets, i, [content |-> content, state |-> nets[i].state, edit |-> edit])
<1> DEFINE n == nets[i]
           first == [n EXCEPT !.edit = edit]
           second == [n EXCEPT !.content = content]
           both == [first EXCEPT !.content = content]
<1>1. n = [content |-> n.content, state |-> n.state, edit |-> n.edit]
  BY LadderElements
<1>2. /\ WithEdit(nets, i, edit) = [nets EXCEPT ![i] = first]
      /\ Filled(nets, i, content) = [nets EXCEPT ![i] = second]
      /\ Refilled(nets, i, edit, content) = [nets EXCEPT ![i] = both]
  BY DEF WithEdit, Filled, Refilled
<1> HIDE DEF n
<1>3. /\ first = [content |-> n.content, state |-> n.state, edit |-> edit]
      /\ second = [content |-> content, state |-> n.state, edit |-> n.edit]
  BY <1>1
<1> HIDE DEF first, second
<1>4. both = [content |-> content, state |-> n.state, edit |-> edit]
  BY <1>3
<1> HIDE DEF both
<1> QED
  BY <1>2, <1>3, <1>4 DEF Put, n

LEMMA EditElementsDone ==
  ASSUME EditorInv, MemoryInv, EditElements
  PROVE  ButtonDone
<1>1. PICK i : i = SelectedNetwork
  OBVIOUS
<1>2. DesignState = "Editing" /\ writes = <<>>
  BY DEF EditElements, Designing
<1>3. networks \in Ladders(work_mode) /\ i \in DOMAIN networks /\ networks[i].edit = "Editing"
  BY <1>1, <1>2, DesigningFacts
<1>4. PICK content \in Contents \ {"empty"} : networks' = [networks EXCEPT ![i].content = content]
  BY <1>1 DEF EditElements
<1>5. networks' = Put(networks, i,
        [content |-> content, state |-> networks[i].state, edit |-> "Editing"])
  <2>1. networks' = Filled(networks, i, content)
    BY <1>4 DEF Filled
  <2>2. /\ WithEdit(networks, i, "Editing") =
             Put(networks, i, [content |-> networks[i].content, state |-> networks[i].state,
                               edit |-> "Editing"])
        /\ Filled(networks, i, content) =
             Put(networks, i, [content |-> content, state |-> networks[i].state,
                               edit |-> networks[i].edit])
    BY <1>3, NetworkFields
  <2> QED
    BY <1>3, <2>1, <2>2
<1>6. Editor(networks', view_top_index', work_mode', in_design')
  <2>1. content \in Contents /\ "Editing" \in EditStates \ {"Regular"} /\ DesignState # "Regular"
    BY <1>2 DEF EditStates
  <2>2. UNCHANGED <<view_top_index, work_mode, in_design>>
    BY DEF EditElements
  <2> QED
    BY <1>1, <1>5, <2>1, <2>2, EditedGoesOn
<1> QED
  BY <1>2, <1>6 DEF ButtonDone, EditElements

\* Only the way a network is edited changes.
LEMMA OtherEditDone ==
  ASSUME EditorInv, DesignState # "Regular", writes = <<>>,
         NEW edit \in EditStates \ {"Regular"},
         networks' = WithEdit(networks, SelectedNetwork, edit),
         UNCHANGED <<view_top_index, work_mode, in_design, hotreload, file, writes>>
  PROVE  ButtonDone
<1>1. PICK i : i = SelectedNetwork
  OBVIOUS
<1>2. networks \in Ladders(work_mode) /\ i \in DOMAIN networks
  BY <1>1, DesigningFacts
<1>3. networks' = Put(networks, i,
        [content |-> networks[i].content, state |-> networks[i].state, edit |-> edit])
  BY <1>1, <1>2, NetworkFields
<1>4. networks[i].content \in Contents
  BY <1>2, LadderElements
<1>5. Editor(networks', view_top_index', work_mode', in_design')
  BY <1>1, <1>3, <1>4, EditedGoesOn
<1> QED
  BY <1>5 DEF ButtonDone

LEMMA TurnAdvancedSelectDone ==
  ASSUME EditorInv, MemoryInv, TurnAdvancedSelect
  PROVE  ButtonDone
<1>1. PICK edit \in AdvancedSelects : networks' = WithEdit(networks, SelectedNetwork, edit)
  BY DEF TurnAdvancedSelect
<1>2. edit \in EditStates \ {"Regular"} /\ DesignState # "Regular"
  BY DEF EditStates, AdvancedSelects, TurnAdvancedSelect
<1> QED
  BY <1>1, <1>2, OtherEditDone DEF TurnAdvancedSelect

LEMMA BeginAdvancedDone ==
  ASSUME EditorInv, MemoryInv, BeginAdvanced
  PROVE  ButtonDone
<1>1. PICK edit : /\ edit \in EditStates \ {"Regular"}
                  /\ networks' = WithEdit(networks, SelectedNetwork, edit)
  BY DEF BeginAdvanced, EditStates, AdvancedSelects, AdvancedEdits, AdvancedEdit
<1>2. DesignState # "Regular"
  BY DEF BeginAdvanced, AdvancedSelects
<1> QED
  BY <1>1, <1>2, OtherEditDone DEF BeginAdvanced

LEMMA BeginEditingDone ==
  ASSUME EditorInv, MemoryInv, BeginEditing
  PROVE  ButtonDone
<1>1. PICK i : i = SelectedNetwork
  OBVIOUS
<1>2. DesignState = "Selected"
  BY DEF BeginEditing, Designing
<1>3. networks \in Ladders(work_mode) /\ i \in DOMAIN networks /\ i \in 1..Len(networks)
      /\ Len(networks) \in Nat /\ Len(networks) <= MaxNetworksCount /\ MaxNetworksCount \in Nat
  BY <1>1, <1>2, DesigningFacts
<1>4. PICK content \in {networks[i].content, "wires"} :
        networks' = [networks EXCEPT ![i].edit = "Editing", ![i].content = content]
  BY <1>1 DEF BeginEditing
<1>5. networks' = Put(networks, i,
        [content |-> content, state |-> networks[i].state, edit |-> "Editing"])
  <2>1. networks' = Refilled(networks, i, "Editing", content)
    BY <1>4 DEF Refilled
  <2> QED
    BY <1>3, <2>1, NetworkFields
<1>6. content \in Contents
  BY <1>3, LadderElements DEF Contents
<1>7. Editor(networks', view_top_index', work_mode', in_design')
  <2>1. "Editing" \in EditStates \ {"Regular"} /\ DesignState # "Regular"
    BY <1>2 DEF EditStates
  <2>2. UNCHANGED <<view_top_index, work_mode, in_design>>
    BY DEF BeginEditing
  <2> QED
    BY <1>1, <1>5, <1>6, <2>1, <2>2, EditedGoesOn
<1>8. writes' \in Seq(RecordWrites)
  <2>1. i \in 0..(MaxNetworksCount + 1)
    BY <1>3
  <2>2. [hotreload EXCEPT !.selected = i] \in Hotreloads
    BY <2>1, RecordChanges DEF MemoryInv
  <2>3. writes' = ToHotreload([hotreload EXCEPT !.selected = i])
    BY <1>1 DEF BeginEditing
  <2> QED
    BY <2>2, <2>3, RecordWritten
<1> QED
  BY <1>7, <1>8 DEF ButtonDone, BeginEditing

LEMMA EndedCloses ==
  ASSUME EditorInv, DesignState # "Regular", NEW i, i = SelectedNetwork
  PROVE  /\ Ended(networks, i) \in Ladders(work_mode) /\ NoneEdited(Ended(networks, i))
         /\ Len(Ended(networks, i)) = Len(networks)
         /\ Editor(Ended(networks, i), view_top_index, work_mode, FALSE)
<1>1. /\ networks \in Ladders(work_mode) /\ OnlyEdited(networks, i) /\ i \in DOMAIN networks
      /\ work_mode \in WorkModes
      /\ view_top_index \in Nat \ {0} /\ view_top_index <= Len(networks)
  BY DesigningFacts
<1> DEFINE y == Ended(networks, i)
<1>2. /\ y \in Ladders(work_mode) /\ Len(y) = Len(networks) /\ DOMAIN y = DOMAIN networks
      /\ y[i].edit = "Regular" /\ \A k \in DOMAIN networks : k # i => y[k] = networks[k]
  <2>1. /\ y \in Ladders(work_mode) /\ Len(y) = Len(networks) /\ DOMAIN y = DOMAIN networks
        /\ \A k \in DOMAIN networks : k # i => y[k] = networks[k]
    BY <1>1, EndedNetworks
  <2>2. y[i] = [content |-> Bare(networks[i].content), state |-> networks[i].state,
                edit |-> "Regular"]
    BY <1>1, EndedNetworks
  <2> HIDE DEF y
  <2> QED
    BY <2>1, <2>2
<1> HIDE DEF y
<1>3. NoneEdited(y)
  BY <1>1, <1>2 DEF NoneEdited, OnlyEdited
<1>4. ViewFits(y, view_top_index)
  <2>1. y # <<>>
    BY <1>1, <1>2
  <2> QED
    BY <1>1, <1>2, <2>1 DEF ViewFits
<1> QED
  BY <1>1, <1>2, <1>3, <1>4, EditorCloses DEF y

LEMMA CancelAdvancedDone ==
  ASSUME EditorInv, MemoryInv, CancelAdvanced
  PROVE  ButtonDone
<1>1. PICK i : i = SelectedNetwork
  OBVIOUS
<1>2. DesignState # "Regular" /\ writes = <<>>
  BY DEF CancelAdvanced, AdvancedSelects, AdvancedEdits
<1>3. networks' = Ended(networks, i)
  BY <1>1 DEF CancelAdvanced
<1>4. Editor(Ended(networks, i), view_top_index, work_mode, FALSE)
  BY <1>1, <1>2, EndedCloses
<1>5. /\ view_top_index' = view_top_index /\ work_mode' = work_mode /\ in_design' = FALSE
      /\ writes' = <<>> /\ hotreload' = hotreload /\ file' = file
  BY <1>2 DEF CancelAdvanced
<1>6. Editor(networks', view_top_index', work_mode', in_design')
  BY <1>3, <1>4, <1>5
<1> QED
  BY <1>5, <1>6 DEF ButtonDone

\* The last selected network is selected again, if it is shown.
LEMMA BeginDesignDone ==
  ASSUME EditorInv, MemoryInv, BeginDesign
  PROVE  ButtonDone
<1> DEFINE nets == IF networks = <<>> THEN <<NewNetwork(work_mode)>> ELSE networks
           last == Clamped(hotreload.selected, view_top_index)
           i == IF last \in DOMAIN nets THEN last ELSE view_top_index
<1>1. OpenDesign(nets, view_top_index, hotreload, work_mode)
  BY DEF BeginDesign
<1>2. /\ in_design' = MayDesign(work_mode, hotreload)
      /\ networks' = IF in_design' THEN WithEdit(nets, i, "Selected") ELSE nets
      /\ writes' = IF in_design' /\ i # last THEN ToHotreload([hotreload EXCEPT !.selected = i]) ELSE <<>>
  BY <1>1 DEF OpenDesign
<1>3. networks \in Ladders(work_mode) /\ work_mode \in WorkModes
      /\ ViewFits(networks, view_top_index) /\ NoneEdited(networks)
  BY RegularFacts DEF EditorInv, Editor, BeginDesign, Designing
<1>4. nets \in Ladders(work_mode) /\ NoneEdited(nets) /\ view_top_index \in Nat \ {0}
      /\ Len(nets) \in Nat /\ view_top_index <= Len(nets)
  BY <1>3, FirstNetwork, LadderElements DEF ViewFits
<1> HIDE DEF nets
<1>5. DOMAIN nets = 1..Len(nets) /\ Len(nets) <= MaxNetworksCount /\ nets # <<>>
      /\ MaxNetworksCount \in Nat
  BY <1>4, LadderElements, NetworksCountAssumption
<1>6. hotreload.selected \in Nat /\ hotreload.debug \in BOOLEAN /\ hotreload \in Hotreloads
  BY NetworksCountAssumption DEF MemoryInv, Hotreloads
<1>7. last \in {view_top_index, view_top_index + 1}
  BY <1>4, <1>6 DEF Clamped, ViewPort
<1> HIDE DEF last
<1>8. i \in DOMAIN nets /\ i \in {view_top_index, view_top_index + 1} /\ i \in 0..(MaxNetworksCount + 1)
  BY <1>4, <1>5, <1>7
<1> HIDE DEF i
<1>9. in_design' \in BOOLEAN
  BY <1>2, <1>6 DEF MayDesign
<1>10. Editor(networks', view_top_index, work_mode, in_design')
  <2>1. CASE in_design' = TRUE
    <3>1. Editor(WithEdit(nets, i, "Selected"), view_top_index, work_mode, TRUE)
      BY <1>3, <1>4, <1>5, <1>8, EditorSelects DEF EditStates
    <3> QED
      BY <1>2, <2>1, <3>1
  <2>2. CASE in_design' = FALSE
    <3>1. ViewFits(nets, view_top_index)
      BY <1>4, <1>5 DEF ViewFits
    <3> QED
      BY <1>2, <1>3, <1>4, <2>2, <3>1, EditorCloses
  <2> QED
    BY <1>9, <2>1, <2>2
<1>11. writes' \in Seq(RecordWrites)
  <2>1. [hotreload EXCEPT !.selected = i] \in Hotreloads
    BY <1>6, <1>8, RecordChanges
  <2>2. ToHotreload([hotreload EXCEPT !.selected = i]) \in Seq(RecordWrites)
    BY <2>1, RecordWritten
  <2> QED
    BY <1>2, <2>2
<1> QED
  BY <1>10, <1>11 DEF ButtonDone, BeginDesign

LEMMA ButtonsDone ==
  ASSUME EditorInv, MemoryInv, Buttons
  PROVE  ButtonDone
BY ScrollViewDone, SelectUpDone, SelectDownDone, MoveNetworkDone, EditElementsDone,
   TurnAdvancedSelectDone, BeginDesignDone, BeginEditingDone, BeginAdvancedDone, CancelAdvancedDone
   DEF Buttons
-----------------------------------------------------------------------------
(* The end of an editing, and a change of the mode: the program is stored *)

\* Records are written, and the program, if it can be serialized.
Stored(w, mode, nets) ==
  IF Serializable(nets)
  THEN /\ w \in Seq(RecordWrites \cup FileWrites({Program(mode, nets)}))
       /\ \E k \in DOMAIN w : w[k].to = "file"
  ELSE w \in Seq(RecordWrites)

LEMMA StoredStore ==
  ASSUME NEW mode, NEW nets
  PROVE  Stored(Store(mode, nets), mode, nets)
<1> DEFINE e == [to |-> "file", value |-> Program(mode, nets)]
<1>1. e \in FileWrites({Program(mode, nets)}) /\ e.to = "file"
  BY DEF FileWrites
<1>2. Store(mode, nets) = IF Serializable(nets) THEN <<e>> ELSE <<>>
  BY DEF Store
<1> HIDE DEF e
<1>3. /\ <<e>> \in Seq(RecordWrites \cup FileWrites({Program(mode, nets)}))
      /\ DOMAIN <<e>> = {1} /\ <<e>>[1] = e
  BY <1>1
<1>4. <<>> \in Seq(RecordWrites)
  OBVIOUS
<1> QED
  BY <1>1, <1>2, <1>3, <1>4 DEF Stored

\* Records that are written before or after change nothing.
LEMMA StoredAround ==
  ASSUME NEW mode, NEW nets, NEW w, Stored(w, mode, nets), NEW u \in Seq(RecordWrites)
  PROVE  Stored(u \o w, mode, nets) /\ Stored(w \o u, mode, nets)
<1> DEFINE all == RecordWrites \cup FileWrites({Program(mode, nets)})
<1>1. CASE ~Serializable(nets)
  BY <1>1 DEF Stored
<1>2. CASE Serializable(nets)
  <2>1. w \in Seq(all) /\ u \in Seq(all)
    BY <1>2 DEF Stored
  <2>2. PICK k \in DOMAIN w : w[k].to = "file"
    BY <1>2 DEF Stored
  <2> HIDE DEF all
  <2>3. u \o w \in Seq(all) /\ w \o u \in Seq(all)
    BY <2>1
  <2>4. Len(u) + k \in DOMAIN (u \o w) /\ (u \o w)[Len(u) + k] = w[k]
    BY <2>1
  <2>5. k \in DOMAIN (w \o u) /\ (w \o u)[k] = w[k]
    BY <2>1
  <2> QED
    BY <1>2, <2>2, <2>3, <2>4, <2>5 DEF Stored, all
<1> QED
  BY <1>1, <1>2

LEMMA SerializableProgram ==
  ASSUME NEW mode \in WorkModes, NEW nets \in Ladders(mode), Serializable(nets)
  PROVE  Program(mode, nets) \in Programs
<1> DEFINE saved(i) == [content |-> nets[i].content, state |-> nets[i].state]
           y == [i \in DOMAIN nets |-> saved(i)]
           p == [mode |-> mode, networks |-> y]
<1>1. nets \in Seq(NetworkItems) /\ \A i \in DOMAIN nets : saved(i) \in SavedNetworks
  BY LadderElements DEF Serializable, SavedNetworks
<1>2. \A i \in DOMAIN nets : y[i] = saved(i)
  OBVIOUS
<1>3. y = [i \in DOMAIN nets |-> y[i]] /\ Program(mode, nets) = p
  BY DEF Program
<1> HIDE DEF y
<1>4. y \in Seq(SavedNetworks) /\ Len(y) = Len(nets) /\ DOMAIN y = DOMAIN nets
  BY <1>1, <1>2, <1>3, ChangedInPlace
<1>5. StatesFit(y, mode)
  BY <1>2, <1>4, LadderElements DEF StatesFit
<1>6. p.mode = mode /\ p.networks = y
  OBVIOUS
<1>7. p \in [mode : WorkModes, networks : Seq(SavedNetworks)]
  BY <1>4
<1> HIDE DEF p
<1> QED
  BY <1>3, <1>4, <1>5, <1>6, <1>7 DEF Programs, Serializable

LEMMA StoredWrites ==
  ASSUME NEW mode \in WorkModes, NEW nets \in Ladders(mode), NEW w, Stored(w, mode, nets)
  PROVE  /\ w \in Seq(WriteItems)
         /\ Serializable(nets) =>
              /\ \A k \in DOMAIN w : w[k].to = "file" => w[k].value = Program(mode, nets)
              /\ \E k \in DOMAIN w : w[k].to = "file"
<1>1. CASE ~Serializable(nets)
  BY <1>1, RecordWritesAreWrites DEF Stored
<1>2. CASE Serializable(nets)
  <2> DEFINE p == Program(mode, nets)
             all == RecordWrites \cup FileWrites({p})
  <2>1. p \in Programs
    BY <1>2, SerializableProgram
  <2>2. w \in Seq(all) /\ \E k \in DOMAIN w : w[k].to = "file"
    BY <1>2 DEF Stored
  <2> HIDE DEF p
  <2>3. all \subseteq WriteItems /\ \A e \in all : e.to = "file" => e.value = p
    BY <2>1 DEF WriteItems, FileWrites, RecordWrites
  <2> HIDE DEF all
  <2>4. w \in Seq(WriteItems) /\ \A k \in DOMAIN w : w[k] \in all
    BY <2>2, <2>3
  <2> QED
    BY <1>2, <2>2, <2>3, <2>4 DEF p
<1> QED
  BY <1>1, <1>2

\* What the end of an editing leaves.
FinishDone ==
  /\ Editor(networks', view_top_index', work_mode', in_design')
  /\ Stored(writes', work_mode', networks')
  /\ hotreload' = hotreload /\ file' = file

\* Without the network that was edited, or one of several that are not.
LEMMA RemovedUnedited ==
  ASSUME NEW mode, NEW nets \in Ladders(mode), NEW i \in DOMAIN nets,
         NoneEdited(nets) \/ OnlyEdited(nets, i)
  PROVE  RemoveAt(nets, i) \in Ladders(mode) /\ NoneEdited(RemoveAt(nets, i))
<1> DEFINE y == RemoveAt(nets, i)
<1>1. /\ y \in Ladders(mode) /\ Len(y) = Len(nets) - 1
      /\ \A k \in 1..(Len(nets) - 1) : y[k] = nets[IF k < i THEN k ELSE k + 1]
  BY RemovedNetwork
<1> HIDE DEF y
<1>2. DOMAIN y = 1..(Len(nets) - 1) /\ DOMAIN nets = 1..Len(nets) /\ Len(nets) \in Nat
  BY <1>1, LadderElements
<1>3. \A k \in 1..(Len(nets) - 1) :
        (IF k < i THEN k ELSE k + 1) \in DOMAIN nets /\ (IF k < i THEN k ELSE k + 1) # i
  BY <1>2
<1>4. NoneEdited(y)
  BY <1>1, <1>2, <1>3 DEF NoneEdited, OnlyEdited
<1> QED
  BY <1>1, <1>4 DEF y

LEMMA FinishEditingDone ==
  ASSUME EditorInv, MemoryInv, FinishEditing
  PROVE  FinishDone
<1>1. PICK i : i = SelectedNetwork
  OBVIOUS
<1>2. DesignState # "Regular"
  BY DEF FinishEditing, Designing
<1> DEFINE ended == Ended(networks, i)
           removed == ended[i].content = "empty"
           nets == IF removed THEN RemoveAt(ended, i) ELSE ended
           view == IF removed THEN FitView(nets) ELSE view_top_index
           fitted == [hotreload EXCEPT !.view = IF view = view_top_index THEN @ ELSE view]
           first == IF view = view_top_index THEN <<>> ELSE ToHotreload(fitted)
           last == [fitted EXCEPT !.selected = IF removed THEN 0 ELSE i]
<1>3. /\ networks' = nets /\ view_top_index' = view
      /\ writes' = first \o Store(work_mode, nets) \o ToHotreload(last)
      /\ in_design' = FALSE /\ work_mode' = work_mode /\ hotreload' = hotreload /\ file' = file
  BY <1>1 DEF FinishEditing
<1>4. /\ networks \in Ladders(work_mode) /\ i \in DOMAIN networks /\ work_mode \in WorkModes
      /\ DOMAIN networks = 1..Len(networks) /\ Len(networks) \in Nat
      /\ MaxNetworksCount \in Nat /\ Len(networks) <= MaxNetworksCount
      /\ view_top_index \in Nat \ {0} /\ view_top_index <= Len(networks)
  BY <1>1, <1>2, DesigningFacts
<1>5. ended \in Ladders(work_mode) /\ NoneEdited(ended) /\ Len(ended) = Len(networks)
  BY <1>1, <1>2, EndedCloses
<1> HIDE DEF ended, removed
<1>6. nets \in Ladders(work_mode) /\ NoneEdited(nets) /\ ViewFits(nets, view)
  <2>1. DOMAIN ended = 1..Len(networks)
    BY <1>5, LadderElements
  <2>2. CASE removed
    <3>1. RemoveAt(ended, i) \in Ladders(work_mode) /\ NoneEdited(RemoveAt(ended, i))
      BY <1>4, <1>5, <2>1, RemovedUnedited
    <3>2. ViewFits(RemoveAt(ended, i), FitView(RemoveAt(ended, i)))
      BY <1>4, <3>1, FittedView
    <3> QED
      BY <2>2, <3>1, <3>2
  <2>3. CASE ~removed
    <3>1. ended # <<>>
      BY <1>4, <2>1
    <3> QED
      BY <1>4, <1>5, <2>3, <3>1 DEF ViewFits
  <2> QED
    BY <2>2, <2>3
<1> HIDE DEF nets, view
<1>7. Editor(nets, view, work_mode, FALSE)
  BY <1>4, <1>6, EditorCloses
<1>8. view \in 1..MaxNetworksCount
  BY <1>4, <1>6, LadderElements, NetworksCountAssumption DEF ViewFits
<1>9. fitted \in Hotreloads
  <2> DEFINE v == IF view = view_top_index THEN hotreload.view ELSE view
  <2>1. fitted = [hotreload EXCEPT !.view = v]
    OBVIOUS
  <2>2. v \in 1..MaxNetworksCount
    BY <1>8 DEF MemoryInv, Hotreloads
  <2> HIDE DEF v, fitted
  <2> QED
    BY <2>1, <2>2, RecordChanges DEF MemoryInv
<1> HIDE DEF fitted
<1>10. last \in Hotreloads
  <2>1. i \in 0..(MaxNetworksCount + 1) /\ 0 \in 0..(MaxNetworksCount + 1)
    BY <1>4
  <2> DEFINE selected == IF removed THEN 0 ELSE i
  <2>2. selected \in 0..(MaxNetworksCount + 1)
    BY <2>1
  <2> HIDE DEF selected
  <2>3. [fitted EXCEPT !.selected = selected] \in Hotreloads
    BY <1>9, <2>2, RecordChanges
  <2> QED
    BY <2>3 DEF selected
<1> HIDE DEF last
<1>11. first \in Seq(RecordWrites) /\ ToHotreload(last) \in Seq(RecordWrites)
  BY <1>9, <1>10, RecordWritten
<1> HIDE DEF first
<1>12. Stored(first \o Store(work_mode, nets), work_mode, nets)
  BY <1>11, StoredStore, StoredAround
<1>13. Stored(writes', work_mode, nets)
  BY <1>3, <1>11, <1>12, StoredAround
<1>14. Editor(networks', view_top_index', work_mode', in_design')
  BY <1>3, <1>7
<1>15. Stored(writes', work_mode', networks')
  BY <1>3, <1>13
<1> QED
  BY <1>3, <1>14, <1>15 DEF FinishDone

LEMMA FinishMovingDone ==
  ASSUME EditorInv, MemoryInv, FinishMoving
  PROVE  FinishDone
<1>1. PICK i : i = SelectedNetwork
  OBVIOUS
<1>2. DesignState # "Regular"
  BY DEF FinishMoving, Designing
<1>3. Editor(Ended(networks, i), view_top_index, work_mode, FALSE)
  BY <1>1, <1>2, EndedCloses
<1>4. /\ networks' = Ended(networks, i) /\ view_top_index' = view_top_index
      /\ writes' = Store(work_mode, networks')
      /\ in_design' = FALSE /\ work_mode' = work_mode /\ hotreload' = hotreload /\ file' = file
  BY <1>1 DEF FinishMoving
<1>5. Editor(networks', view_top_index', work_mode', in_design')
  BY <1>3, <1>4
<1>6. Stored(writes', work_mode', networks')
  BY <1>4, StoredStore
<1> QED
  BY <1>4, <1>5, <1>6 DEF FinishDone

LEMMA FinishCopyingDone ==
  ASSUME EditorInv, MemoryInv, FinishCopying
  PROVE  FinishDone
<1>1. PICK i : i = SelectedNetwork
  OBVIOUS
<1>2. DesignState # "Regular"
  BY DEF FinishCopying, Designing
<1> DEFINE ended == Ended(networks, i)
           copied == Duplicated(ended, i)
<1>3. /\ networks' = copied /\ view_top_index' = view_top_index
      /\ writes' = Store(work_mode, networks')
      /\ in_design' = FALSE /\ work_mode' = work_mode /\ hotreload' = hotreload /\ file' = file
  BY <1>1 DEF FinishCopying
<1>4. ended \in Ladders(work_mode) /\ NoneEdited(ended) /\ Len(ended) = Len(networks)
  BY <1>1, <1>2, EndedCloses
<1>5. /\ i \in 1..Len(networks) /\ Len(networks) \in Nat /\ work_mode \in WorkModes
      /\ view_top_index \in Nat \ {0} /\ view_top_index <= Len(networks)
  BY <1>1, <1>2, DesigningFacts
<1> HIDE DEF ended
<1>6. i \in DOMAIN ended
  BY <1>4, <1>5, LadderElements
<1>7. copied \in Ladders(work_mode) /\ Len(ended) <= Len(copied) /\ NoneEdited(copied)
  BY <1>4, <1>6, DuplicatedNetwork
<1> HIDE DEF copied
<1>8. ViewFits(copied, view_top_index)
  <2>1. Len(copied) \in Nat /\ (copied = <<>> <=> Len(copied) = 0)
    BY <1>7, LadderElements
  <2> QED
    BY <1>4, <1>5, <1>7, <2>1 DEF ViewFits
<1>9. Editor(copied, view_top_index, work_mode, FALSE)
  BY <1>5, <1>7, <1>8, EditorCloses
<1>10. Editor(networks', view_top_index', work_mode', in_design')
  BY <1>3, <1>9
<1>11. Stored(writes', work_mode', networks')
  BY <1>3, StoredStore
<1> QED
  BY <1>3, <1>10, <1>11 DEF FinishDone

LEMMA FinishDeletingDone ==
  ASSUME EditorInv, MemoryInv, FinishDeleting
  PROVE  FinishDone
<1>1. PICK i : i = SelectedNetwork
  OBVIOUS
<1>2. DesignState # "Regular"
  BY DEF FinishDeleting, Designing
<1> DEFINE nets == RemoveAt(networks, i)
           view == FitView(nets)
           first == IF view = view_top_index THEN <<>> ELSE ToHotreload([hotreload EXCEPT !.view = view])
<1>3. /\ networks' = nets /\ view_top_index' = view
      /\ writes' = first \o Store(work_mode, nets)
      /\ in_design' = FALSE /\ work_mode' = work_mode /\ hotreload' = hotreload /\ file' = file
  BY <1>1 DEF FinishDeleting
<1>4. /\ networks \in Ladders(work_mode) /\ OnlyEdited(networks, i) /\ i \in DOMAIN networks
      /\ work_mode \in WorkModes /\ view_top_index \in Nat \ {0}
  BY <1>1, <1>2, DesigningFacts
<1>5. nets \in Ladders(work_mode) /\ NoneEdited(nets)
  BY <1>4, RemovedUnedited
<1> HIDE DEF nets
<1>6. ViewFits(nets, view)
  BY <1>4, <1>5, FittedView
<1> HIDE DEF view
<1>7. Editor(nets, view, work_mode, FALSE)
  BY <1>4, <1>5, <1>6, EditorCloses
<1>8. view \in 1..MaxNetworksCount
  BY <1>5, <1>6, LadderElements, NetworksCountAssumption DEF ViewFits
<1>9. first \in Seq(RecordWrites)
  <2>1. [hotreload EXCEPT !.view = view] \in Hotreloads
    BY <1>8, RecordChanges DEF MemoryInv
  <2>2. ToHotreload([hotreload EXCEPT !.view = view]) \in Seq(RecordWrites)
    BY <2>1, RecordWritten
  <2> QED
    BY <2>2
<1> HIDE DEF first
<1>10. Stored(writes', work_mode, nets)
  BY <1>3, <1>9, StoredStore, StoredAround
<1>11. Editor(networks', view_top_index', work_mode', in_design')
  BY <1>3, <1>7
<1>12. Stored(writes', work_mode', networks')
  BY <1>3, <1>10
<1> QED
  BY <1>3, <1>11, <1>12 DEF FinishDone

LEMMA FinishDisablingDone ==
  ASSUME EditorInv, MemoryInv, FinishDisabling
  PROVE  FinishDone
<1>1. PICK i : i = SelectedNetwork
  OBVIOUS
<1>2. DesignState # "Regular"
  BY DEF FinishDisabling, Designing
<1> DEFINE ended == Ended(networks, i)
           n == [ended[i] EXCEPT !.state = Switched[ended[i].state]]
           nets == Put(ended, i, n)
<1>3. /\ networks' = nets /\ view_top_index' = view_top_index
      /\ writes' = Store(work_mode, networks')
      /\ in_design' = FALSE /\ work_mode' = work_mode /\ hotreload' = hotreload /\ file' = file
  BY <1>1 DEF FinishDisabling, Put
<1>4. /\ networks \in Ladders(work_mode) /\ work_mode \in WorkModes /\ i \in DOMAIN networks
      /\ DOMAIN networks = 1..Len(networks)
      /\ view_top_index \in Nat \ {0} /\ view_top_index <= Len(networks)
  BY <1>1, <1>2, DesigningFacts
<1>5. ended \in Ladders(work_mode) /\ NoneEdited(ended) /\ Len(ended) = Len(networks)
  BY <1>1, <1>2, EndedCloses
<1> HIDE DEF ended
<1>6. DOMAIN ended = 1..Len(networks) /\ Len(networks) \in Nat /\ i \in DOMAIN ended
  BY <1>4, <1>5, LadderElements
<1>7. /\ n = [content |-> ended[i].content, state |-> Switched[ended[i].state], edit |-> "Regular"]
      /\ ended[i].content \in Contents /\ ended[i].state \in NetworkStates
      /\ ended[i].state = InMode(ended[i].state, work_mode)
  BY <1>5, <1>6, LadderElements DEF NoneEdited
<1>8. \A s \in NetworkStates : s = InMode(s, work_mode) =>
        Switched[s] \in NetworkStates /\ Switched[s] = InMode(Switched[s], work_mode)
  BY <1>4 DEF Switched, NetworkStates, InMode, Active, Passive, WorkModes
<1>9. n \in NetworkItems /\ n.state = InMode(n.state, work_mode) /\ n.edit = "Regular"
  BY <1>7, <1>8 DEF NetworkItems, EditStates
<1> HIDE DEF n
<1>10. /\ nets \in Ladders(work_mode) /\ Len(nets) = Len(ended)
       /\ DOMAIN nets = DOMAIN ended /\ nets[i] = n
       /\ \A k \in DOMAIN ended : k # i => nets[k] = ended[k]
  <2>1. ended \in Ladders(work_mode) /\ i \in DOMAIN ended
    BY <1>5, <1>6
  <2>2. n \in NetworkItems /\ n.state = InMode(n.state, work_mode)
    BY <1>9
  <2>3. /\ Put(ended, i, n) \in Ladders(work_mode) /\ Len(Put(ended, i, n)) = Len(ended)
        /\ DOMAIN Put(ended, i, n) = DOMAIN ended
    BY <2>1, <2>2, OneChanged
  <2>4. Put(ended, i, n)[i] = n
    BY <2>1 DEF Put
  <2>5. \A k \in DOMAIN ended : k # i => Put(ended, i, n)[k] = ended[k]
    BY <2>1 DEF Put
  <2> QED
    BY <2>3, <2>4, <2>5
<1> HIDE DEF nets
<1>11. NoneEdited(nets)
  BY <1>5, <1>9, <1>10 DEF NoneEdited
<1>12. ViewFits(nets, view_top_index)
  <2>1. nets # <<>>
    BY <1>6, <1>10
  <2> QED
    BY <1>4, <1>5, <1>10, <2>1 DEF ViewFits
<1>13. Editor(nets, view_top_index, work_mode, FALSE)
  BY <1>4, <1>10, <1>11, <1>12, EditorCloses
<1>14. Editor(networks', view_top_index', work_mode', in_design')
  BY <1>3, <1>13
<1>15. Stored(writes', work_mode', networks')
  BY <1>3, StoredStore
<1> QED
  BY <1>3, <1>14, <1>15 DEF FinishDone

LEMMA FinishedDone ==
  ASSUME EditorInv, MemoryInv, Finish
  PROVE  FinishDone
BY FinishEditingDone, FinishMovingDone, FinishCopyingDone, FinishDeletingDone, FinishDisablingDone
   DEF Finish

LEMMA ChangedModeDone ==
  ASSUME EditorInv, MemoryInv, NEW mode \in WorkModes, NEW debug \in BOOLEAN,
         ChangeWorkMode(mode, debug)
  PROVE  FinishDone
<1> DEFINE y == [k \in DOMAIN networks |-> [networks[k] EXCEPT !.state = InMode(@, mode)]]
           record == [hotreload EXCEPT !.debug = debug]
<1>1. /\ networks' = y /\ work_mode' = mode /\ view_top_index' = view_top_index
      /\ in_design' = in_design /\ hotreload' = hotreload /\ file' = file
      /\ writes' = ToHotreload(record) \o Store(mode, networks')
  BY DEF ChangeWorkMode
<1>2. /\ networks \in Ladders(work_mode) /\ in_design \in BOOLEAN
      /\ ViewFits(networks, view_top_index) /\ Selection(networks, view_top_index, in_design)
  BY DEF EditorInv, Editor
<1>3. ASSUME NEW k \in DOMAIN networks
      PROVE  y[k] = [content |-> networks[k].content, state |-> InMode(networks[k].state, mode),
                     edit |-> networks[k].edit]
  <2> DEFINE n == networks[k]
  <2>1. n = [content |-> n.content, state |-> n.state, edit |-> n.edit]
    BY <1>2, LadderElements
  <2>2. y[k] = [n EXCEPT !.state = InMode(n.state, mode)]
    OBVIOUS
  <2> HIDE DEF n, y
  <2>3. y[k] = [content |-> n.content, state |-> InMode(n.state, mode), edit |-> n.edit]
    BY <2>1, <2>2
  <2> QED
    BY <2>3 DEF n
<1>4. y = [k \in DOMAIN networks |-> y[k]]
  OBVIOUS
<1> HIDE DEF y
<1>5. ASSUME NEW k \in DOMAIN networks
      PROVE  y[k] \in NetworkItems /\ y[k].state = InMode(y[k].state, mode)
  <2> DEFINE s == InMode(networks[k].state, mode)
  <2>1. /\ networks[k].content \in Contents /\ networks[k].state \in NetworkStates
        /\ networks[k].edit \in EditStates
    BY <1>2, LadderElements
  <2>2. s \in NetworkStates /\ InMode(s, mode) = s
    BY <2>1, InModeFits
  <2>3. y[k] = [content |-> networks[k].content, state |-> s, edit |-> networks[k].edit]
    BY <1>3
  <2> HIDE DEF s
  <2> QED
    BY <2>1, <2>2, <2>3 DEF NetworkItems
<1>6. y \in Ladders(mode) /\ Len(y) = Len(networks) /\ DOMAIN y = DOMAIN networks
  BY <1>2, <1>4, <1>5, LadderChanged
<1>7. ASSUME NEW k \in DOMAIN networks
      PROVE  y[k].edit = networks[k].edit
  <2> DEFINE s == InMode(networks[k].state, mode)
  <2>1. y[k] = [content |-> networks[k].content, state |-> s, edit |-> networks[k].edit]
    BY <1>3
  <2> HIDE DEF s
  <2> QED
    BY <2>1
<1>8. y = <<>> <=> networks = <<>>
  BY <1>2, <1>6, LadderElements
<1>9. ViewFits(y, view_top_index)
  BY <1>2, <1>6, <1>8 DEF ViewFits
<1>10. Selection(y, view_top_index, in_design)
  <2>1. NoneEdited(networks) => NoneEdited(y)
    BY <1>6, <1>7 DEF NoneEdited
  <2>2. \A i : OnlyEdited(networks, i) => OnlyEdited(y, i)
    BY <1>6, <1>7 DEF OnlyEdited
  <2> QED
    BY <1>2, <1>8, <2>1, <2>2 DEF Selection
<1>11. Editor(networks', view_top_index', work_mode', in_design')
  BY <1>1, <1>2, <1>6, <1>9, <1>10 DEF Editor
<1>12. ToHotreload(record) \in Seq(RecordWrites)
  <2>1. record \in Hotreloads
    BY RecordChanges DEF MemoryInv
  <2> QED
    BY <2>1, RecordWritten
<1> HIDE DEF record
<1>13. Stored(writes', work_mode', networks')
  BY <1>1, <1>12, StoredStore, StoredAround
<1> QED
  BY <1>1, <1>11, <1>13 DEF FinishDone
-----------------------------------------------------------------------------
(* What is loaded *)

LEMMA LoadedLadder ==
  ASSUME NEW p \in Programs, NEW other \in WorkModes
  PROVE  /\ LoadedMode(p, other) \in WorkModes
         /\ LoadedNetworks(p) \in Ladders(LoadedMode(p, other))
         /\ NoneEdited(LoadedNetworks(p))
         /\ p = NoFile <=> LoadedNetworks(p) = <<>>
         /\ p # NoFile => /\ Serializable(LoadedNetworks(p))
                          /\ Program(LoadedMode(p, other), LoadedNetworks(p)) = p
<1> DEFINE y == LoadedNetworks(p)
           mode == LoadedMode(p, other)
           n == p.networks
<1>1. CASE p = NoFile
  <2>1. y = <<>> /\ mode = other
    BY <1>1 DEF LoadedNetworks, LoadedMode, NoFile
  <2>2. <<>> \in Ladders(other)
    BY NetworksCountAssumption DEF Ladders, StatesFit
  <2> QED
    BY <1>1, <2>1, <2>2 DEF NoneEdited
<1>2. CASE p # NoFile
  <2>1. /\ p \in [mode : WorkModes, networks : Seq(SavedNetworks)]
        /\ Len(n) \in 1..MaxNetworksCount /\ StatesFit(n, p.mode) /\ mode = p.mode
    BY <1>2 DEF Programs, LoadedMode
  <2>2. p.mode \in WorkModes /\ n \in Seq(SavedNetworks) /\ p = [mode |-> p.mode, networks |-> n]
    BY <2>1
  <2>3. /\ DOMAIN n = 1..Len(n) /\ n = [k \in DOMAIN n |-> n[k]]
        /\ \A k \in DOMAIN n : n[k] \in SavedNetworks
    BY <2>2
  <2>4. y = [k \in DOMAIN n |-> y[k]]
        /\ \A k \in DOMAIN n :
             y[k] = [content |-> n[k].content, state |-> n[k].state, edit |-> "Regular"]
    BY DEF LoadedNetworks
  <2> HIDE DEF y, mode, n
  <2>5. \A k \in DOMAIN n :
          /\ n[k].content \in Contents /\ n[k].content # "empty" /\ n[k].state \in NetworkStates
          /\ n[k].state = InMode(n[k].state, mode)
          /\ n[k] = [content |-> n[k].content, state |-> n[k].state]
    BY <2>1, <2>3 DEF SavedNetworks, StatesFit
  <2>6. \A k \in DOMAIN n : y[k] \in NetworkItems
    BY <2>4, <2>5 DEF NetworkItems, EditStates
  <2>7. y \in Seq(NetworkItems) /\ Len(y) = Len(n) /\ DOMAIN y = DOMAIN n
    BY <2>2, <2>4, <2>6, ChangedInPlace
  <2>8. y \in Ladders(mode)
    BY <2>1, <2>4, <2>5, <2>7 DEF Ladders, StatesFit
  <2>9. Serializable(y) /\ NoneEdited(y) /\ y # <<>>
    BY <2>1, <2>4, <2>5, <2>7 DEF Serializable, NoneEdited
  <2>10. Program(mode, y) = p
    <3>1. [k \in DOMAIN y |-> [content |-> y[k].content, state |-> y[k].state]] = n
      BY <2>3, <2>4, <2>5, <2>7
    <3> QED
      BY <2>1, <2>2, <3>1 DEF Program
  <2> QED
    BY <1>2, <2>1, <2>2, <2>8, <2>9, <2>10 DEF y, mode
<1> QED
  BY <1>1, <1>2

\* A program is what the networks hold, whether they are edited or not.
LEMMA SameProgram ==
  ASSUME NEW mode, NEW nets, NEW other, DOMAIN nets = DOMAIN other,
         \A k \in DOMAIN nets :
           nets[k].content = other[k].content /\ nets[k].state = other[k].state
  PROVE  Program(mode, nets) = Program(mode, other)
BY DEF Program

LEMMA WithEditProgram ==
  ASSUME NEW mode, NEW nets \in Ladders(mode), NEW i, NEW edit \in EditStates
  PROVE  /\ \A m : Program(m, WithEdit(nets, i, edit)) = Program(m, nets)
         /\ Serializable(WithEdit(nets, i, edit)) <=> Serializable(nets)
<1> DEFINE y == WithEdit(nets, i, edit)
<1>1. Len(y) = Len(nets) /\ DOMAIN y = DOMAIN nets
  BY WithEditNetworks
<1>2. \A k \in DOMAIN nets :
        y[k] = [content |-> nets[k].content, state |-> nets[k].state,
                edit |-> IF k = i THEN edit ELSE nets[k].edit]
  BY WithEditNetworks
<1> HIDE DEF y
<1>3. ASSUME NEW k \in DOMAIN nets
      PROVE  y[k].content = nets[k].content /\ y[k].state = nets[k].state
  <2> DEFINE e == IF k = i THEN edit ELSE nets[k].edit
  <2>1. y[k] = [content |-> nets[k].content, state |-> nets[k].state, edit |-> e]
    BY <1>2
  <2> HIDE DEF e
  <2> QED
    BY <2>1
<1>4. \A m : Program(m, y) = Program(m, nets)
  BY <1>1, <1>3, SameProgram
<1>5. Serializable(y) <=> Serializable(nets)
  BY <1>1, <1>3 DEF Serializable
<1> QED
  BY <1>4, <1>5 DEF y

LEMMA LoadedRecordTyped ==
  ASSUME MemoryInv, NEW kept \in BOOLEAN
  PROVE  LoadedHotreload(kept) \in Hotreloads /\ ColdHotreload \in Hotreloads
BY NetworksCountAssumption DEF LoadedHotreload, MemoryInv, ColdHotreload, Hotreloads
-----------------------------------------------------------------------------
(* The start of the process task *)

LEMMA BootDone ==
  ASSUME MemoryInv, NEW record \in Hotreloads, Boot(record)
  PROVE  /\ Editor(networks', view_top_index', work_mode', in_design')
         /\ hotreload' \in Hotreloads /\ file' = file /\ writes' \in Seq(RecordWrites)
         /\ file # NoFile =>
              Serializable(networks') /\ Program(work_mode', networks') = file
<1> DEFINE loaded == LoadedNetworks(file)
           mode == LoadedMode(file, "Stop")
           view == RestoredView(record, loaded)
           nets == IF loaded = <<>> THEN <<NewNetwork(mode)>> ELSE loaded
           selects == loaded = <<>> \/ record.selected \in DOMAIN nets
           last == Clamped(record.selected, view)
           i == IF loaded = <<>> THEN view ELSE last
           more == IF loaded = <<>> /\ last # view
                   THEN ToHotreload([record EXCEPT !.selected = view]) ELSE <<>>
<1>1. /\ work_mode' = mode /\ view_top_index' = view
      /\ hotreload' = [record EXCEPT !.valid = FALSE]
      /\ in_design' = (selects /\ MayDesign(mode, record))
      /\ networks' = IF in_design' THEN WithEdit(nets, i, "Selected") ELSE nets
      /\ writes' = ToHotreload(record) \o more
      /\ file' = file
  BY DEF Boot, Start
<1>2. file \in Programs /\ "Stop" \in WorkModes
  BY DEF MemoryInv, WorkModes
<1>3. /\ mode \in WorkModes /\ loaded \in Ladders(mode) /\ NoneEdited(loaded)
      /\ file = NoFile <=> loaded = <<>>
      /\ file # NoFile => Serializable(loaded) /\ Program(mode, loaded) = file
  BY <1>2, LoadedLadder
<1> HIDE DEF loaded, mode
<1>4. record.view \in 1..MaxNetworksCount /\ record.selected \in Nat /\ MaxNetworksCount \in Nat \ {0}
  BY NetworksCountAssumption DEF Hotreloads
<1>5. Len(loaded) \in Nat /\ (loaded = <<>> <=> Len(loaded) = 0)
  BY <1>3, LadderElements
<1>6. /\ view \in 1..MaxNetworksCount
      /\ view = 1 \/ view + 1 <= Len(loaded)
  BY <1>4, <1>5 DEF RestoredView, ViewPort
<1> HIDE DEF view
<1>7. /\ nets \in Ladders(mode) /\ NoneEdited(nets) /\ nets # <<>>
      /\ IF loaded = <<>> THEN Len(nets) = 1 ELSE nets = loaded
  BY <1>3, FirstNetwork
<1>8. DOMAIN nets = 1..Len(nets) /\ Len(nets) \in Nat /\ Len(nets) # 0
  BY <1>7, LadderElements
<1> HIDE DEF nets
<1>9. last \in {view, view + 1}
      /\ (record.selected \in 1..Len(nets) /\ view + 1 > Len(nets) => last = view)
  BY <1>4, <1>6, <1>8 DEF Clamped, ViewPort
<1> HIDE DEF last
<1>10. selects => i \in DOMAIN nets /\ i \in {view, view + 1}
  <2>1. CASE loaded = <<>>
    BY <1>4, <1>5, <1>6, <1>7, <1>8, <2>1
  <2>2. CASE loaded # <<>> /\ record.selected \in DOMAIN nets
    <3>1. i = last /\ view <= Len(nets)
      BY <1>5, <1>6, <1>7, <1>8, <2>2
    <3> QED
      BY <1>4, <1>6, <1>8, <1>9, <2>2, <3>1
  <2> QED
    BY <2>1, <2>2
<1>11. view <= Len(nets) /\ view \in Nat \ {0}
  BY <1>4, <1>5, <1>6, <1>7, <1>8
<1> HIDE DEF i
<1>12. in_design' \in BOOLEAN
  BY <1>1
<1>13. Editor(networks', view, mode, in_design')
  <2>1. CASE in_design' = TRUE
    <3>1. i \in DOMAIN nets /\ i \in {view, view + 1}
      BY <1>1, <1>10, <2>1
    <3>2. Editor(WithEdit(nets, i, "Selected"), view, mode, TRUE)
      BY <1>3, <1>7, <1>11, <3>1, EditorSelects DEF EditStates
    <3> QED
      BY <1>1, <2>1, <3>2
  <2>2. CASE in_design' = FALSE
    <3>1. ViewFits(nets, view)
      BY <1>7, <1>11 DEF ViewFits
    <3> QED
      BY <1>1, <1>3, <1>7, <2>2, <3>1, EditorCloses
  <2> QED
    BY <1>12, <2>1, <2>2
<1>14. hotreload' \in Hotreloads
  BY <1>1, RecordChanges
<1>15. writes' \in Seq(RecordWrites)
  <2>1. ToHotreload(record) \in Seq(RecordWrites)
    BY RecordWritten
  <2>2. view \in 0..(MaxNetworksCount + 1)
    BY <1>4, <1>6
  <2>3. [record EXCEPT !.selected = view] \in Hotreloads
    BY <2>2, RecordChanges
  <2>4. ToHotreload([record EXCEPT !.selected = view]) \in Seq(RecordWrites)
    BY <2>3, RecordWritten
  <2>5. more \in Seq(RecordWrites)
    BY <2>4
  <2> HIDE DEF more
  <2> QED
    BY <1>1, <2>1, <2>5
<1>16. ASSUME file # NoFile
       PROVE  Serializable(networks') /\ Program(mode, networks') = file
  <2>1. nets = loaded /\ Serializable(nets) /\ Program(mode, nets) = file
    BY <1>3, <1>7, <1>16
  <2>2. /\ Program(mode, WithEdit(nets, i, "Selected")) = Program(mode, nets)
        /\ Serializable(WithEdit(nets, i, "Selected")) <=> Serializable(nets)
    BY <1>7, WithEditProgram DEF EditStates
  <2> QED
    BY <1>1, <2>1, <2>2
<1> QED
  BY <1>1, <1>13, <1>14, <1>15, <1>16
-----------------------------------------------------------------------------
(* What is saved *)

NoEditing(nets) == \A i \in DOMAIN nets : nets[i].edit # "Editing"

LEMMA OthersAreNotEdited ==
  ASSUME EditorInv, DesignState # "Editing"
  PROVE  NoEditing(networks)
<1>1. CASE DesignState = "Regular"
  BY <1>1, RegularFacts DEF NoEditing, NoneEdited
<1>2. CASE DesignState # "Regular"
  <2>1. PICK i : i = SelectedNetwork
    OBVIOUS
  <2>2. networks[i].edit = DesignState /\ OnlyEdited(networks, i)
    BY <1>2, <2>1, DesigningFacts
  <2> QED
    BY <2>2 DEF NoEditing, OnlyEdited
<1> QED
  BY <1>1, <1>2

\* The button changed no program that was saved.
ProgramKept ==
  NoEditing(networks) /\ Program(work_mode, networks') = Program(work_mode, networks)

LEMMA SelectKeepsProgram ==
  ASSUME EditorInv, Serializable(networks), Serializable(networks'),
         SelectUp \/ SelectDown
  PROVE  ProgramKept
<1>1. PICK i : i = SelectedNetwork
  OBVIOUS
<1>2. DesignState = "Selected"
  BY DEF SelectUp, SelectDown, Designing
<1>3. networks \in Ladders(work_mode) /\ i \in DOMAIN networks
      /\ DOMAIN networks = 1..Len(networks) /\ Len(networks) \in Nat
  BY <1>1, <1>2, DesigningFacts
<1> DEFINE left == WithEdit(networks, i, "Regular")
<1>4. Left(i) = left
  BY <1>3 DEF Left, Serializable
<1>5. /\ left \in Ladders(work_mode) /\ Len(left) = Len(networks)
      /\ Program(work_mode, left) = Program(work_mode, networks)
  BY <1>3, WithEditNetworks, WithEditProgram DEF EditStates
<1> HIDE DEF left
<1>6. \E k : networks' = WithEdit(left, k, "Selected")
  <2>1. CASE SelectUp
    BY <1>1, <1>4, <2>1 DEF SelectUp
  <2>2. CASE SelectDown
    <3> DEFINE y == Append(left, NewNetwork(work_mode))
    <3>1. PICK k : networks' = WithEdit(left, k, "Selected") \/ networks' = WithEdit(y, k, "Selected")
      BY <1>1, <1>4, <2>2 DEF SelectDown
    <3>2. CASE networks' = WithEdit(y, k, "Selected")
      <4>1. \/ Len(left) < MaxNetworksCount /\ work_mode \in WorkModes
            \/ ~ (Len(y) <= MaxNetworksCount)
        <5>1. Len(y) = Len(left) + 1
          BY <1>3, <1>5, LadderElements
        <5>2. MaxNetworksCount \in Nat /\ Len(left) \in Nat
          BY <1>3, <1>5, NetworksCountAssumption
        <5> QED
          BY <5>1, <5>2 DEF EditorInv, Editor
      <4>2. CASE ~ (Len(y) <= MaxNetworksCount)
        <5> HIDE DEF y
        <5>1. Len(networks') = Len(y)
          BY <3>2 DEF WithEdit
        <5> QED
          BY <4>2, <5>1 DEF Serializable
      <4>3. CASE Len(left) < MaxNetworksCount /\ work_mode \in WorkModes
        <5>1. /\ y \in Ladders(work_mode) /\ Len(y) = Len(left) + 1
              /\ y[Len(left) + 1] = NewNetwork(work_mode)
          BY <1>5, <4>3, AppendedNetwork
        <5> HIDE DEF y
        <5>2. Serializable(y)
          BY <3>2, <5>1, WithEditProgram DEF EditStates
        <5>3. Len(left) + 1 \in DOMAIN y
          BY <1>3, <1>5, <5>1, LadderElements
        <5> QED
          BY <5>1, <5>2, <5>3 DEF Serializable, NewNetwork
      <4> QED
        BY <4>1, <4>2, <4>3
    <3> QED
      BY <3>1, <3>2
  <2> QED
    BY <2>1, <2>2
<1>7. Program(work_mode, networks') = Program(work_mode, networks)
  BY <1>5, <1>6, WithEditProgram DEF EditStates
<1> QED
  BY <1>2, <1>7, OthersAreNotEdited DEF ProgramKept

LEMMA OtherEditKeepsProgram ==
  ASSUME EditorInv, TurnAdvancedSelect \/ BeginAdvanced
  PROVE  ProgramKept
<1>1. DesignState # "Editing" /\ networks \in Ladders(work_mode)
  BY DEF TurnAdvancedSelect, BeginAdvanced, AdvancedSelects, EditorInv, Editor
<1>2. \E i, edit : edit \in EditStates /\ networks' = WithEdit(networks, i, edit)
  BY DEF TurnAdvancedSelect, BeginAdvanced, EditStates, AdvancedSelects, AdvancedEdits, AdvancedEdit
<1>3. Program(work_mode, networks') = Program(work_mode, networks)
  BY <1>1, <1>2, WithEditProgram
<1> QED
  BY <1>1, <1>3, OthersAreNotEdited DEF ProgramKept

LEMMA BeginDesignKeepsProgram ==
  ASSUME EditorInv, Serializable(networks), BeginDesign
  PROVE  ProgramKept
<1>1. DesignState # "Editing" /\ networks \in Ladders(work_mode)
  BY DEF BeginDesign, Designing, EditorInv, Editor
<1>2. networks # <<>>
  BY <1>1, LadderElements DEF Serializable
<1>3. OpenDesign(networks, view_top_index, hotreload, work_mode)
  BY <1>2 DEF BeginDesign
<1>4. networks' = networks \/ \E i : networks' = WithEdit(networks, i, "Selected")
  BY <1>3 DEF OpenDesign
<1>5. Program(work_mode, networks') = Program(work_mode, networks)
  BY <1>1, <1>4, WithEditProgram DEF EditStates
<1> QED
  BY <1>1, <1>5, OthersAreNotEdited DEF ProgramKept

\* A network that is left with wires alone would be empty.
LEMMA CancelKeepsProgram ==
  ASSUME EditorInv, Serializable(networks'), CancelAdvanced
  PROVE  ProgramKept
<1>1. PICK i : i = SelectedNetwork
  OBVIOUS
<1>2. DesignState # "Regular" /\ DesignState # "Editing" /\ networks' = Ended(networks, i)
  BY <1>1 DEF CancelAdvanced, AdvancedSelects, AdvancedEdits
<1>3. networks \in Ladders(work_mode) /\ i \in DOMAIN networks
  BY <1>1, <1>2, DesigningFacts
<1>4. /\ DOMAIN networks' = DOMAIN networks
      /\ \A k \in DOMAIN networks : k # i => networks'[k] = networks[k]
  BY <1>2, <1>3, EndedNetworks
<1>5. networks'[i] =
        [content |-> Bare(networks[i].content), state |-> networks[i].state, edit |-> "Regular"]
  BY <1>2, <1>3, EndedNetworks
<1>6. Bare(networks[i].content) # "empty"
  BY <1>3, <1>4, <1>5 DEF Serializable
<1>7. networks'[i].content = networks[i].content /\ networks'[i].state = networks[i].state
  BY <1>5, <1>6 DEF Bare
<1>8. Program(work_mode, networks') = Program(work_mode, networks)
  BY <1>4, <1>7, SameProgram
<1> QED
  BY <1>2, <1>8, OthersAreNotEdited DEF ProgramKept

\* The two buttons that leave a network edited.
LEMMA StillEditing ==
  ASSUME EditorInv, EditElements \/ BeginEditing
  PROVE  ~NoEditing(networks')
<1>1. PICK i : i = SelectedNetwork
  OBVIOUS
<1>2. DesignState # "Regular" /\ (EditElements => DesignState = "Editing")
  BY DEF EditElements, BeginEditing, Designing
<1>3. networks \in Ladders(work_mode) /\ i \in DOMAIN networks /\ networks[i].edit = DesignState
  BY <1>1, <1>2, DesigningFacts
<1>4. PICK content : \/ networks' = Filled(networks, i, content) /\ DesignState = "Editing"
                    \/ networks' = Refilled(networks, i, "Editing", content)
  BY <1>1, <1>2 DEF EditElements, BeginEditing, Filled, Refilled
<1>5. networks' = Put(networks, i,
        [content |-> content, state |-> networks[i].state, edit |-> "Editing"])
  <2>1. Filled(networks, i, content) =
          Put(networks, i, [content |-> content, state |-> networks[i].state,
                            edit |-> networks[i].edit])
    BY <1>3, NetworkFields
  <2>2. Refilled(networks, i, "Editing", content) =
          Put(networks, i, [content |-> content, state |-> networks[i].state, edit |-> "Editing"])
    BY <1>3, NetworkFields
  <2> QED
    BY <1>3, <1>4, <2>1, <2>2
<1>6. i \in DOMAIN networks' /\ networks'[i].edit = "Editing"
  BY <1>3, <1>5 DEF Put
<1> QED
  BY <1>6 DEF NoEditing

LEMMA ButtonsKeepProgram ==
  ASSUME EditorInv, Buttons, Serializable(networks), Serializable(networks'),
         NoEditing(networks'), ~(DesignState = "Moving" /\ in_design')
  PROVE  ProgramKept /\ writes = <<>>
<1>1. writes = <<>>
  BY DEF Buttons, ScrollView, SelectUp, SelectDown, MoveNetwork, EditElements,
         TurnAdvancedSelect, BeginDesign, BeginEditing, BeginAdvanced, CancelAdvanced, Designing
<1>2. CASE ScrollView
  <2>1. DesignState # "Editing" /\ networks' = networks
    BY <1>2 DEF ScrollView, Designing
  <2> QED
    BY <1>1, <2>1, OthersAreNotEdited DEF ProgramKept
<1>3. CASE MoveNetwork
  <2>1. DesignState = "Moving" /\ in_design' = in_design
    BY <1>3 DEF MoveNetwork, Designing
  <2>2. PICK i : i = SelectedNetwork
    OBVIOUS
  <2>3. in_design = TRUE
    BY <2>1, <2>2, DesigningFacts
  <2> QED
    BY <2>1, <2>3
<1> QED
  BY <1>1, <1>2, <1>3, SelectKeepsProgram, OtherEditKeepsProgram, BeginDesignKeepsProgram,
     CancelKeepsProgram, StillEditing DEF Buttons

\* Writes to the RTC memory do not touch the file.
LEMMA ButtonSaves ==
  ASSUME EditorInv, SavedInv, ButtonDone, Buttons, LeavesUnsaved, device' = device
  PROVE  SavedInv'
<1> SUFFICES ASSUME device = "on", unsaved' = {}
             PROVE  /\ Serializable(networks')
                    /\ NoEditing(networks') =>
                         /\ \A k \in DOMAIN writes' :
                              writes'[k].to = "file" => writes'[k].value = Program(work_mode', networks')
                         /\ file' = Program(work_mode', networks')
  BY DEF SavedInv, WillBe, NoEditing
<1>1. unsaved = {} /\ Serializable(networks') /\ ~(DesignState = "Moving" /\ in_design')
  BY DEF LeavesUnsaved
<1>2. /\ Serializable(networks)
      /\ NoEditing(networks) => WillBe(Program(work_mode, networks))
  BY <1>1 DEF SavedInv, NoEditing
<1>3. writes' \in Seq(RecordWrites) /\ work_mode' = work_mode /\ file' = file
  BY DEF ButtonDone
<1>4. \A k \in DOMAIN writes' : writes'[k].to # "file"
  BY <1>3, RecordWritesAreWrites
<1>5. ASSUME NoEditing(networks')
      PROVE  file' = Program(work_mode', networks')
  <2>1. ProgramKept /\ writes = <<>>
    BY <1>1, <1>2, <1>5, ButtonsKeepProgram
  <2>2. DOMAIN writes = {}
    BY <2>1
  <2> QED
    BY <1>2, <1>3, <2>1, <2>2 DEF ProgramKept, WillBe
<1> QED
  BY <1>1, <1>4, <1>5

LEMMA FinishSaves ==
  ASSUME FinishDone, Saves
  PROVE  SavedInv' /\ writes' \in Seq(WriteItems)
<1>1. work_mode' \in WorkModes /\ networks' \in Ladders(work_mode')
      /\ Stored(writes', work_mode', networks')
  BY DEF FinishDone, Editor
<1>2. /\ writes' \in Seq(WriteItems)
      /\ Serializable(networks') =>
           /\ \A k \in DOMAIN writes' : writes'[k].to = "file"
                => writes'[k].value = Program(work_mode', networks')
           /\ \E k \in DOMAIN writes' : writes'[k].to = "file"
  BY <1>1, StoredWrites
<1>3. unsaved' = {} => Serializable(networks')
  BY DEF Saves
<1> QED
  BY <1>2, <1>3 DEF SavedInv, WillBe
-----------------------------------------------------------------------------
(* The steps *)

LEMMA UploadIsProgram ==
  ASSUME NEW program \in Uploads
  PROVE  program \in Programs /\ program # NoFile /\ \A other : LoadedMode(program, other) = program.mode
<1> DEFINE n == program.networks
<1>1. /\ program \in [mode : WorkModes, networks : Seq([content : Contents, state : NetworkStates])]
      /\ Loadable(program)
  BY UploadsAssumption
<1>2. /\ n \in Seq([content : Contents, state : NetworkStates])
      /\ Len(n) \in 1..MaxNetworksCount /\ StatesFit(n, program.mode)
      /\ \A k \in DOMAIN n : n[k].content # "empty"
  BY <1>1 DEF Loadable, StatesFit
<1> HIDE DEF n
<1>3. n \in Seq(SavedNetworks)
  <2>1. ASSUME NEW k \in 1..Len(n)
        PROVE  n[k] \in SavedNetworks
    <3> DEFINE S == [content : Contents, state : NetworkStates]
    <3>1. n[k] \in S /\ k \in DOMAIN n
      <4>1. n \in Seq(S)
        BY <1>2
      <4> HIDE DEF S
      <4> QED
        BY <4>1
    <3>2. n[k].content # "empty"
      BY <1>2, <3>1
    <3> QED
      BY <3>1, <3>2 DEF SavedNetworks
  <2>2. n = [k \in 1..Len(n) |-> n[k]] /\ Len(n) \in Nat
    BY <1>2
  <2> QED
    BY <2>1, <2>2
<1>4. program \in [mode : WorkModes, networks : Seq(SavedNetworks)]
  <2>1. program = [mode |-> program.mode, networks |-> n] /\ program.mode \in WorkModes
    BY <1>1 DEF n
  <2> QED
    BY <1>3, <2>1
<1>5. program # NoFile
  <2>1. NoFile.networks = <<>> /\ n # <<>>
    BY <1>2, NetworksCountAssumption DEF NoFile
  <2> QED
    BY <2>1 DEF n
<1> QED
  BY <1>2, <1>4, <1>5 DEF Programs, LoadedMode, n

LEMMA WritesOf ==
  ASSUME NEW w \in Seq(WriteItems), w # <<>>
  PROVE  /\ Tail(w) \in Seq(WriteItems) /\ Head(w) \in WriteItems
         /\ 1 \in DOMAIN w /\ Head(w) = w[1]
         /\ \A k \in DOMAIN Tail(w) : k + 1 \in DOMAIN w /\ Tail(w)[k] = w[k + 1]
         /\ \A k \in DOMAIN w : k # 1 => k - 1 \in DOMAIN Tail(w) /\ Tail(w)[k - 1] = w[k]
OBVIOUS

LEMMA LadderInvInit ==
  Init => LadderInv
<1> SUFFICES ASSUME Init PROVE LadderInv
  OBVIOUS
<1> DEFINE first == <<NewNetwork("Stop")>>
<1>1. "Stop" \in WorkModes /\ "Selected" \in EditStates \ {"Regular"}
  BY DEF WorkModes, EditStates
<1>2. first \in Ladders("Stop") /\ Len(first) = 1 /\ NoneEdited(first)
  BY <1>1, FirstNetwork
<1>3. networks = WithEdit(first, 1, "Selected")
  BY DEF Init, WithEdit
<1> HIDE DEF first
<1>4. Editor(WithEdit(first, 1, "Selected"), 1, "Stop", TRUE)
  <2>1. 1 \in DOMAIN first /\ first # <<>>
    BY <1>2, LadderElements
  <2> DEFINE view == 1
             i == 1
  <2>2. /\ view \in Nat \ {0}
        /\ view <= Len(first) /\ i \in DOMAIN first /\ i \in {view, view + 1}
    BY <1>2, <2>1
  <2> HIDE DEF view, i
  <2>3. Editor(WithEdit(first, i, "Selected"), view, "Stop", TRUE)
    BY <1>1, <1>2, <2>1, <2>2, EditorSelects
  <2> QED
    BY <2>3 DEF view, i
<1>5. EditorInv
  BY <1>3, <1>4 DEF Init, EditorInv
<1>6. MemoryInv
  BY NetworksCountAssumption DEF Init, MemoryInv, ColdHotreload, Hotreloads, Programs
<1>7. SavedInv
  BY DEF Init, SavedInv
<1> QED
  BY <1>5, <1>6, <1>7 DEF LadderInv

LEMMA LadderEditStep ==
  ASSUME LadderInv, Edit \/ HandleBits
  PROVE  LadderInv'
<1>1. EditorInv /\ MemoryInv /\ SavedInv
  BY DEF LadderInv
<1>2. CASE Edit /\ Buttons /\ LeavesUnsaved
  <2>1. ButtonDone /\ device' = device
    BY <1>1, <1>2, ButtonsDone DEF Edit, remoteVars
  <2>2. SavedInv'
    BY <1>1, <1>2, <2>1, ButtonSaves
  <2>3. writes' \in Seq(WriteItems)
    BY <2>1, RecordWritesAreWrites DEF ButtonDone
  <2> QED
    BY <1>1, <2>1, <2>2, <2>3 DEF LadderInv, EditorInv, MemoryInv, ButtonDone
<1>3. CASE (Edit /\ Finish /\ Saves) \/ HandleBits
  <2>1. FinishDone /\ Saves
    <3>1. CASE Edit /\ Finish /\ Saves
      BY <1>1, <3>1, FinishedDone
    <3>2. CASE HandleBits
      <4>1. Saves /\ \E mode \in WorkModes, debug \in BOOLEAN : ChangeWorkMode(mode, debug)
        BY <3>2 DEF HandleBits, WorkModes
      <4> QED
        BY <1>1, <4>1, ChangedModeDone
    <3> QED
      BY <1>3, <3>1, <3>2
  <2>2. SavedInv' /\ writes' \in Seq(WriteItems)
    BY <2>1, FinishSaves
  <2> QED
    BY <1>1, <2>1, <2>2 DEF LadderInv, EditorInv, MemoryInv, FinishDone
<1> QED
  BY <1>2, <1>3 DEF Edit

LEMMA LadderWriteStep ==
  ASSUME LadderInv, Write
  PROVE  LadderInv'
<1>1. EditorInv /\ MemoryInv /\ SavedInv
  BY DEF LadderInv
<1>2. /\ UNCHANGED <<networks, view_top_index, work_mode, in_design, device, unsaved>>
      /\ writes # <<>>
  BY DEF Write, TearHotreload, SealHotreload, WriteFile, remoteVars, histories
<1>3. EditorInv'
  BY <1>1, <1>2 DEF EditorInv
<1> DEFINE w == writes
<1>4. /\ Tail(w) \in Seq(WriteItems) /\ Head(w) \in WriteItems
      /\ 1 \in DOMAIN w /\ Head(w) = w[1]
      /\ \A k \in DOMAIN Tail(w) : k + 1 \in DOMAIN w /\ Tail(w)[k] = w[k + 1]
      /\ \A k \in DOMAIN w : k # 1 => k - 1 \in DOMAIN Tail(w) /\ Tail(w)[k - 1] = w[k]
  BY <1>1, <1>2, WritesOf DEF MemoryInv
<1>5. /\ Head(w).to = "hotreload" => Head(w).value \in Hotreloads
      /\ Head(w).to = "file" => Head(w).value \in Programs
  BY <1>4 DEF WriteItems, RecordWrites, FileWrites
<1>6. MemoryInv'
  <2>1. CASE TearHotreload
    BY <1>1, <1>5, <2>1, RecordChanges DEF TearHotreload, MemoryInv
  <2>2. CASE SealHotreload
    BY <1>1, <1>4, <1>5, <2>2 DEF SealHotreload, MemoryInv
  <2>3. CASE WriteFile
    BY <1>1, <1>4, <1>5, <2>3 DEF WriteFile, MemoryInv
  <2> QED
    BY <2>1, <2>2, <2>3 DEF Write
<1>7. ASSUME NEW p, WillBe(p)
      PROVE  WillBe(p)'
  <2>1. CASE TearHotreload
    BY <1>7, <2>1 DEF TearHotreload, WillBe
  <2>2. CASE SealHotreload
    <3>1. writes' = Tail(w) /\ file' = file /\ w[1].to # "file"
      BY <1>4, <2>2 DEF SealHotreload
    <3>2. \A k \in DOMAIN Tail(w) : Tail(w)[k].to = "file" => Tail(w)[k].value = p
      BY <1>4, <1>7 DEF WillBe
    <3>3. file = p \/ \E k \in DOMAIN Tail(w) : Tail(w)[k].to = "file"
      BY <1>4, <1>7, <3>1 DEF WillBe
    <3> QED
      BY <3>1, <3>2, <3>3 DEF WillBe
  <2>3. CASE WriteFile
    <3>1. writes' = Tail(w) /\ file' = p
      BY <1>4, <1>7, <2>3 DEF WriteFile, WillBe
    <3>2. \A k \in DOMAIN Tail(w) : Tail(w)[k].to = "file" => Tail(w)[k].value = p
      BY <1>4, <1>7 DEF WillBe
    <3> QED
      BY <3>1, <3>2 DEF WillBe
  <2> QED
    BY <2>1, <2>2, <2>3 DEF Write
<1>8. SavedInv'
  <2>1. PICK p : p = Program(work_mode, networks)
    OBVIOUS
  <2>2. p = Program(work_mode', networks')
    BY <1>2, <2>1
  <2> QED
    BY <1>1, <1>2, <1>7, <2>1, <2>2 DEF SavedInv
<1> QED
  BY <1>3, <1>6, <1>8 DEF LadderInv

\* What the records do not concern stays as it is.
LEMMA LadderUnchanged ==
  ASSUME LadderInv, UNCHANGED <<ladderVars, unsaved>>, device' = device \/ device' # "on"
  PROVE  LadderInv'
<1>1. UNCHANGED <<networks, view_top_index, work_mode, in_design, hotreload, file, writes>>
  BY DEF ladderVars
<1> QED
  BY <1>1 DEF LadderInv, EditorInv, MemoryInv, SavedInv, WillBe

\* Programs that replace the one there is, while the editor is closed.
LEMMA LoadedEditor ==
  ASSUME NEW p \in Programs, NEW other \in WorkModes,
         networks' = LoadedNetworks(p), work_mode' = LoadedMode(p, other),
         view_top_index' = 1, in_design' = FALSE
  PROVE  EditorInv'
<1> DEFINE nets == LoadedNetworks(p)
           mode == LoadedMode(p, other)
<1>1. mode \in WorkModes /\ nets \in Ladders(mode) /\ NoneEdited(nets)
  BY LoadedLadder
<1> HIDE DEF nets, mode
<1>2. ViewFits(nets, 1)
  BY <1>1, LadderElements DEF ViewFits
<1>3. Editor(nets, 1, mode, FALSE)
  BY <1>1, <1>2, EditorCloses
<1> QED
  BY <1>3 DEF EditorInv, nets, mode

LEMMA LadderUploadStep ==
  ASSUME LadderInv, EndUpload
  PROVE  LadderInv'
<1>1. EditorInv /\ MemoryInv /\ SavedInv /\ writes = <<>>
      /\ UNCHANGED <<in_design, hotreload, file, writes, device>>
  BY DEF LadderInv, EndUpload
<1>2. MemoryInv'
  BY <1>1 DEF MemoryInv
<1>3. CASE UNCHANGED <<networks, view_top_index, work_mode, unsaved>>
  BY <1>1, <1>3, LadderUnchanged DEF ladderVars
<1>4. ASSUME NEW program \in Uploads, MayUpload,
             networks' = LoadedNetworks(program), work_mode' = program.mode,
             view_top_index' = 1, unsaved' = unsaved \cup {"uploaded"}
      PROVE  LadderInv'
  <2>1. program \in Programs /\ LoadedMode(program, "Stop") = program.mode /\ "Stop" \in WorkModes
    BY UploadIsProgram DEF WorkModes
  <2>2. in_design' = FALSE
    BY <1>1, <1>4 DEF MayUpload, EditorInv, Editor
  <2>3. EditorInv'
    BY <1>4, <2>1, <2>2, LoadedEditor
  <2> QED
    BY <1>2, <1>4, <2>3 DEF LadderInv, SavedInv
<1>5. ASSUME NEW mode \in BadModes, MayUpload,
             networks' = LoadedNetworks(file), work_mode' = LoadedMode(file, mode),
             view_top_index' = 1,
             unsaved' = IF file = NoFile THEN {"unserializable"} ELSE {}
      PROVE  LadderInv'
  <2>1. mode \in WorkModes /\ file \in Programs
    BY <1>1, BadModesAssumption DEF MemoryInv
  <2>2. in_design' = FALSE
    BY <1>1, <1>5 DEF MayUpload, EditorInv, Editor
  <2>3. EditorInv'
    BY <1>5, <2>1, <2>2, LoadedEditor
  <2>4. file # NoFile => Serializable(networks') /\ Program(work_mode', networks') = file'
    BY <1>1, <1>5, <2>1, LoadedLadder
  <2>5. DOMAIN writes' = {}
    BY <1>1
  <2>6. SavedInv'
    BY <1>1, <1>5, <2>4, <2>5 DEF SavedInv, WillBe
  <2> QED
    BY <1>2, <2>3, <2>6 DEF LadderInv
<1> QED
  BY <1>3, <1>4, <1>5 DEF EndUpload

LEMMA LadderBootStep ==
  ASSUME MemoryInv, NEW record \in Hotreloads, Boot(record)
  PROVE  LadderInv'
<1>1. /\ Editor(networks', view_top_index', work_mode', in_design')
      /\ hotreload' \in Hotreloads /\ file' = file /\ writes' \in Seq(RecordWrites)
      /\ file # NoFile => Serializable(networks') /\ Program(work_mode', networks') = file
  BY BootDone
<1>2. writes' \in Seq(WriteItems) /\ \A k \in DOMAIN writes' : writes'[k].to # "file"
  BY <1>1, RecordWritesAreWrites
<1>3. SavedInv'
  BY <1>1, <1>2 DEF Boot, SavedInv, WillBe
<1> QED
  BY <1>1, <1>2, <1>3 DEF LadderInv, EditorInv, MemoryInv

LEMMA LadderRestartStep ==
  ASSUME LadderInv, Restart \/ PowerLoss \/ LeaveService
  PROVE  LadderInv'
<1>1. MemoryInv /\ hotreload \in Hotreloads /\ file \in Programs
      /\ LoadedHotreload(TRUE) \in Hotreloads /\ LoadedHotreload(FALSE) \in Hotreloads
      /\ ColdHotreload \in Hotreloads
  BY LoadedRecordTyped DEF LadderInv, MemoryInv
<1>2. CASE \E record \in Hotreloads : Boot(record)
  BY <1>1, <1>2, LadderBootStep
<1>3. CASE PowerLoss /\ ~Boot(LoadedHotreload(FALSE))
  <2>1. /\ device' = "service"
        /\ networks' = LoadedNetworks(file) /\ work_mode' = LoadedMode(file, "Stop")
        /\ view_top_index' = 1 /\ in_design' = FALSE
        /\ hotreload' = ColdHotreload /\ writes' = <<>> /\ file' = file
    BY <1>3 DEF PowerLoss
  <2>2. EditorInv'
    BY <1>1, <2>1, LoadedEditor DEF WorkModes
  <2>3. MemoryInv'
    BY <1>1, <2>1 DEF MemoryInv
  <2> QED
    BY <2>1, <2>2, <2>3 DEF LadderInv, SavedInv
<1> QED
  BY <1>1, <1>2, <1>3 DEF Restart, PowerLoss, LeaveService

LEMMA LadderServiceStep ==
  ASSUME LadderInv,
         \/ \E mode \in Commands : ServiceChangeMode(mode)
         \/ \E program \in Uploads : ServiceRestore(program)
         \/ ServiceReset
  PROVE  LadderInv'
<1>1. EditorInv /\ MemoryInv
  BY DEF LadderInv
<1>2. CASE \E mode \in Commands : ServiceChangeMode(mode)
  <2>1. PICK mode \in WorkModes, debug \in BOOLEAN :
          ChangeWorkMode(mode, debug) /\ device' = "restarting"
    BY <1>2 DEF ServiceChangeMode, WorkModes
  <2>2. FinishDone
    BY <1>1, <2>1, ChangedModeDone
  <2>3. writes' \in Seq(WriteItems)
    BY <2>2, StoredWrites DEF FinishDone, Editor
  <2> QED
    BY <1>1, <2>1, <2>2, <2>3 DEF LadderInv, EditorInv, MemoryInv, SavedInv, FinishDone
<1>3. ASSUME NEW program \in Programs, writes' = <<[to |-> "file", value |-> program]>>,
             UNCHANGED <<networks, view_top_index, work_mode, in_design, hotreload, file>>,
             device' # "on"
      PROVE  LadderInv'
  <2> DEFINE e == [to |-> "file", value |-> program]
  <2>1. e \in WriteItems
    BY DEF WriteItems, FileWrites
  <2>2. writes' = <<e>>
    BY <1>3
  <2> HIDE DEF e
  <2>3. writes' \in Seq(WriteItems)
    BY <2>1, <2>2
  <2> QED
    BY <1>1, <1>3, <2>3 DEF LadderInv, EditorInv, MemoryInv, SavedInv
<1>4. CASE \E program \in Uploads : ServiceRestore(program)
  BY <1>3, <1>4, UploadIsProgram DEF ServiceRestore
<1>5. CASE ServiceReset
  BY <1>3, <1>5 DEF ServiceReset, Programs
<1> QED
  BY <1>2, <1>4, <1>5

LEMMA LadderInvStep ==
  LadderInv /\ [Next]_vars => LadderInv'
<1> SUFFICES ASSUME LadderInv, [Next]_vars PROVE LadderInv'
  OBVIOUS
<1>1. CASE UNCHANGED vars
  BY <1>1, LadderUnchanged DEF vars, remoteVars, histories
<1>2. CASE (\E mode \in Commands : BeginSetWorkMode(mode)) \/ RaiseWorkMode \/ BeginUpload
  <2>1. UNCHANGED <<ladderVars, unsaved, device>>
    BY <1>2 DEF BeginSetWorkMode, RaiseWorkMode, BeginUpload, histories
  <2> QED
    BY <2>1, LadderUnchanged
<1> QED
  BY <1>1, <1>2, LadderEditStep, LadderWriteStep, LadderUploadStep, LadderRestartStep,
     LadderServiceStep DEF Next
-----------------------------------------------------------------------------
(* Who asked *)

RemoteInv == bits \subseteq {0, 1} /\ asked \subseteq Modes /\ overtaken \in BOOLEAN

LEMMA RemoteInvStep ==
  ModesInv /\ LadderInv /\ RemoteInv /\ [Next]_vars => RemoteInv'
<1> SUFFICES ASSUME ModesInv, LadderInv, RemoteInv, [Next]_vars PROVE RemoteInv'
  OBVIOUS
<1>1. in_design \in BOOLEAN /\ in_design' \in BOOLEAN
  BY LadderInvStep DEF LadderInv, EditorInv, Editor
<1>2. CASE UNCHANGED vars
  BY <1>2 DEF vars, remoteVars, histories, RemoteInv
<1>3. CASE Edit \/ HandleBits \/ Write
  BY <1>1, <1>3 DEF Edit, HandleBits, Write, remoteVars, histories, RemoteInv
<1>4. CASE \E mode \in Commands : BeginSetWorkMode(mode) \/ ServiceChangeMode(mode)
  BY <1>4, CommandsAssumption DEF BeginSetWorkMode, ServiceChangeMode, RemoteInv, Modes
<1>5. CASE RaiseWorkMode
  BY <1>5 DEF RaiseWorkMode, RemoteInv, ModesInv, EventsOf, Modes
<1>6. CASE BeginUpload \/ EndUpload \/ ServiceReset
           \/ \E program \in Uploads : ServiceRestore(program)
  BY <1>6 DEF BeginUpload, EndUpload, ServiceReset, ServiceRestore, histories, RemoteInv
<1>7. CASE Restart \/ PowerLoss \/ LeaveService
  BY <1>7 DEF Restart, PowerLoss, LeaveService, Boot, RemoteInv
<1> QED
  BY <1>2, <1>3, <1>4, <1>5, <1>6, <1>7 DEF Next
-----------------------------------------------------------------------------
(* The theorems about the program *)

LEMMA LadderTyped ==
  ModesInv /\ LadderInv /\ RemoteInv => TypeOK
<1> SUFFICES ASSUME LadderInv, RemoteInv PROVE TypeOK
  OBVIOUS
<1>1. EditorInv /\ MemoryInv
  BY DEF LadderInv
<1>2. /\ networks \in Ladders(work_mode) /\ work_mode \in WorkModes /\ in_design \in BOOLEAN
      /\ ViewFits(networks, view_top_index)
  BY <1>1 DEF EditorInv, Editor
<1>3. /\ networks \in Seq(NetworkItems) /\ Len(networks) <= MaxNetworksCount
      /\ (networks = <<>> <=> Len(networks) = 0) /\ Len(networks) \in Nat
  BY <1>2, LadderElements
<1>4. view_top_index \in 1..MaxNetworksCount
  BY <1>2, <1>3, NetworksCountAssumption DEF ViewFits
<1>5. \A i \in DOMAIN writes : writes[i].to = "hotreload" => writes[i].value \in Hotreloads
  <2>1. \A i \in DOMAIN writes : writes[i] \in WriteItems
    BY <1>1 DEF MemoryInv
  <2> QED
    BY <2>1 DEF WriteItems, RecordWrites, FileWrites
<1> QED
  BY <1>1, <1>2, <1>3, <1>4, <1>5 DEF TypeOK, NetworkItems, MemoryInv, RemoteInv

\* Every variable has its type, for every number of networks, whatever is
\* uploaded and whenever the device restarts.
THEOREM WorkModesTyped == Spec => []TypeOK
<1> DEFINE Inv == ModesInv /\ LadderInv /\ RemoteInv
<1>1. Init => Inv
  BY ModesInvInit, LadderInvInit DEF Init, RemoteInv
<1>2. Inv /\ [Next]_vars => Inv'
  BY ModesInvStep, LadderInvStep, RemoteInvStep
<1>3. Inv => TypeOK
  BY LadderTyped
<1> QED
  BY <1>1, <1>2, <1>3, PTL DEF Spec

LEMMA LadderAlways == Spec => []LadderInv
<1>1. Init => LadderInv
  BY LadderInvInit
<1>2. LadderInv /\ [Next]_vars => LadderInv'
  BY LadderInvStep
<1> QED
  BY <1>1, <1>2, PTL DEF Spec

\* The open editor edits exactly one network, and the closed one none, whatever
\* the buttons, the restarts and the uploads do to the networks.
THEOREM OneEditedTheorem == Spec => []OneEdited
<1>1. ASSUME LadderInv
      PROVE  OneEdited
  <2>1. /\ Selection(networks, view_top_index, in_design)
    BY <1>1 DEF LadderInv, EditorInv, Editor
  <2>2. CASE in_design /\ networks # <<>>
    <3>1. PICK i : OnlyEdited(networks, i)
      BY <2>1, <2>2 DEF Selection
    <3>2. {k \in DOMAIN networks : networks[k].edit # "Regular"} = {i}
      BY <3>1 DEF OnlyEdited
    <3> QED
      BY <2>2, <3>2 DEF OneEdited
  <2>3. CASE ~(in_design /\ networks # <<>>)
    <3>1. NoneEdited(networks)
      BY <2>1, <2>3 DEF Selection
    <3> QED
      BY <2>3, <3>1 DEF OneEdited, NoneEdited
  <2> QED
    BY <2>2, <2>3
<1> QED
  BY <1>1, LadderAlways, PTL

\* The network that is edited is on the display, and the view starts at a
\* network that exists.
THEOREM EditedIsShownTheorem == Spec => []EditedIsShown
<1>1. ASSUME LadderInv
      PROVE  EditedIsShown
  <2>1. /\ Selection(networks, view_top_index, in_design) /\ ViewFits(networks, view_top_index)
    BY <1>1 DEF LadderInv, EditorInv, Editor
  <2>2. ASSUME NEW k \in DOMAIN networks, networks[k].edit # "Regular"
        PROVE  k \in view_top_index..(view_top_index + ViewPort - 1)
    BY <2>1, <2>2 DEF Selection, OnlyEdited, NoneEdited
  <2> QED
    BY <2>1, <2>2 DEF EditedIsShown, ViewFits
<1> QED
  BY <1>1, LadderAlways, PTL

\* What is in the program file can be loaded, wherever the device restarted.
THEOREM FileLoadsTheorem == Spec => []FileLoads
<1>1. ASSUME LadderInv, file # NoFile
      PROVE  Loadable(file)
  <2>1. /\ file \in [mode : WorkModes, networks : Seq(SavedNetworks)]
        /\ Len(file.networks) \in 1..MaxNetworksCount /\ StatesFit(file.networks, file.mode)
    BY <1>1 DEF LadderInv, MemoryInv, Programs
  <2>2. \A k \in DOMAIN file.networks : file.networks[k] \in SavedNetworks
    BY <2>1
  <2> QED
    BY <2>1, <2>2 DEF Loadable, SavedNetworks, StatesFit
<1>2. LadderInv => FileLoads
  BY <1>1 DEF FileLoads
<1> QED
  BY <1>2, LadderAlways, PTL

\* Outside the editor the file is the program, but for the three causes that
\* the model names.
THEOREM SavedOrExplainedTheorem == Spec => []SavedOrExplained
<1>1. ASSUME LadderInv, device = "on", writes = <<>>, ~in_design, unsaved = {}
      PROVE  file = Program(work_mode, networks)
  <2>1. NoneEdited(networks)
    BY <1>1 DEF LadderInv, EditorInv, Editor, Selection
  <2>2. \A i \in DOMAIN networks : networks[i].edit # "Editing"
    BY <2>1 DEF NoneEdited
  <2>3. WillBe(Program(work_mode, networks)) /\ DOMAIN writes = {}
    BY <1>1, <2>2 DEF LadderInv, SavedInv
  <2> QED
    BY <2>3 DEF WillBe
<1>2. LadderInv => SavedOrExplained
  BY <1>1 DEF SavedOrExplained
<1> QED
  BY <1>2, LadderAlways, PTL
=============================================================================
