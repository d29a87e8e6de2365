--------------------------- MODULE LadderDesigner ---------------------------
(***************************************************************************)
(* The ladder editor of the device: the networks of the program, the part  *)
(* of them that the display shows, and the buttons that edit them          *)
(* (LogicProgram/LadderDesigner.cpp, Ladder.cpp, LadderStoring.cpp, and    *)
(* what the editor uses of Network.cpp and Controller.cpp).                *)
(*                                                                         *)
(* Every handler runs in the process task under the ladder lock.  It       *)
(* changes the memory at once and leaves in writes what it writes to the   *)
(* RTC memory and to the program file, in order: the lock is held until    *)
(* the last write is done, and the device may restart between two writes.  *)
(*                                                                         *)
(* Networks count from 1 here; the index 0 stands for the -1 of the code.  *)
(***************************************************************************)
EXTENDS Naturals, Sequences, SequencesExt

CONSTANTS
  Logics,             \* what the elements of a network can be
  MaxNetworksCount    \* Ladder::MaxNetworksCount

ASSUME LogicsAssumption == "empty" \notin Logics /\ "wires" \notin Logics
ASSUME NetworksCountAssumption == MaxNetworksCount \in Nat \ {0}

VARIABLES
  networks,         \* Ladder::items
  view_top_index,   \* the first network on the display
  work_mode,        \* Ladder::work_mode
  in_design,        \* Controller::in_design
  hotreload,        \* the record in RTC memory; valid: its crc matches
  file,             \* the program file
  writes            \* what the handler that holds the ladder lock has to write

ladderVars == <<networks, view_top_index, work_mode, in_design, hotreload, file, writes>>

\* Ladder::MaxViewPortCount
ViewPort == 2

WorkModes == {"Stop", "Run"}
NetworkStates == {"Active", "Passive", "StopFromActive", "StopFromPassive"}
\* A network holds no elements, only wires, or elements with their wires.
Contents == {"empty", "wires"} \cup Logics
AdvancedSelects ==
  {"AdvancedSelectMove", "AdvancedSelectCopy", "AdvancedSelectDelete", "AdvancedSelectDisable"}
AdvancedEdits == {"Moving", "Copying", "Deleting", "Disabling"}
EditStates == {"Regular", "Selected", "Editing"} \cup AdvancedSelects \cup AdvancedEdits

NoFile == [mode |-> "Stop", networks |-> <<>>]
ColdHotreload == [view |-> 1, selected |-> 0, debug |-> FALSE, valid |-> TRUE]

\* Ladder::ChangeWorkMode keeps whether a network is enabled.
Active(mode) == IF mode = "Run" THEN "Active" ELSE "StopFromActive"
Passive(mode) == IF mode = "Run" THEN "Passive" ELSE "StopFromPassive"
InMode(state, mode) ==
  IF state \in {"Active", "StopFromActive"} THEN Active(mode) ELSE Passive(mode)
NewNetwork(mode) == [content |-> "empty", state |-> Active(mode), edit |-> "Regular"]

\* Network::SwitchState
Switched ==
  [Active |-> "Passive", Passive |-> "Active",
   StopFromActive |-> "StopFromPassive", StopFromPassive |-> "StopFromActive"]

\* GetSelectedNetwork and GetDesignState
SelectedNetwork == SelectInSeq(networks, LAMBDA n : n.edit # "Regular")
DesignState == IF SelectedNetwork = 0 THEN "Regular" ELSE networks[SelectedNetwork].edit
Designing(state) == writes = <<>> /\ DesignState = state

WithEdit(nets, i, edit) ==
  IF i \in DOMAIN nets THEN [nets EXCEPT ![i].edit = edit] ELSE nets

\* Network::EndEditing, which removes every wire.
Unwired(network) ==
  [network EXCEPT !.edit = "Regular", !.content = IF @ = "wires" THEN "empty" ELSE @]
Ended(nets, i) == [nets EXCEPT ![i] = Unwired(@)]

Swap(nets, i, j) == [nets EXCEPT ![i] = nets[j], ![j] = nets[i]]
-----------------------------------------------------------------------------
(***************************************************************************)
(* What is written: store_hotreload and Ladder::Store.                     *)
(***************************************************************************)
Program(mode, nets) ==
  [mode |-> mode,
   networks |-> [i \in DOMAIN nets |-> [content |-> nets[i].content, state |-> nets[i].state]]]

\* Ladder::Serialize
Serializable(nets) ==
  /\ Len(nets) \in 1..MaxNetworksCount
  /\ \A i \in DOMAIN nets : nets[i].content # "empty"

ToHotreload(record) == <<[to |-> "hotreload", value |-> [record EXCEPT !.valid = TRUE]]>>

\* Mutant: what cannot be serialized is stored all the same.
StoreAnyway(mode, nets) == <<[to |-> "file", value |-> Program(mode, nets)]>>

\* A program that cannot be serialized is not stored, and nobody is told.
Store(mode, nets) ==
  IF Serializable(nets) THEN <<[to |-> "file", value |-> Program(mode, nets)]>> ELSE <<>>

\* UpdateUIViewTop, if the view moves, and UpdateUISelected.
Showing(view, selected) ==
  (IF view = view_top_index THEN <<>> ELSE ToHotreload([hotreload EXCEPT !.view = view]))
    \o ToHotreload([hotreload EXCEPT
         !.view = IF view = view_top_index THEN @ ELSE view, !.selected = selected])

\* Mutant: the view goes up without a look at its bound.
ScrolledUpPast(i) ==
  IF i > view_top_index THEN [view |-> view_top_index, selected |-> i - 1]
  ELSE [view |-> view_top_index - 1, selected |-> i - 1]

\* Ladder::ScrollUp and ScrollDown: where the view and the selection go.
ScrolledUp(i) ==
  IF i > view_top_index THEN [view |-> view_top_index, selected |-> i - 1]
  ELSE IF view_top_index > 1 THEN [view |-> view_top_index - 1, selected |-> i - 1]
  ELSE [view |-> view_top_index, selected |-> i]
ScrolledDown(nets, i) ==
  IF i + 1 < view_top_index + ViewPort THEN [view |-> view_top_index, selected |-> i + 1]
  ELSE IF view_top_index + ViewPort <= Len(nets) + 1
  THEN [view |-> view_top_index + 1, selected |-> i + 1]
  ELSE [view |-> view_top_index, selected |-> i]
Scroll(i, to) ==
  /\ view_top_index' = to.view
  /\ writes' = IF to.selected = i THEN <<>> ELSE Showing(to.view, to.selected)

\* Mutant: the view stays where it is when networks are removed.
FitViewNever(nets) == view_top_index

\* Ladder::FitViewTopIndex
FitView(nets) ==
  IF view_top_index + ViewPort - 1 <= Len(nets) \/ view_top_index = 1 THEN view_top_index
  ELSE IF Len(nets) < ViewPort THEN 1 ELSE Len(nets) - ViewPort + 1

Clamped(i, view) ==
  IF i < view THEN view ELSE IF i > view + ViewPort - 1 THEN view + ViewPort - 1 ELSE i

\* Controller::DesignStart
MayDesign(mode, record) == mode = "Stop" \/ record.debug

\* Mutant: a network that is not empty stays selected.
LeftSelected(i) == IF networks[i].content = "empty" THEN RemoveAt(networks, i) ELSE networks

\* RemoveNetworkIfEmpty, after the selection of network i was cancelled.
Left(i) ==
  IF networks[i].content = "empty" THEN RemoveAt(networks, i) ELSE WithEdit(networks, i, "Regular")
-----------------------------------------------------------------------------
(***************************************************************************)
(* Ladder::HandleButtonUp and HandleButtonDown.                            *)
(***************************************************************************)
ScrollView ==
  /\ Designing("Regular")
  /\ \/ view_top_index > 1 /\ view_top_index' = view_top_index - 1
     \/ view_top_index + ViewPort <= Len(networks) /\ view_top_index' = view_top_index + 1
  /\ writes' = ToHotreload([hotreload EXCEPT !.view = view_top_index'])
  /\ UNCHANGED <<networks, work_mode, in_design, hotreload, file>>

SelectUp ==
  /\ Designing("Selected")
  /\ LET i == SelectedNetwork
         to == ScrolledUp(i) IN
       /\ networks' = WithEdit(Left(i), to.selected, "Selected")
       /\ Scroll(i, to)
  /\ UNCHANGED <<work_mode, in_design, hotreload, file>>

\* A new network is appended below the last one, unless that one is removed
\* for being empty or there are as many as there may be.
SelectDown ==
  /\ Designing("Selected")
  /\ LET i == SelectedNetwork
         left == Left(i)
         stays == \/ Len(left) < Len(networks)
                  \/ i = Len(left) /\ Len(left) >= MaxNetworksCount
         to == IF stays THEN [view |-> view_top_index, selected |-> i] ELSE ScrolledDown(left, i)
         grown == IF to.selected = Len(left) + 1 THEN Append(left, NewNetwork(work_mode)) ELSE left IN
       /\ networks' = WithEdit(grown, to.selected, "Selected")
       /\ Scroll(i, to)
  /\ UNCHANGED <<work_mode, in_design, hotreload, file>>

\* The view goes on past the last network, though the network does not.
MoveNetwork ==
  /\ Designing("Moving")
  /\ LET i == SelectedNetwork IN
       \/ /\ networks' = IF i > 1 THEN Swap(networks, i, i - 1) ELSE networks
          /\ Scroll(i, ScrolledUp(i))
       \/ /\ networks' = IF i < Len(networks) THEN Swap(networks, i, i + 1) ELSE networks
          /\ Scroll(i, ScrolledDown(networks, i))
  /\ UNCHANGED <<work_mode, in_design, hotreload, file>>

\* Up, Down, Select and Option while a network is edited: another element is
\* selected, or an element becomes another one (Network::SelectPrior,
\* SelectNext, Change and Option).
EditElements ==
  /\ Designing("Editing")
  /\ networks[SelectedNetwork].content # "empty"
  /\ \E content \in Contents \ {"empty"} :
       networks' = [networks EXCEPT ![SelectedNetwork].content = content]
  /\ UNCHANGED <<view_top_index, work_mode, in_design, hotreload, file, writes>>

BelowSelect ==
  [AdvancedSelectMove |-> "AdvancedSelectCopy", AdvancedSelectCopy |-> "AdvancedSelectDelete",
   AdvancedSelectDelete |-> "AdvancedSelectDisable", AdvancedSelectDisable |-> "AdvancedSelectMove"]

\* Up and Down turn over the advanced selections.
TurnAdvancedSelect ==
  /\ writes = <<>>
  /\ DesignState \in AdvancedSelects
  /\ \E edit \in AdvancedSelects :
       /\ edit = BelowSelect[DesignState] \/ BelowSelect[edit] = DesignState
       /\ networks' = WithEdit(networks, SelectedNetwork, edit)
  /\ UNCHANGED <<view_top_index, work_mode, in_design, hotreload, file, writes>>
-----------------------------------------------------------------------------
(***************************************************************************)
(* Ladder::HandleButtonSelect and HandleButtonOption.                      *)
(***************************************************************************)
\* The first network selected is the last one that was, if it is shown.
OpenDesign(nets, view, record, mode) ==
  LET last == Clamped(record.selected, view)
      i == IF last \in DOMAIN nets THEN last ELSE view IN
  /\ in_design' = MayDesign(mode, record)
  /\ networks' = IF in_design' THEN WithEdit(nets, i, "Selected") ELSE nets
  /\ writes' = IF in_design' /\ i # last THEN ToHotreload([record EXCEPT !.selected = i]) ELSE <<>>

BeginDesign ==
  /\ Designing("Regular")
  /\ OpenDesign(IF networks = <<>> THEN <<NewNetwork(work_mode)>> ELSE networks,
                view_top_index, hotreload, work_mode)
  /\ UNCHANGED <<view_top_index, work_mode, hotreload, file>>

\* Network::BeginEditing makes space with a wire, once the network has been
\* drawn and its width is known.
BeginEditing ==
  /\ Designing("Selected")
  /\ LET i == SelectedNetwork IN
       /\ \E content \in {networks[i].content, "wires"} :
            /\ networks[i].content \in Logics => content = networks[i].content
            /\ networks' = [networks EXCEPT ![i].edit = "Editing", ![i].content = content]
       /\ writes' = ToHotreload([hotreload EXCEPT !.selected = i])
  /\ UNCHANGED <<view_top_index, work_mode, in_design, hotreload, file>>

\* Mutant: the program is not stored when the network is left empty.
FinishWithoutStore ==
  /\ Designing("Editing")
  /\ networks' = Ended(networks, SelectedNetwork)
  /\ writes' = ToHotreload([hotreload EXCEPT !.selected = SelectedNetwork])
  /\ in_design' = FALSE
  /\ UNCHANGED <<view_top_index, work_mode, hotreload, file>>

\* Select with no element selected ends the editing of the network.
FinishEditing ==
  /\ Designing("Editing")
  /\ LET i == SelectedNetwork
         ended == Ended(networks, i)
         removed == ended[i].content = "empty"
         nets == IF removed THEN RemoveAt(ended, i) ELSE ended
         view == IF removed THEN FitView(nets) ELSE view_top_index
         fitted == [hotreload EXCEPT !.view = IF view = view_top_index THEN @ ELSE view] IN
       /\ networks' = nets
       /\ view_top_index' = view
       /\ writes' = (IF view = view_top_index THEN <<>> ELSE ToHotreload(fitted))
                      \o Store(work_mode, nets)
                      \o ToHotreload([fitted EXCEPT !.selected = IF removed THEN 0 ELSE i])
  /\ in_design' = FALSE
  /\ UNCHANGED <<work_mode, hotreload, file>>

AdvancedEdit ==
  [AdvancedSelectMove |-> "Moving", AdvancedSelectCopy |-> "Copying",
   AdvancedSelectDelete |-> "Deleting", AdvancedSelectDisable |-> "Disabling"]

BeginAdvanced ==
  /\ writes = <<>>
  /\ \/ /\ DesignState = "Selected"
        /\ networks' = WithEdit(networks, SelectedNetwork, "AdvancedSelectMove")
     \/ /\ DesignState \in AdvancedSelects
        /\ networks' = WithEdit(networks, SelectedNetwork, AdvancedEdit[DesignState])
  /\ UNCHANGED <<view_top_index, work_mode, in_design, hotreload, file, writes>>

\* Ladder::Duplicate puts the copy before the network.
Duplicated(nets, i) ==
  IF Len(nets) >= MaxNetworksCount \/ nets[i].content = "empty" THEN nets
  ELSE InsertAt(nets, i, nets[i])

FinishMoving ==
  /\ Designing("Moving")
  /\ networks' = Ended(networks, SelectedNetwork)
  /\ writes' = Store(work_mode, networks')
  /\ in_design' = FALSE
  /\ UNCHANGED <<view_top_index, work_mode, hotreload, file>>

FinishCopying ==
  /\ Designing("Copying")
  /\ networks' = Duplicated(Ended(networks, SelectedNetwork), SelectedNetwork)
  /\ writes' = Store(work_mode, networks')
  /\ in_design' = FALSE
  /\ UNCHANGED <<view_top_index, work_mode, hotreload, file>>

FinishDeleting ==
  /\ Designing("Deleting")
  /\ networks' = RemoveAt(networks, SelectedNetwork)
  /\ view_top_index' = FitView(networks')
  /\ writes' = (IF view_top_index' = view_top_index THEN <<>>
                ELSE ToHotreload([hotreload EXCEPT !.view = view_top_index']))
                 \o Store(work_mode, networks')
  /\ in_design' = FALSE
  /\ UNCHANGED <<work_mode, hotreload, file>>

FinishDisabling ==
  /\ Designing("Disabling")
  /\ LET i == SelectedNetwork IN
       networks' = [Ended(networks, i) EXCEPT ![i].state = Switched[@]]
  /\ writes' = Store(work_mode, networks')
  /\ in_design' = FALSE
  /\ UNCHANGED <<view_top_index, work_mode, hotreload, file>>

\* Option leaves the advanced editing; networks that moved stay where they are.
CancelAdvanced ==
  /\ writes = <<>>
  /\ DesignState \in AdvancedSelects \cup AdvancedEdits
  /\ networks' = Ended(networks, SelectedNetwork)
  /\ in_design' = FALSE
  /\ UNCHANGED <<view_top_index, work_mode, hotreload, file, writes>>

Finish == FinishEditing \/ FinishMoving \/ FinishCopying \/ FinishDeleting \/ FinishDisabling

Buttons ==
  \/ ScrollView \/ SelectUp \/ SelectDown \/ MoveNetwork \/ EditElements \/ TurnAdvancedSelect
  \/ BeginDesign \/ BeginEditing \/ BeginAdvanced \/ CancelAdvanced
-----------------------------------------------------------------------------
(***************************************************************************)
(* The work mode, the writes and the start of the process task.            *)
(***************************************************************************)
\* Ladder::ChangeWorkMode.  Whether a network is edited plays no part.
ChangeWorkMode(mode, debug) ==
  /\ writes = <<>>
  /\ work_mode' = mode
  /\ networks' = [i \in DOMAIN networks |-> [networks[i] EXCEPT !.state = InMode(@, mode)]]
  /\ writes' = ToHotreload([hotreload EXCEPT !.debug = debug]) \o Store(mode, networks')
  /\ UNCHANGED <<view_top_index, in_design, hotreload, file>>

\* The fields are changed in place: until the crc follows, it is wrong.
TearHotreload ==
  /\ writes # <<>> /\ Head(writes).to = "hotreload"
  /\ hotreload.valid /\ hotreload # Head(writes).value
  /\ hotreload' = [Head(writes).value EXCEPT !.valid = FALSE]
  /\ UNCHANGED <<networks, view_top_index, work_mode, in_design, file, writes>>

SealHotreload ==
  /\ writes # <<>> /\ Head(writes).to = "hotreload"
  /\ ~hotreload.valid \/ hotreload = Head(writes).value
  /\ hotreload' = Head(writes).value
  /\ writes' = Tail(writes)
  /\ UNCHANGED <<networks, view_top_index, work_mode, in_design, file>>

\* redundant_storage_store: a restart leaves the old program or the new one.
WriteFile ==
  /\ writes # <<>> /\ Head(writes).to = "file"
  /\ file' = Head(writes).value
  /\ writes' = Tail(writes)
  /\ UNCHANGED <<networks, view_top_index, work_mode, in_design, hotreload>>

\* Ladder::Load: what is in the file, or no network and the mode there was.
LoadedNetworks(program) ==
  [i \in DOMAIN program.networks |->
     [content |-> program.networks[i].content, state |-> program.networks[i].state,
      edit |-> "Regular"]]
LoadedMode(program, mode) == IF program = NoFile THEN mode ELSE program.mode

\* load_hotreload, and hot_restart_counter which seals the record again.
LoadedHotreload(kept) == IF kept /\ hotreload.valid THEN hotreload ELSE ColdHotreload

\* SetViewTopIndex
RestoredView(record, nets) ==
  IF record.view + ViewPort - 1 <= Len(nets) THEN record.view ELSE 1

\* ProcessTask, up to its loop: Load, SetViewTopIndex, SetSelectedNetworkIndex
\* and AtLeastOneNetwork.
Start(record) ==
  LET loaded == LoadedNetworks(file)
      mode == LoadedMode(file, "Stop")
      view == RestoredView(record, loaded)
      nets == IF loaded = <<>> THEN <<NewNetwork(mode)>> ELSE loaded
      \* AtLeastOneNetwork falls back on the view, SetSelectedNetworkIndex does not.
      selects == loaded = <<>> \/ record.selected \in DOMAIN nets
      i == IF loaded = <<>> THEN view ELSE Clamped(record.selected, view) IN
  /\ work_mode' = mode
  /\ view_top_index' = view
  /\ hotreload' = [record EXCEPT !.valid = FALSE]
  /\ in_design' = (selects /\ MayDesign(mode, record))
  /\ networks' = IF in_design' THEN WithEdit(nets, i, "Selected") ELSE nets
  /\ writes' = ToHotreload(record)
                 \o (IF loaded = <<>> /\ Clamped(record.selected, view) # view
                     THEN ToHotreload([record EXCEPT !.selected = view]) ELSE <<>>)
  /\ UNCHANGED file
=============================================================================
