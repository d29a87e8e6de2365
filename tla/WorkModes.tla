------------------------------ MODULE WorkModes ------------------------------
(***************************************************************************)
(* The ladder editor together with those who command the device from       *)
(* elsewhere: the browser, which sets the work mode and uploads programs   *)
(* (HttpServer/WorkModeController.cpp, ProgramController.cpp), and the     *)
(* service mode after a power loss (Maintenance/).  The device restarts,   *)
(* and keeps its RTC memory, or loses its power at any moment.             *)
(*                                                                         *)
(* The HTTP server handles one request at a time.  It takes the ladder     *)
(* lock for the program, but reads in_design and raises the bits of a mode *)
(* without it.                                                             *)
(***************************************************************************)
EXTENDS LadderDesigner

CONSTANTS
  Uploads,       \* the programs that are uploaded, or restored from a backup
  BadModes,      \* the modes that uploaded programs with errors begin with
  Commands,      \* the modes that the browser and the service mode ask for
  MaxCommands,   \* how often they ask
  MaxRestarts    \* how often the device restarts or loses its power

\* Ladder::Deserialize rejects a program as a whole if one network is empty, or
\* in a state of the other work mode.
Loadable(program) ==
  /\ Len(program.networks) \in 1..MaxNetworksCount
  /\ \A i \in DOMAIN program.networks :
       /\ program.networks[i].content # "empty"
       /\ program.networks[i].state = InMode(program.networks[i].state, program.mode)

ASSUME UploadsAssumption ==
  \A program \in Uploads :
    /\ program \in [mode : WorkModes, networks : Seq([content : Contents, state : NetworkStates])]
    /\ Loadable(program)
ASSUME BadModesAssumption == BadModes \subseteq WorkModes
ASSUME CommandsAssumption == Commands \subseteq {"Stop", "Run", "Debug"}
ASSUME BoundsAssumption == MaxCommands \in Nat /\ MaxRestarts \in Nat

VARIABLES
  device,      \* "on", or what the service mode does after a power loss
  request,     \* the request that the HTTP server handles
  bits,        \* WORK_MODES_0 and WORK_MODES_1 in gpio_events
  asked,       \* history: the modes asked for since the power came
  overtaken,   \* history: a mode was changed while a network was edited
  unsaved,     \* history: why the file need not be the program
  commands,    \* modes asked for so far
  restarts     \* restarts so far

remoteVars == <<device, request, bits>>
histories == <<asked, overtaken, unsaved, commands, restarts>>
vars == <<ladderVars, remoteVars, histories>>

Modes == {"Stop", "Run", "Debug"}
NoRequest == [kind |-> "none"]
ModeRequest(mode) == [kind |-> "mode", mode |-> mode]
UploadRequest == [kind |-> "upload"]

\* Mutant: Run raises the bits of Debug.
EventsOfSwapped(mode) == IF mode = "Stop" THEN {0} ELSE {0, 1}

\* WorkModeController::Convert2Events
EventsOf(mode) ==
  CASE mode = "Stop" -> {0} [] mode = "Run" -> {1} [] mode = "Debug" -> {0, 1}

Init ==
  /\ networks = <<[NewNetwork("Stop") EXCEPT !.edit = "Selected"]>>
  /\ view_top_index = 1 /\ work_mode = "Stop" /\ in_design = TRUE
  /\ hotreload = ColdHotreload /\ file = NoFile /\ writes = <<>>
  /\ device = "on" /\ request = NoRequest /\ bits = {}
  /\ asked = {} /\ overtaken = FALSE /\ unsaved = {"unserializable"}
  /\ commands = 0 /\ restarts = 0
-----------------------------------------------------------------------------
\* A handler that stores the program accounts for all of it, unless it cannot
\* be serialized; the other ones may leave something that nobody will store.
Saves == unsaved' = IF Serializable(networks') THEN {} ELSE {"unserializable"}
LeavesUnsaved ==
  unsaved' = unsaved \cup (IF DesignState = "Moving" /\ in_design' THEN {"moved"} ELSE {})
               \cup (IF Serializable(networks') THEN {} ELSE {"unserializable"})

Edit ==
  /\ device = "on"
  /\ \/ Finish /\ Saves
     \/ Buttons /\ LeavesUnsaved
  /\ overtaken' = (overtaken /\ in_design')
  /\ UNCHANGED <<remoteVars, asked, commands, restarts>>

\* Controller::ChangeWorkMode: a Stop and a Run that meet are a Debug.
HandleBits ==
  /\ device = "on" /\ bits # {}
  /\ bits' = {}
  /\ \/ bits = {0, 1} /\ ChangeWorkMode("Run", TRUE)
     \/ bits = {0} /\ ChangeWorkMode("Stop", FALSE)
     \/ bits = {1} /\ ChangeWorkMode("Run", FALSE)
  /\ overtaken' = in_design
  /\ Saves
  /\ UNCHANGED <<device, request, asked, commands, restarts>>

Write ==
  /\ TearHotreload \/ SealHotreload \/ WriteFile
  /\ UNCHANGED <<remoteVars, histories>>
-----------------------------------------------------------------------------
(***************************************************************************)
(* The HTTP server.                                                        *)
(***************************************************************************)
\* WorkModeController::SetWorkMode, up to its check.
BeginSetWorkMode(mode) ==
  /\ device = "on" /\ request = NoRequest
  /\ ~in_design
  /\ request' = ModeRequest(mode)
  /\ commands < MaxCommands /\ commands' = commands + 1
  /\ UNCHANGED <<ladderVars, device, bits, asked, overtaken, unsaved, restarts>>

RaiseWorkMode ==
  /\ request.kind = "mode"
  /\ bits' = bits \cup EventsOf(request.mode)
  /\ asked' = asked \cup {request.mode}
  /\ request' = NoRequest
  /\ UNCHANGED <<ladderVars, device, overtaken, unsaved, commands, restarts>>

\* ProgramController::Upload checks before it receives the program, and
\* again under the lock.
BeginUpload ==
  /\ device = "on" /\ request = NoRequest
  /\ work_mode = "Stop" /\ ~in_design
  /\ request' = UploadRequest
  /\ UNCHANGED <<ladderVars, device, bits, histories>>

\* Mutant: only the mode is checked again.
MayUploadInDesign == work_mode = "Stop"

MayUpload == work_mode = "Stop" /\ ~in_design

\* It is refused then, or could not be received; an upload with an error leaves
\* the mode that is read before it, and the program of the file.
EndUpload ==
  /\ request = UploadRequest
  /\ writes = <<>>
  /\ request' = NoRequest
  /\ \/ UNCHANGED <<networks, view_top_index, work_mode, unsaved>>
     \/ \E program \in Uploads :
          /\ MayUpload
          /\ networks' = LoadedNetworks(program)
          /\ work_mode' = program.mode
          /\ view_top_index' = 1
          /\ unsaved' = unsaved \cup {"uploaded"}
     \/ \E mode \in BadModes :
          /\ MayUpload
          /\ networks' = LoadedNetworks(file)
          /\ work_mode' = LoadedMode(file, mode)
          /\ view_top_index' = 1
          /\ unsaved' = IF file = NoFile THEN {"unserializable"} ELSE {}
  /\ UNCHANGED <<in_design, hotreload, file, writes, device, bits, asked, overtaken, commands, restarts>>
-----------------------------------------------------------------------------
(***************************************************************************)
(* Restarts and the service mode.                                          *)
(***************************************************************************)
\* A panic, a watchdog or esp_restart: the RTC memory is kept.
Boot(record) ==
  /\ Start(record)
  /\ device' = "on" /\ request' = NoRequest /\ bits' = {}
  /\ overtaken' = FALSE
  /\ unsaved' = IF file = NoFile THEN {"unserializable"} ELSE {}

Restart ==
  /\ restarts < MaxRestarts /\ restarts' = restarts + 1
  /\ Boot(LoadedHotreload(TRUE))
  /\ UNCHANGED <<asked, commands>>

\* The RTC memory is lost.  UP held at the start opens the service mode.
PowerLoss ==
  /\ restarts < MaxRestarts /\ restarts' = restarts + 1
  /\ UNCHANGED commands
  /\ asked' = {}
  /\ \/ Boot(LoadedHotreload(FALSE))
     \/ /\ device' = "service" /\ request' = NoRequest /\ bits' = {}
        /\ networks' = LoadedNetworks(file)
        /\ work_mode' = LoadedMode(file, "Stop")
        /\ view_top_index' = 1 /\ in_design' = FALSE
        /\ hotreload' = ColdHotreload /\ writes' = <<>>
        /\ overtaken' = FALSE
        /\ unsaved' = {}
        /\ UNCHANGED file

\* ServiceModeHandler::DoChangeWorkMode
ServiceChangeMode(mode) ==
  /\ device = "service"
  /\ ChangeWorkMode(IF mode = "Stop" THEN "Stop" ELSE "Run", mode = "Debug")
  /\ device' = "restarting"
  /\ asked' = asked \cup {mode}
  /\ commands < MaxCommands /\ commands' = commands + 1
  /\ UNCHANGED <<request, bits, overtaken, unsaved, restarts>>

\* DoRestore, and the start that follows it.
ServiceRestore(program) ==
  /\ device = "service" /\ writes = <<>>
  /\ writes' = <<[to |-> "file", value |-> program]>>
  /\ device' = "starting"
  /\ UNCHANGED <<networks, view_top_index, work_mode, in_design, hotreload, file,
                 request, bits, histories>>

\* Ladder::DeleteStorage
ServiceReset ==
  /\ device = "service" /\ writes = <<>>
  /\ writes' = <<[to |-> "file", value |-> NoFile]>>
  /\ device' = "restarting"
  /\ UNCHANGED <<networks, view_top_index, work_mode, in_design, hotreload, file,
                 request, bits, histories>>

\* The dialogue times out, or is over.
LeaveService ==
  /\ writes = <<>>
  /\ \/ device \in {"service", "starting"} /\ Boot(hotreload)
     \/ device = "restarting" /\ Boot(LoadedHotreload(TRUE))
  /\ UNCHANGED <<asked, commands, restarts>>

Next ==
  \/ Edit \/ HandleBits \/ Write
  \/ \E mode \in Commands : BeginSetWorkMode(mode) \/ ServiceChangeMode(mode)
  \/ RaiseWorkMode \/ BeginUpload \/ EndUpload
  \/ \E program \in Uploads : ServiceRestore(program)
  \/ Restart \/ PowerLoss \/ ServiceReset \/ LeaveService

Spec == Init /\ [][Next]_vars
-----------------------------------------------------------------------------
(***************************************************************************)
(* Properties                                                              *)
(***************************************************************************)
Hotreloads ==
  [view : 1..MaxNetworksCount, selected : 0..(MaxNetworksCount + 1),
   debug : BOOLEAN, valid : BOOLEAN]

\* Every variable has its type.
TypeOK ==
  /\ networks \in Seq([content : Contents, state : NetworkStates, edit : EditStates])
  /\ Len(networks) <= MaxNetworksCount
  /\ view_top_index \in 1..MaxNetworksCount
  /\ work_mode \in WorkModes /\ in_design \in BOOLEAN
  /\ hotreload \in Hotreloads
  /\ \A i \in DOMAIN writes : writes[i].to = "hotreload" => writes[i].value \in Hotreloads
  /\ bits \subseteq {0, 1} /\ asked \subseteq Modes /\ overtaken \in BOOLEAN

\* While the editor is open, and there is a network, exactly one network is
\* selected or edited; while it is closed, none is.  Every handler leaves the
\* old selection, may remove or insert a network, and makes the new one by an
\* index that it computed before.
OneEdited ==
  LET edited == {i \in DOMAIN networks : networks[i].edit # "Regular"} IN
  IF in_design /\ networks # <<>> THEN \E i \in edited : edited = {i} ELSE edited = {}

\* The view starts at a network, and shows the one that is edited, also after
\* networks were removed and after a restart that restores both indexes.
EditedIsShown ==
  /\ networks # <<>> => view_top_index <= Len(networks)
  /\ \A i \in DOMAIN networks :
       networks[i].edit # "Regular" =>
         i \in view_top_index..(view_top_index + ViewPort - 1)

\* The program in the file can be read again, whatever was edited, stored or
\* restored, and wherever a restart came in between.
FileLoads == file # NoFile => Loadable(file)

\* Outside the editor the file holds the program and the work mode, unless
\* networks were moved and that was cancelled, a program was uploaded, or the
\* program could not be serialized when it was last stored or has since got a
\* network that cannot.  A store that fails is silent, and goes on failing for
\* the work mode too while an empty network is left.
SavedOrExplained ==
  device = "on" /\ writes = <<>> /\ ~in_design /\ unsaved = {}
    => file = Program(work_mode, networks)

\* The debug flag is there only if somebody asked for Debug since the power
\* came, or a Stop and a Run that were asked for met in one wait.
DebugIsAsked ==
  hotreload.debug => "Debug" \in asked \/ {"Stop", "Run"} \subseteq asked

\* The program is edited in Run only if debugging is allowed, or if the mode
\* was changed after the editor had been opened.
EditingAllowed == in_design => MayDesign(work_mode, hotreload) \/ overtaken
=============================================================================
