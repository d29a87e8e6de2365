--------------------------- MODULE NetworkEditing ----------------------------
(***************************************************************************)
(* The editing of one network on the display (LogicProgram/Network.cpp,    *)
(* ElementsBox.cpp): a wire makes space for a new element, the buttons     *)
(* select an element, and an elements box puts others in its place.        *)
(*                                                                         *)
(* Whether an element has room on the display depends on the widths of all *)
(* of them, and is left open but for the number of elements.               *)
(***************************************************************************)
EXTENDS Naturals, Sequences, SequencesExt, FiniteSets

CONSTANTS
  Inputs, Outputs,   \* the types of elements, in the order of Fill
  Room               \* how many elements the display has room for

Types == ToSet(Inputs) \cup ToSet(Outputs) \cup {"ContinuationIn", "ContinuationOut", "Wire"}
ASSUME TypesAssumption ==
  /\ Inputs \in Seq(ToSet(Inputs)) /\ Outputs \in Seq(ToSet(Outputs))
  /\ ToSet(Inputs) \cap (ToSet(Outputs) \cup {"ContinuationIn", "ContinuationOut", "Wire"}) = {}
  /\ ToSet(Outputs) \cap {"ContinuationIn", "ContinuationOut", "Wire"} = {}
ASSUME RoomAssumption == Room \in Nat

VARIABLES
  items,     \* the elements
  editing,   \* the network is edited
  box        \* the elements box that stands for an element of items, if any

vars == <<items, editing, box>>

NoBox == [offered |-> <<>>, index |-> 0, in_property |-> FALSE]

IsOutput(type) == type \in ToSet(Outputs)
\* A wire and a continuation have no property to edit.
HasProperties(type) == type \in ToSet(Inputs) \/ IsOutput(type)
HasOutputElement(elements) == \E i \in DOMAIN elements : IsOutput(elements[i].type)

\* The elements at some places, in their order.
AtPlaces(seq, places) ==
  LET picked[n \in 0..Len(seq)] ==
        IF n = 0 THEN <<>>
        ELSE IF n \in places THEN Append(picked[n - 1], seq[n]) ELSE picked[n - 1]
  IN  picked[Len(seq)]

Solid(elements) == AtPlaces(elements, {i \in DOMAIN elements : elements[i].type # "Wire"})

\* GetSelectedElement; 0 stands for the -1 of the code.
SelectedElement == SelectInSeq(items, LAMBDA e : e.edit # "Regular")
InBox == box # NoBox

Init == items = <<>> /\ editing = FALSE /\ box = NoBox
-----------------------------------------------------------------------------
(***************************************************************************)
(* The wire that makes space.                                              *)
(***************************************************************************)
RemoveSpaceForNewElement(elements) == Solid(elements)

\* The wire comes before the first output or ContinuationIn.
WithWire(elements) ==
  LET ends == SelectInSeq(elements, LAMBDA e : IsOutput(e.type) \/ e.type = "ContinuationIn")
  IN  InsertAt(elements, IF ends = 0 THEN Len(elements) + 1 ELSE ends,
               [type |-> "Wire", edit |-> "Regular"])

\* EnoughSpaceForNewElement: some element has room in the place of the wire.
AddSpaceForNewElement(elements) ==
  {elements} \cup (IF Len(elements) < Room THEN {WithWire(elements)} ELSE {})
-----------------------------------------------------------------------------
(***************************************************************************)
(* What an elements box offers in the place of element i.                  *)
(***************************************************************************)
LastType == items[Len(items)].type

\* Mutant: the element itself is not looked at.
OptionShowOutputUnlessAny(i) ==
  ~(i # Len(items) /\ LastType = "ContinuationIn") /\ ~HasOutputElement(items)

OptionShowOutputElement(i) ==
  /\ ~(i # Len(items) /\ LastType = "ContinuationIn")
  /\ ~HasOutputElement(items) \/ IsOutput(items[i].type)
OptionShowContinuationIn(i) ==
  i = Len(items) \/ (LastType = "Wire" /\ i = Len(items) - 1)

\* Mutant: wherever it is.
OptionShowContinuationOutAnywhere(i) == TRUE
OptionShowContinuationOut(i) == i = 1

Offers(i, type) ==
  \/ type \in ToSet(Inputs) \cup {"Wire"}
  \/ IsOutput(type) /\ OptionShowOutputElement(i)
  \/ type = "ContinuationIn" /\ OptionShowContinuationIn(i)
  \/ type = "ContinuationOut" /\ OptionShowContinuationOut(i)

\* Fill.  The element itself and a wire of its width always have room.
FillOrder == Inputs \o Outputs \o <<"ContinuationIn", "ContinuationOut", "Wire">>
Offered(i, fitting) ==
  AtPlaces(FillOrder,
           {k \in DOMAIN FillOrder : /\ Offers(i, FillOrder[k])
                                     /\ FillOrder[k] \in fitting \cup {items[i].type, "Wire"}})

\* Mutant: the box does not know which element it stands for.
OpenBoxUnaware(i, fitting) ==
  /\ box' = [offered |-> Offered(i, fitting), index |-> 1, in_property |-> FALSE]
  /\ items' = [items EXCEPT ![i].edit = "Editing"]

\* An element that is not offered is deleted, and the first one shown.
OpenBox(i, fitting) ==
  LET offered == Offered(i, fitting)
      own == SelectInSeq(offered, LAMBDA t : t = items[i].type)
      index == IF own = 0 THEN 1 ELSE own IN
  /\ box' = [offered |-> offered, index |-> index, in_property |-> FALSE]
  /\ items' = [items EXCEPT ![i] = [type |-> offered[index], edit |-> "Editing"]]

\* EditingCompleted: the element that is shown stays, the others are deleted.
CloseBox ==
  /\ items' \in AddSpaceForNewElement(RemoveSpaceForNewElement(
                  [items EXCEPT ![SelectedElement].edit = "Regular"]))
  /\ box' = NoBox
-----------------------------------------------------------------------------
(***************************************************************************)
(* The buttons.                                                            *)
(***************************************************************************)
BeginEditing ==
  /\ ~editing
  /\ editing' = TRUE
  /\ items' \in AddSpaceForNewElement(items)
  /\ UNCHANGED box

Marked(elements, i, edit) ==
  IF i \in DOMAIN elements THEN [elements EXCEPT ![i].edit = edit] ELSE elements

\* SelectPrior and SelectNext go round the elements and the network itself.
SelectPriorOrNext ==
  /\ editing /\ ~InBox
  /\ LET i == SelectedElement
         count == Len(items) + 1 IN
       \E step \in {1, Len(items)} :
         items' = Marked(Marked(items, i, "Regular"), (i + step) % count, "Selected")
  /\ UNCHANGED <<editing, box>>

Turned(step) == ((box.index - 1 + step) % Len(box.offered)) + 1

\* The box shows another element, unless a property of this one is edited.
TurnBox ==
  /\ InBox /\ ~box.in_property
  /\ \E step \in {1, Len(box.offered) - 1} :
       /\ box' = [box EXCEPT !.index = Turned(step)]
       /\ items' = [items EXCEPT ![SelectedElement].type = box.offered[box'.index]]
  /\ UNCHANGED editing

\* Change
OpenElement ==
  /\ editing /\ ~InBox /\ SelectedElement # 0
  /\ \E fitting \in SUBSET Types : OpenBox(SelectedElement, fitting)
  /\ UNCHANGED editing

\* The first Change goes to the first property.
EditProperty ==
  /\ InBox /\ ~box.in_property
  /\ HasProperties(items[SelectedElement].type)
  /\ box' = [box EXCEPT !.in_property = TRUE]
  /\ UNCHANGED <<items, editing>>

\* Change of the last property, or Option of a text, completes the element.
CompleteElement ==
  /\ InBox
  /\ box.in_property \/ ~HasProperties(items[SelectedElement].type)
  /\ CloseBox
  /\ UNCHANGED editing

\* Mutant: the wire stays.
EndEditingWithWire ==
  /\ editing /\ ~InBox /\ SelectedElement = 0
  /\ editing' = FALSE
  /\ UNCHANGED <<items, box>>

\* Change with no element selected.
EndEditing ==
  /\ editing /\ ~InBox /\ SelectedElement = 0
  /\ editing' = FALSE
  /\ items' = RemoveSpaceForNewElement(items)
  /\ UNCHANGED box

Next ==
  \/ BeginEditing \/ SelectPriorOrNext \/ TurnBox \/ OpenElement \/ EditProperty
  \/ CompleteElement \/ EndEditing

Spec == Init /\ [][Next]_vars
-----------------------------------------------------------------------------
(***************************************************************************)
(* Properties                                                              *)
(***************************************************************************)
\* Every variable has its type, and the box shows one of its elements in the
\* place of the one that is edited, however it was turned.
TypeOK ==
  /\ items \in Seq([type : Types, edit : {"Regular", "Selected", "Editing"}])
  /\ Len(items) <= Room
  /\ editing \in BOOLEAN
  /\ InBox =>
       /\ box.index \in DOMAIN box.offered
       /\ items[SelectedElement] = [type |-> box.offered[box.index], edit |-> "Editing"]

EditedCount == Cardinality({i \in DOMAIN items : items[i].edit # "Regular"})
WiresCount == Cardinality({i \in DOMAIN items : items[i] = [type |-> "Wire", edit |-> "Regular"]})

\* However the editing went, it leaves no wire and no selected element in the
\* network, which could then not be saved as it is shown.  While it goes on, at
\* most one element is edited and at most one wire makes space.
EndsClean ==
  /\ EditedCount <= 1 /\ WiresCount <= 1
  /\ ~editing => EditedCount = 0 /\ WiresCount = 0

\* No sequence of changes of single elements leaves a network with two outputs,
\* a ContinuationIn that is not at its end or a ContinuationOut that is not at
\* its beginning, though each is offered by a look at the neighbours only.
EndsInPlace ==
  ~InBox =>
    LET solid == Solid(items) IN
    /\ \A i, j \in DOMAIN solid :
         IsOutput(solid[i].type) /\ IsOutput(solid[j].type) => i = j
    /\ \A i \in DOMAIN solid :
         /\ solid[i].type = "ContinuationIn" => i = Len(solid)
         /\ solid[i].type = "ContinuationOut" => i = 1

\* Opening an element shows it as it is, and does not delete it, whatever the
\* network is built of; but an output before a ContinuationIn is lost.
OpensAsItIs ==
  [][\A i \in DOMAIN items \cap DOMAIN items' :
       items[i].edit = "Selected" /\ items'[i].edit = "Editing"
         => \/ items'[i].type = items[i].type
            \/ IsOutput(items[i].type) /\ LastType = "ContinuationIn"]_vars

\* What the documentation says: an output ends the chain.
OutputEndsChain ==
  ~editing => \A i \in DOMAIN items : IsOutput(items[i].type) => i = Len(items)
=============================================================================
