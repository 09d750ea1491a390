------------------------------- MODULE DataFrame -------------------------------
(***************************************************************************)
(* DataPacket.UnmarshalBinary (packet.go:158-204): the loop that cuts one  *)
(* data frame, which lies in the shared receive buffer, into components,   *)
(* and the look-ups of a decoded frame (packet.go:228-317).                *)
(*                                                                         *)
(* A frame is its length and whatever its fields say when they are read.   *)
(* ComponentDecoder describes what happens inside one component: here it   *)
(* decodes or it does not.  The next frame overwrites the buffer while the *)
(* application still holds the previous packet.                            *)
(***************************************************************************)
EXTENDS Integers, Sequences

CONSTANTS
    Types,          \* the component types on the wire, known or not
    Lengths,        \* payload lengths of data packets
    Counts,         \* component counts that frames claim
    Claims,         \* component sizes that frames claim
    Frames          \* names that tell frames apart

ASSUME LengthsAssumption == Lengths \subseteq Nat

ASSUME CountsAssumption == Counts \subseteq Nat

ASSUME ClaimsAssumption == Claims \subseteq Nat

NoFrame == 0

ASSUME FramesAssumption == Frames \subseteq Nat \ {NoFrame}

dataPacketHeaderSize == 16

componentHeaderSize == 8

(* The Go type that holds each component type the SDK knows; the others    *)
(* are kept as UnknownComponent.                                           *)
getComponentObject(t) ==
    CASE t = "3D"                 -> "Component3D"
      [] t = "3DResidual"         -> "Component3DResidual"
      [] t = "3DNoLabels"         -> "Component3DNoLabels"
      [] t = "3DNoLabelsResidual" -> "Component3DNoLabelsResidual"
      [] t = "6D"                 -> "Component6D"
      [] t = "6DEuler"            -> "Component6DEuler"
      [] t = "6DResidual"         -> "Component6DResidual"
      [] t = "6DEulerResidual"    -> "Component6DEulerResidual"
      [] t = "2D"                 -> "Component2D"
      [] t = "2DLinearized"       -> "Component2DLinearized"
      [] t = "Analog"             -> "ComponentAnalog"
      [] t = "AnalogSingle"       -> "ComponentAnalogSingle"
      [] t = "Force"              -> "ComponentForce"
      [] t = "ForceSingle"        -> "ComponentForceSingle"
      [] t = "Image"              -> "ComponentImage"
      [] t = "GazeVector"         -> "ComponentGazeVector"
      [] t = "Timecode"           -> "ComponentTimecode"
      [] t = "Skeleton"           -> "ComponentSkeleton"
      [] t = "EyeTracker"         -> "ComponentEyeTracker"
      [] OTHER                    -> "UnknownComponent"

NoType == "no component type"

ASSUME TypesAssumption == NoType \notin Types

(* The component type a decoded object came from; NoType for an unknown    *)
(* one, which Component never returns.                                     *)
componentTypeOf(g) ==
    CASE g = "Component3D"                 -> "3D"
      [] g = "Component3DResidual"         -> "3DResidual"
      [] g = "Component3DNoLabels"         -> "3DNoLabels"
      [] g = "Component3DNoLabelsResidual" -> "3DNoLabelsResidual"
      [] g = "Component6D"                 -> "6D"
      [] g = "Component6DResidual"         -> "6DResidual"
      [] g = "Component6DEuler"            -> "6DEuler"
      [] g = "Component6DEulerResidual"    -> "6DEulerResidual"
      [] g = "Component2D"                 -> "2D"
      [] g = "Component2DLinearized"       -> "2DLinearized"
      [] g = "ComponentAnalog"             -> "Analog"
      [] g = "ComponentAnalogSingle"       -> "AnalogSingle"
      [] g = "ComponentForce"              -> "Force"
      [] g = "ComponentForceSingle"        -> "ForceSingle"
      [] g = "ComponentImage"              -> "Image"
      [] g = "ComponentGazeVector"         -> "GazeVector"
      [] g = "ComponentTimecode"           -> "Timecode"
      [] g = "ComponentSkeleton"           -> "Skeleton"
      [] g = "ComponentEyeTracker"         -> "EyeTracker"
      [] OTHER                             -> NoType

VARIABLES
    frame,      \* the frame that fills the receive buffer
    length,     \* len(data) of that frame
    count,      \* componentCount
    pc,         \* "idle" or "loop"
    pos,        \* offset of the next component
    components, \* d.Components
    packet      \* the packet the application holds

vars == <<frame, length, count, pc, pos, components, packet>>

(* A decoded component: its Go type, the wire type it came from, the slice *)
(* its parser was given, and the frame whose bytes it holds; Aliased when  *)
(* it refers to the receive buffer instead of holding bytes of its own.    *)
Aliased == NoFrame

Object == [go : {getComponentObject(t) : t \in Types}, type : Types,
           from : Nat, upto : Nat, bytes : Frames \cup {Aliased}]

Held == [frame : Frames \cup {NoFrame}, count : Nat, ok : BOOLEAN, components : Seq(Object)]

TypeOK ==
    /\ frame \in Frames \cup {NoFrame}
    /\ length \in Nat
    /\ count \in Nat
    /\ pc \in {"idle", "loop"}
    /\ pos \in Nat
    /\ pos <= length
    /\ components \in Seq(Object)
    /\ packet \in Held

Nothing == [frame |-> NoFrame, count |-> 0, ok |-> FALSE, components |-> <<>>]

Init ==
    /\ frame = NoFrame
    /\ length = 0
    /\ count = 0
    /\ pc = "idle"
    /\ pos = 0
    /\ components = <<>>
    /\ packet = Nothing

-----------------------------------------------------------------------------
(* The call is over: its locals are gone and the application holds p.     *)
Finish(p) ==
    /\ pc' = "idle"
    /\ length' = 0
    /\ count' = 0
    /\ pos' = 0
    /\ components' = <<>>
    /\ packet' = p

(* An error discards what was decoded of the frame: the caller gets a      *)
(* packet of type None.                                                    *)
Fail == Finish(Nothing)

(* The next frame is read into the same buffer.  Its name is neither that  *)
(* of the frame before it nor that of the packet still held.               *)
Receive ==
    /\ pc = "idle"
    /\ frame' \in Frames \ {frame, packet.frame}
    /\ \E n \in Lengths :
          \/ /\ n >= dataPacketHeaderSize
             /\ length' = n
             /\ count' \in Counts
             /\ pos' = dataPacketHeaderSize
             /\ pc' = "loop"
             /\ UNCHANGED <<components, packet>>
          \/ n < dataPacketHeaderSize /\ Fail

More == pc = "loop" /\ Len(components) < count

HeaderPastEnd ==
    /\ More
    /\ pos + componentHeaderSize > length
    /\ Fail
    /\ UNCHANGED frame

HeaderFits == More /\ pos + componentHeaderSize <= length

(* Mutants of Sized: the remaining bytes, or the undersized length, are    *)
(* not checked.                                                            *)
SizedBeyondPacket(csize) == csize >= componentHeaderSize

SizedUndersized(csize) == pos + csize <= length

(* A component length is at least its own header and within the packet.    *)
Sized(csize) == csize >= componentHeaderSize /\ pos + csize <= length

InvalidSize ==
    /\ HeaderFits
    /\ \E csize \in Claims : ~Sized(csize)
    /\ Fail
    /\ UNCHANGED frame

(* Mutant of PayloadEnd: a parser is given everything to the end of the    *)
(* buffer, as in the original implementation.                              *)
PayloadToBufferEnd(csize) == length

PayloadEnd(csize) == pos + csize

(* Mutant of Keep: an unknown component refers to the receive buffer.      *)
KeepSlice == Aliased

(* The bytes a decoded object holds: UnknownComponent copies its payload.  *)
(* The copies that cursor.Bytes makes for the other parsers are not        *)
(* modelled one by one.                                                    *)
Keep == frame

Decode ==
    /\ HeaderFits
    /\ \E csize \in Claims, t \in Types :
          /\ Sized(csize)
          /\ components' = Append(components,
                [go    |-> getComponentObject(t),
                 type  |-> t,
                 from  |-> pos + componentHeaderSize,
                 upto  |-> PayloadEnd(csize),
                 bytes |-> Keep])
          /\ pos' = pos + csize
    /\ UNCHANGED <<frame, length, count, pc, packet>>

(* A known component's parser fails; an unknown one's never does.          *)
ComponentFails ==
    /\ HeaderFits
    /\ \E csize \in Claims, t \in Types :
          /\ Sized(csize)
          /\ getComponentObject(t) # "UnknownComponent"
    /\ Fail
    /\ UNCHANGED frame

Return ==
    /\ pc = "loop"
    /\ Len(components) = count
    /\ Finish([frame |-> frame, count |-> count, ok |-> TRUE, components |-> components])
    /\ UNCHANGED frame

Next ==
    \/ Receive
    \/ HeaderPastEnd \/ InvalidSize \/ Decode \/ ComponentFails \/ Return

Spec == Init /\ [][Next]_vars

-----------------------------------------------------------------------------
(* The look-ups, over the components of a frame.  They return the position *)
(* of the object they find, or 0.                                          *)

First(ks) == IF ks = {} THEN 0 ELSE CHOOSE k \in ks : \A j \in ks : k <= j

(* Mutant of Component: undecoded components are found as well.            *)
ComponentByWireType(cs, t) == First({k \in DOMAIN cs : cs[k].type = t})

Component(cs, t) == First({k \in DOMAIN cs : componentTypeOf(cs[k].go) = t})

UnknownComponentData(cs, t) ==
    First({k \in DOMAIN cs : cs[k].go = "UnknownComponent" /\ cs[k].type = t})

(* The code's list, without its order.                                     *)
UnknownComponentTypes(cs) ==
    {cs[k].type : k \in {j \in DOMAIN cs : cs[j].go = "UnknownComponent"}}

-----------------------------------------------------------------------------
(* The components' headers and payloads tile the frame from the end of its *)
(* header on: every parser gets exactly its own slice, inside the packet,  *)
(* and no byte is handed to two of them (packet.go:150-153).               *)
Tiles(cs, first, last) ==
    /\ cs = <<>> => first = last
    /\ cs # <<>> => /\ cs[1].from = first + componentHeaderSize
                    /\ cs[Len(cs)].upto = last
    /\ \A k \in DOMAIN cs : cs[k].from <= cs[k].upto
    /\ \A k \in DOMAIN cs :
          k > 1 => cs[k].from = cs[k - 1].upto + componentHeaderSize

OwnSlices == pc = "loop" => Tiles(components, dataPacketHeaderSize, pos)

(* A frame never yields more components than its bytes can hold, whatever  *)
(* count and sizes it claims: a zero or undersized component length does   *)
(* not keep the loop going (packet.go:181).                                *)
WorkBounded ==
    pc = "loop" =>
        dataPacketHeaderSize + componentHeaderSize * Len(components) <= pos

(* A packet that the application holds is a whole frame, with as many      *)
(* components as the frame said, and keeps the bytes of its own frame while*)
(* later frames overwrite the receive buffer (cursor.go:121-125).          *)
Content(c) == IF c.bytes = Aliased THEN frame ELSE c.bytes

PacketsStayIntact ==
    packet.ok =>
        /\ Len(packet.components) = packet.count
        /\ \A k \in DOMAIN packet.components :
              Content(packet.components[k]) = packet.frame

(* Every component of the frame is found under its wire type, the first of *)
(* its type, by exactly one of Component and UnknownComponentData, and     *)
(* UnknownComponentTypes lists what Component will not return              *)
(* (packet.go:278-317).                                                    *)
FoundByType ==
    LET cs == packet.components
        FirstOf(t) == First({k \in DOMAIN cs : cs[k].type = t})
    IN  \A t \in Types :
            IF t \in UnknownComponentTypes(cs)
            THEN Component(cs, t) = 0 /\ UnknownComponentData(cs, t) = FirstOf(t)
            ELSE Component(cs, t) = FirstOf(t) /\ UnknownComponentData(cs, t) = 0

-----------------------------------------------------------------------------
(* The inductive invariant: what holds inside the loop makes the packet    *)
(* that Return hands over whole.                                           *)
LoopInv ==
    /\ TypeOK
    /\ pc = "idle" => components = <<>>
    /\ pc = "loop" =>
          /\ frame # NoFrame
          /\ Tiles(components, dataPacketHeaderSize, pos)
          /\ dataPacketHeaderSize + componentHeaderSize * Len(components) <= pos
          /\ \A k \in DOMAIN components : components[k].bytes = frame

HeldInv ==
    packet.ok =>
        /\ packet.frame # NoFrame
        /\ Len(packet.components) = packet.count
        /\ \A k \in DOMAIN packet.components : packet.components[k].bytes = packet.frame

IInv == LoopInv /\ HeldInv
=============================================================================
