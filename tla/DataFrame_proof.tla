---------------------------- MODULE DataFrame_proof ----------------------------
(***************************************************************************)
(* Proofs of the safety properties of DataFrame, for every set of types,   *)
(* lengths, counts and claimed sizes.                                      *)
(***************************************************************************)
EXTENDS DataFrame, TLAPS

(* A component that is cut off at pos extends the tiling.                  *)
LEMMA TilesExtend ==
    ASSUME NEW cs \in Seq(Object), NEW first \in Nat, NEW last \in Nat,
           NEW c \in Object, Tiles(cs, first, last),
           c.from = last + componentHeaderSize, c.from <= c.upto
    PROVE  Tiles(Append(cs, c), first, c.upto)
<1> DEFINE ds == Append(cs, c)
<1>1. /\ ds \in Seq(Object)
      /\ Len(ds) = Len(cs) + 1
      /\ ds[Len(cs) + 1] = c
      /\ \A k \in 1 .. Len(cs) : ds[k] = cs[k]
  OBVIOUS
<1>2. ds # <<>> /\ DOMAIN ds = 1 .. Len(cs) + 1 /\ DOMAIN cs = 1 .. Len(cs)
      /\ Len(cs) \in Nat
  BY <1>1
<1>3. ds[1].from = first + componentHeaderSize
  <2>1. CASE cs = <<>>
    BY <1>1, <2>1 DEF Tiles
  <2>2. CASE cs # <<>>
    BY <1>1, <1>2, <2>2 DEF Tiles
  <2> QED  BY <2>1, <2>2
<1>4. \A k \in DOMAIN ds : ds[k].from <= ds[k].upto
  BY <1>1, <1>2 DEF Tiles
<1>5. ASSUME NEW k \in DOMAIN ds, k > 1
      PROVE  ds[k].from = ds[k - 1].upto + componentHeaderSize
  <2>1. CASE k = Len(cs) + 1
    <3>1. cs # <<>> /\ ds[k - 1] = cs[Len(cs)]
      <4>1. Len(cs) > 0 /\ k - 1 = Len(cs)
        BY <1>2, <1>5, <2>1
      <4>2. Len(cs) \in 1 .. Len(cs)
        BY <1>2, <4>1
      <4> QED  BY <1>1, <4>1, <4>2
    <3>2. cs[Len(cs)].upto = last
      BY <3>1 DEF Tiles
    <3>3. ds[k] = c
      BY <1>1, <2>1
    <3> QED  BY <3>1, <3>2, <3>3
  <2>2. CASE k # Len(cs) + 1
    <3>1. k \in DOMAIN cs /\ ds[k] = cs[k] /\ ds[k - 1] = cs[k - 1]
      BY <1>1, <1>2, <1>5, <2>2
    <3> QED  BY <3>1, <1>5 DEF Tiles
  <2> QED  BY <2>1, <2>2
<1>6. ds[Len(ds)].upto = c.upto
  BY <1>1
<1> HIDE DEF ds
<1> QED  BY <1>2, <1>3, <1>4, <1>5, <1>6 DEF Tiles, ds

(* A call that is over leaves no loop behind.                              *)
LEMMA Finished ==
    ASSUME NEW p, LoopInv, Finish(p), frame' \in Frames \cup {NoFrame}, p \in Held
    PROVE  LoopInv'
<1>1. <<>> \in Seq(Object)
  OBVIOUS
<1>2. TypeOK'
  BY <1>1 DEF TypeOK, Finish
<1> QED  BY <1>2 DEF LoopInv, Finish

(* The invariant of the loop is inductive.                                 *)
LEMMA LoopKept == LoopInv /\ [Next]_vars => LoopInv'
<1> SUFFICES ASSUME LoopInv, [Next]_vars PROVE LoopInv'
  OBVIOUS
<1> USE DEF LoopInv
<1>0. Nothing \in Held /\ Nothing.ok = FALSE
  <2>1. <<>> \in Seq(Object)
    OBVIOUS
  <2> QED  BY <2>1 DEF Nothing, Held
<1>1. CASE Receive
  <2>1. PICK n \in Lengths :
            \/ /\ n >= dataPacketHeaderSize
               /\ length' = n
               /\ count' \in Counts
               /\ pos' = dataPacketHeaderSize
               /\ pc' = "loop"
               /\ UNCHANGED <<components, packet>>
            \/ n < dataPacketHeaderSize /\ Fail
    BY <1>1 DEF Receive
  <2>2. frame' \in Frames /\ frame' # NoFrame
    BY <1>1, FramesAssumption DEF Receive
  <2>3. CASE n < dataPacketHeaderSize /\ Fail
    BY <1>0, <2>2, <2>3, Finished DEF Fail
  <2>4. CASE /\ n >= dataPacketHeaderSize
             /\ length' = n
             /\ count' \in Counts
             /\ pos' = dataPacketHeaderSize
             /\ pc' = "loop"
             /\ UNCHANGED <<components, packet>>
    <3>1. components = <<>>
      BY <1>1 DEF Receive
    <3>2. TypeOK'
      BY <2>2, <2>4, LengthsAssumption, CountsAssumption DEF TypeOK, dataPacketHeaderSize
    <3>3. Tiles(components', dataPacketHeaderSize, pos')
      BY <2>4, <3>1 DEF Tiles
    <3>4. dataPacketHeaderSize + componentHeaderSize * Len(components') <= pos'
      BY <2>4, <3>1 DEF dataPacketHeaderSize, componentHeaderSize
    <3> QED  BY <2>2, <2>4, <3>1, <3>2, <3>3, <3>4
  <2> QED  BY <2>1, <2>3, <2>4
<1>2. CASE HeaderPastEnd \/ InvalidSize \/ ComponentFails
  <2>1. Fail /\ frame' = frame
    BY <1>2 DEF HeaderPastEnd, InvalidSize, ComponentFails
  <2> QED  BY <1>0, <2>1, Finished DEF Fail, TypeOK
<1>3. CASE Decode
  <2> DEFINE Cut(csize, t) ==
               [go    |-> getComponentObject(t),
                type  |-> t,
                from  |-> pos + componentHeaderSize,
                upto  |-> pos + csize,
                bytes |-> Keep]
  <2>1. PICK csize \in Claims, t \in Types :
            /\ csize >= componentHeaderSize /\ pos + csize <= length
            /\ components' = Append(components, Cut(csize, t))
            /\ pos' = pos + csize
    BY <1>3 DEF Decode, Sized, PayloadEnd
  <2> DEFINE c == Cut(csize, t)
  <2>2. /\ pc = "loop" /\ pc' = "loop"
        /\ UNCHANGED <<frame, length, count, packet>>
    BY <1>3 DEF Decode, HeaderFits, More
  <2>3. csize \in Nat /\ pos \in Nat /\ frame \in Frames
    BY <2>2, ClaimsAssumption DEF TypeOK
  <2>4. c \in Object
    BY <2>3 DEF Object, Keep, componentHeaderSize
  <2>5. /\ c.from = pos + componentHeaderSize /\ c.upto = pos + csize
        /\ c.bytes = frame
    BY DEF Keep
  <2>6. c.from <= c.upto
    BY <2>1, <2>3, <2>5 DEF componentHeaderSize
  <2> HIDE DEF Cut, c
  <2>7. /\ components \in Seq(Object)
        /\ components' = Append(components, c)
        /\ Len(components') = Len(components) + 1
        /\ components' \in Seq(Object)
    BY <2>1, <2>4 DEF TypeOK, c
  <2>8. TypeOK'
    BY <2>1, <2>2, <2>3, <2>7 DEF TypeOK
  <2>9. Tiles(components', dataPacketHeaderSize, pos')
    <3>1. Tiles(Append(components, c), dataPacketHeaderSize, c.upto)
      BY <2>2, <2>3, <2>4, <2>5, <2>6, <2>7, TilesExtend DEF dataPacketHeaderSize
    <3> QED  BY <2>1, <2>5, <2>7, <3>1
  <2>10. dataPacketHeaderSize + componentHeaderSize * Len(components') <= pos'
    BY <2>1, <2>2, <2>3, <2>7 DEF dataPacketHeaderSize, componentHeaderSize
  <2>11. \A k \in DOMAIN components' : components'[k].bytes = frame'
    BY <2>2, <2>5, <2>7
  <2> QED  BY <2>2, <2>3, <2>8, <2>9, <2>10, <2>11, FramesAssumption
<1>4. CASE Return
  <2> DEFINE p == [frame |-> frame, count |-> count, ok |-> TRUE,
                   components |-> components]
  <2>1. Finish(p) /\ frame' = frame
    BY <1>4 DEF Return
  <2>2. p \in Held
    BY DEF TypeOK, Held
  <2> HIDE DEF p
  <2> QED  BY <2>1, <2>2, Finished DEF TypeOK
<1>5. CASE UNCHANGED vars
  BY <1>5 DEF vars, TypeOK
<1> QED  BY <1>1, <1>2, <1>3, <1>4, <1>5 DEF Next

(* What the application holds changes when a call returns, and only then.  *)
LEMMA HeldKept == LoopInv /\ HeldInv /\ [Next]_vars => HeldInv'
<1> SUFFICES ASSUME LoopInv, HeldInv, [Next]_vars PROVE HeldInv'
  OBVIOUS
<1>1. ASSUME Fail PROVE HeldInv'
  BY <1>1 DEF Fail, Finish, Nothing, HeldInv
<1>2. ASSUME packet' = packet PROVE HeldInv'
  BY <1>2 DEF HeldInv
<1>3. CASE Return
  BY <1>3 DEF Return, Finish, LoopInv, HeldInv
<1> QED
  BY <1>1, <1>2, <1>3
  DEF Next, Receive, HeaderPastEnd, InvalidSize, ComponentFails, Decode, vars

(* The invariant holds of every behaviour.                                 *)
THEOREM Invariance == Spec => []IInv
<1>1. Init => IInv
  <2> SUFFICES ASSUME Init PROVE IInv
    OBVIOUS
  <2>1. <<>> \in Seq(Object)
    OBVIOUS
  <2>2. TypeOK
    BY <2>1 DEF Init, TypeOK, Nothing, Held
  <2> QED  BY <2>2 DEF Init, IInv, LoopInv, HeldInv, Nothing
<1>2. IInv /\ [Next]_vars => IInv'
  BY LoopKept, HeldKept DEF IInv
<1> QED  BY <1>1, <1>2, PTL DEF Spec

(* TypeOK: no offset of the loop leaves the packet.                        *)
THEOREM TypeCorrect == Spec => []TypeOK
<1>1. IInv => TypeOK
  BY DEF IInv, LoopInv
<1> QED  BY <1>1, Invariance, PTL

(* OwnSlices: the parsers' slices are disjoint, in order and in bounds.    *)
THEOREM SlicesAreDisjoint == Spec => []OwnSlices
<1>1. IInv => OwnSlices
  BY DEF IInv, LoopInv, OwnSlices
<1> QED  BY <1>1, Invariance, PTL

(* WorkBounded: the bytes bound the loop, not the count that was claimed.  *)
THEOREM BytesBoundTheLoop == Spec => []WorkBounded
<1>1. IInv => WorkBounded
  BY DEF IInv, LoopInv, WorkBounded
<1> QED  BY <1>1, Invariance, PTL

(* PacketsStayIntact: a held packet survives the reuse of the buffer.      *)
THEOREM HeldPacketsAreCopies == Spec => []PacketsStayIntact
<1>1. IInv => PacketsStayIntact
  BY DEF IInv, HeldInv, PacketsStayIntact, Content, Aliased
<1> QED  BY <1>1, Invariance, PTL

-----------------------------------------------------------------------------
(* The look-ups.                                                           *)

KnownTypes ==
    {"3D", "3DResidual", "3DNoLabels", "3DNoLabelsResidual",
     "6D", "6DResidual", "6DEuler", "6DEulerResidual", "2D", "2DLinearized",
     "Analog", "AnalogSingle", "Force", "ForceSingle", "Image", "GazeVector",
     "EyeTracker", "Skeleton", "Timecode"}

(* The two tables of types are inverse to each other: the entry of a type  *)
(* is recognized as that type, and an UnknownComponent as none             *)
(* (getComponentObject, packet.go:97-139; componentTypeOf, 226-272).       *)
THEOREM TablesInverse ==
    ASSUME NEW t
    PROVE  /\ t \in KnownTypes => /\ getComponentObject(t) # "UnknownComponent"
                                  /\ componentTypeOf(getComponentObject(t)) = t
           /\ t \notin KnownTypes => /\ getComponentObject(t) = "UnknownComponent"
                                     /\ componentTypeOf(getComponentObject(t)) = NoType
<1>1. ASSUME t \in KnownTypes
      PROVE  /\ getComponentObject(t) # "UnknownComponent"
             /\ componentTypeOf(getComponentObject(t)) = t
  BY <1>1 DEF KnownTypes, getComponentObject, componentTypeOf
<1>2. ASSUME t \notin KnownTypes
      PROVE  /\ getComponentObject(t) = "UnknownComponent"
             /\ componentTypeOf(getComponentObject(t)) = NoType
  BY <1>2 DEF KnownTypes, getComponentObject, componentTypeOf
<1>. QED  BY <1>1, <1>2

(* Components are held by the Go type of their own table entry.            *)
Typed(cs) ==
    \A k \in DOMAIN cs : cs[k].type \in Types /\ cs[k].go = getComponentObject(cs[k].type)

LEMMA LookUps ==
    ASSUME NEW cs, Typed(cs), NEW t \in Types
    PROVE  IF t \in UnknownComponentTypes(cs)
           THEN /\ Component(cs, t) = 0
                /\ UnknownComponentData(cs, t) = First({k \in DOMAIN cs : cs[k].type = t})
           ELSE /\ Component(cs, t) = First({k \in DOMAIN cs : cs[k].type = t})
                /\ UnknownComponentData(cs, t) = 0
<1>. DEFINE ofType == {k \in DOMAIN cs : cs[k].type = t}
            decoded == {k \in DOMAIN cs : componentTypeOf(cs[k].go) = t}
            undecoded == {k \in DOMAIN cs : cs[k].go = "UnknownComponent" /\ cs[k].type = t}
<1>1. t # NoType
  BY TypesAssumption
<1>2. \A k \in DOMAIN cs : /\ cs[k].go = "UnknownComponent" <=> cs[k].type \notin KnownTypes
                           /\ componentTypeOf(cs[k].go) = t
                                 <=> cs[k].type \in KnownTypes /\ cs[k].type = t
  BY <1>1, TablesInverse DEF Typed
<1>3. First({}) = 0
  BY DEF First
<1>4. CASE t \in KnownTypes
  <2>1. decoded = ofType /\ undecoded = {} /\ t \notin UnknownComponentTypes(cs)
    BY <1>2, <1>4 DEF UnknownComponentTypes
  <2>. QED  BY <1>3, <2>1 DEF Component, UnknownComponentData
<1>5. CASE t \notin KnownTypes
  <2>1. decoded = {} /\ undecoded = ofType
    BY <1>2, <1>5
  <2>2. t \notin UnknownComponentTypes(cs) => ofType = {}
    BY <1>2, <1>5 DEF UnknownComponentTypes
  <2>. QED  BY <1>3, <2>1, <2>2 DEF Component, UnknownComponentData
<1>. QED  BY <1>4, <1>5

LEMMA TypedKept ==
    ASSUME TypeOK, Typed(components), Typed(packet.components), [Next]_vars
    PROVE  Typed(components)' /\ Typed(packet.components)'
<1>1. \A p : Finish(p) => components' = <<>> /\ packet' = p
  BY DEF Finish
<1>2. Typed(<<>>)
  BY DEF Typed
<1>3. Nothing.components = <<>>
  BY DEF Nothing
<1>4. CASE Fail
  BY <1>1, <1>2, <1>3, <1>4 DEF Fail, Typed
<1>5. CASE UNCHANGED <<components, packet>>
  BY <1>5 DEF Typed
<1>6. CASE Return
  <2>1. components' = <<>> /\ packet'.components = components
    BY <1>1, <1>6 DEF Return
  <2>. QED  BY <1>2, <2>1 DEF Typed
<1>7. CASE Decode
  <2>1. PICK csize \in Claims, t \in Types :
            components' = Append(components,
                [go    |-> getComponentObject(t),
                 type  |-> t,
                 from  |-> pos + componentHeaderSize,
                 upto  |-> PayloadEnd(csize),
                 bytes |-> Keep])
    BY <1>7 DEF Decode
  <2>. DEFINE c == [go    |-> getComponentObject(t),
                    type  |-> t,
                    from  |-> pos + componentHeaderSize,
                    upto  |-> PayloadEnd(csize),
                    bytes |-> Keep]
  <2>2. c.type = t /\ c.go = getComponentObject(t)
    OBVIOUS
  <2>. HIDE DEF c
  <2>3. components \in Seq(Object) /\ components' = Append(components, c) /\ packet' = packet
    BY <1>7, <2>1 DEF Decode, TypeOK, c
  <2>4. \A k \in DOMAIN Append(components, c) :
           \/ k \in DOMAIN components /\ Append(components, c)[k] = components[k]
           \/ Append(components, c)[k] = c
    BY <2>3
  <2>. QED  BY <2>2, <2>3, <2>4 DEF Typed
<1>. QED
  BY <1>4, <1>5, <1>6, <1>7
  DEF Next, Receive, HeaderPastEnd, InvalidSize, ComponentFails, vars

(* FoundByType: each component of a frame is found in one way only, and    *)
(* the first of its type, whatever types QTM sends.                        *)
THEOREM LookUpsFind == Spec => []FoundByType
<1>1. Init => Typed(components) /\ Typed(packet.components)
  BY DEF Init, Nothing, Typed
<1>2. TypeOK /\ Typed(components) /\ Typed(packet.components) /\ [Next]_vars
         => Typed(components)' /\ Typed(packet.components)'
  BY TypedKept
<1>3. Typed(packet.components) => FoundByType
  BY LookUps DEF FoundByType
<1>. QED  BY <1>1, <1>2, <1>3, TypeCorrect, PTL DEF Spec

=============================================================================
