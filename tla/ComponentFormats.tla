---------------------------- MODULE ComponentFormats ----------------------------
(***************************************************************************)
(* The wire layout of the data frame components, as the parsers of         *)
(* pkg/packets read it.  Each parser is a count of groups, a bound check   *)
(* of that count, and for each group a run of fixed fields, in most        *)
(* components with a second, checked count of records inside the group.    *)
(*                                                                         *)
(*   extra   bytes read after the group count                              *)
(*   min     minBytesEach of the check of the group count                  *)
(*   head    bytes of the fixed fields of a group, its count included      *)
(*   counted does a group hold counted records?                            *)
(*   opt     bytes of fields that a group without records omits            *)
(*   check   minBytesEach of the check of the record count                 *)
(*   each    bytes read for one record                                     *)
(***************************************************************************)
EXTENDS Integers

Uint8   == 1
Uint16  == 2
Uint32  == 4
Float32 == 4
Point   == 3 * Float32

Format == [extra : Nat, min : Nat, head : Nat, counted : BOOLEAN,
           opt : Nat, check : Nat, each : Nat]

(* Groups that are one fixed record each, and groups of counted records.   *)
Flat(extra, min, head) ==
    [extra |-> extra, min |-> min, head |-> head, counted |-> FALSE,
     opt |-> 0, check |-> 0, each |-> 0]

Counted(extra, min, head, opt, check, each) ==
    [extra |-> extra, min |-> min, head |-> head, counted |-> TRUE,
     opt |-> opt, check |-> check, each |-> each]

(* Drop rate and out-of-sync rate.                                         *)
Rates == 2 * Uint16

If(flag, bytes) == IF flag THEN bytes ELSE 0

unmarshal3D(withID, withResidual) ==
    Flat(Rates, 12 + If(withID, 4) + If(withResidual, 4),
         Point + If(withID, Uint32) + If(withResidual, Float32))

unmarshal6D(withResidual) ==
    Flat(Rates, 48 + If(withResidual, 4),
         Point + 9 * Float32 + If(withResidual, Float32))

unmarshal6DEuler(withResidual) ==
    Flat(Rates, 24 + If(withResidual, 4),
         Point + 3 * Float32 + If(withResidual, Float32))

(* A marker is two positions and two diameters.                            *)
unmarshal2D == Counted(Rates, 5, Uint32 + Uint8, 0, 12, 2 * Uint32 + 2 * Uint16)

(* The check of the record count is the one of ComponentDecoder's          *)
(* AnalogGroup, a product of two counts; check has no meaning here.        *)
ComponentAnalog == Counted(0, 16, 4 * Uint32, 0, 0, Float32)

ComponentAnalogSingle == Counted(0, 8, 2 * Uint32, 0, 4, Float32)

ComponentForce == Counted(0, 12, 3 * Uint32, 0, 36, 3 * Point)

ComponentForceSingle == Flat(0, 4 + 36, Uint32 + 3 * Point)

(* The records of an image are its bytes.                                  *)
ComponentImage == Counted(0, 36, 5 * Uint32 + 4 * Float32, 0, 1, 1)

(* A device without samples omits the sample number.                       *)
ComponentGazeVector == Counted(0, 4, Uint32, Uint32, 24, 6 * Float32)

ComponentEyeTracker == Counted(0, 4, Uint32, Uint32, 8, 2 * Float32)

ComponentSkeleton == Counted(0, 4, Uint32, 0, 32, Uint32 + Point + 4 * Float32)

ComponentTimecode == Flat(0, 12, 3 * Uint32)

ComponentType ==
    {"3D", "3DResidual", "3DNoLabels", "3DNoLabelsResidual",
     "6D", "6DResidual", "6DEuler", "6DEulerResidual", "2D", "2DLinearized",
     "Analog", "AnalogSingle", "Force", "ForceSingle", "Image", "GazeVector",
     "EyeTracker", "Skeleton", "Timecode"}

(* The parser of each component type the SDK knows.                        *)
getComponentObject ==
    [c \in ComponentType |->
        CASE c = "3D"                 -> unmarshal3D(FALSE, FALSE)
          [] c = "3DResidual"         -> unmarshal3D(FALSE, TRUE)
          [] c = "3DNoLabels"         -> unmarshal3D(TRUE, FALSE)
          [] c = "3DNoLabelsResidual" -> unmarshal3D(TRUE, TRUE)
          [] c = "6D"                 -> unmarshal6D(FALSE)
          [] c = "6DResidual"         -> unmarshal6D(TRUE)
          [] c = "6DEuler"            -> unmarshal6DEuler(FALSE)
          [] c = "6DEulerResidual"    -> unmarshal6DEuler(TRUE)
          [] c \in {"2D", "2DLinearized"} -> unmarshal2D
          [] c = "Analog"             -> ComponentAnalog
          [] c = "AnalogSingle"       -> ComponentAnalogSingle
          [] c = "Force"              -> ComponentForce
          [] c = "ForceSingle"        -> ComponentForceSingle
          [] c = "Image"              -> ComponentImage
          [] c = "GazeVector"         -> ComponentGazeVector
          [] c = "EyeTracker"         -> ComponentEyeTracker
          [] c = "Skeleton"           -> ComponentSkeleton
          [] c = "Timecode"           -> ComponentTimecode]
=============================================================================
