------------------------------ MODULE MCDataFrame ------------------------------
(***************************************************************************)
(* Instances of DataFrame for TLC.  The lengths end before, on and after   *)
(* every boundary of a frame of up to three components; the claims are     *)
(* zero, one short of a header, a bare header, and more.                   *)
(***************************************************************************)
EXTENDS DataFrame

MCClaims == {0, 7, 8, 9, 12}

MCCounts == {0, 1, 2, 3, 9}

MCLengths == {8, 15, 16, 23, 24, 25, 32, 33, 36, 40, 44}

(* Two known types that neighbour in the code's tables and an unknown one. *)
MCTypes == {"6D", "6DEuler", "9D"}

(* All the types the SDK knows, and two it does not.                       *)
MCKnownTypes ==
    {"3D", "3DResidual", "3DNoLabels", "3DNoLabelsResidual",
     "6D", "6DResidual", "6DEuler", "6DEulerResidual", "2D", "2DLinearized",
     "Analog", "AnalogSingle", "Force", "ForceSingle", "Image", "GazeVector",
     "EyeTracker", "Skeleton", "Timecode"}

MCUnknownTypes == {"9D", "10D"}

(* The tables of packet.go:97-139 and 228-272 are inverse to each other.   *)
ASSUME TablesAgree ==
    /\ \A t \in MCKnownTypes : componentTypeOf(getComponentObject(t)) = t
    /\ \A t \in MCUnknownTypes : componentTypeOf(getComponentObject(t)) = NoType
=============================================================================
