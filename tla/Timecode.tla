-------------------------------- MODULE Timecode --------------------------------
(***************************************************************************)
(* The three timecodes of pkg/packets/timecode.go, as functions of the two *)
(* words of 32 bits they are packed into.  A mask of n bits is % 2^n, a    *)
(* shift by n bits \div 2^n.  TLC's integers are too small for the words,  *)
(* so this module is proved about (Timecode_proof) and not run.            *)
(***************************************************************************)
EXTENDS Integers

Two16 == 256 * 256
Two32 == Two16 * Two16
Two63 == 128 * 256 * Two16 * Two32

Word == 0 .. Two32 - 1

(* size - 1 is the mask and from the weight of the lowest bit.             *)
Field(word, from, size) == (word \div from) % size

IrigConvert(high, low) ==
    [Year   |-> Field(high, 1, 128),
     Day    |-> Field(high, 128, 512),
     Hour   |-> Field(low, 1, 32),
     Minute |-> Field(low, 32, 64),
     Second |-> Field(low, 32 * 64, 64),
     Tenth  |-> Field(low, 32 * 64 * 64, 16)]

SmpteConvert(low) ==
    [Hour     |-> Field(low, 1, 32),
     Minute   |-> Field(low, 32, 64),
     Second   |-> Field(low, 32 * 64, 64),
     Frame    |-> Field(low, 32 * 64 * 64, 32),
     SubFrame |-> Field(low, 32 * 64 * 64 * 32, 512)]

(* Ticks of 100 nanoseconds, a word of 64 bits.                            *)
CameraTimeConvert(high, low) == Two32 * high + low

(* The conversion of a word of 64 bits to int64, and its overflow.         *)
Signed(n) ==
    LET m == n % (2 * Two63)
    IN  IF m < Two63 THEN m ELSE m - 2 * Two63

(* time.Duration counts nanoseconds in an int64.                           *)
Duration(ticks) == Signed(Signed(ticks) * 100)

(* The frames of the camera within one frame of the timecode; 0 stands for *)
(* the early return of NormalizedSubFrame, which then answers 0.           *)
SubFramesPerFrame(captureFrequency, timestampFrequency) ==
    IF captureFrequency = 0 \/ timestampFrequency = 0 \/ captureFrequency < timestampFrequency
    THEN 0 ELSE captureFrequency \div timestampFrequency

=============================================================================
