------------------------------ MODULE Timecode_proof ------------------------------
(***************************************************************************)
(* What the conversions of Timecode return, for all words.                 *)
(***************************************************************************)
EXTENDS Timecode, TLAPS

(* An IRIG timecode packed field by field is read back, whatever the bits  *)
(* beyond the last field hold (IrigTime.Convert).                          *)
THEOREM IrigReadBack ==
    ASSUME NEW year \in 0 .. 127, NEW day \in 0 .. 511, NEW hour \in 0 .. 31,
           NEW minute \in 0 .. 63, NEW second \in 0 .. 63, NEW tenth \in 0 .. 15,
           NEW highRest \in Nat, NEW lowRest \in Nat
    PROVE  IrigConvert(year + 128 * (day + 512 * highRest),
                       hour + 32 * (minute + 64 * (second + 64 * (tenth + 16 * lowRest))))
             = [Year |-> year, Day |-> day, Hour |-> hour, Minute |-> minute,
                Second |-> second, Tenth |-> tenth]
<1> DEFINE high == year + 128 * (day + 512 * highRest)
           low  == hour + 32 * (minute + 64 * (second + 64 * (tenth + 16 * lowRest)))
<1>1. Field(high, 1, 128) = year
  <2> DEFINE above == day + 512 * highRest
             below == 0
  <2>1. above \in Nat /\ below \in Nat /\ year \in Nat
    BY Z3
  <2>2. below < 1 /\ year < 128
    BY Z3
  <2>3. high = above * (1 * 128) + year * 1 + below
    BY Z3
  <2> HIDE DEF above, below, high
  <2> QED  BY <2>1, <2>2, <2>3, Z3 DEF Field
<1>2. Field(high, 128, 512) = day
  <2> DEFINE above == highRest
             below == year
  <2>1. above \in Nat /\ below \in Nat /\ day \in Nat
    BY Z3
  <2>2. below < 128 /\ day < 512
    BY Z3
  <2>3. high = above * (128 * 512) + day * 128 + below
    BY Z3
  <2> HIDE DEF above, below, high
  <2> QED  BY <2>1, <2>2, <2>3, Z3 DEF Field
<1>3. Field(low, 1, 32) = hour
  <2> DEFINE above == minute + 64 * (second + 64 * (tenth + 16 * lowRest))
             below == 0
  <2>1. above \in Nat /\ below \in Nat /\ hour \in Nat
    BY Z3
  <2>2. below < 1 /\ hour < 32
    BY Z3
  <2>3. low = above * (1 * 32) + hour * 1 + below
    BY Z3
  <2> HIDE DEF above, below, low
  <2> QED  BY <2>1, <2>2, <2>3, Z3 DEF Field
<1>4. Field(low, 32, 64) = minute
  <2> DEFINE above == second + 64 * (tenth + 16 * lowRest)
             below == hour
  <2>1. above \in Nat /\ below \in Nat /\ minute \in Nat
    BY Z3
  <2>2. below < 32 /\ minute < 64
    BY Z3
  <2>3. low = above * (32 * 64) + minute * 32 + below
    BY Z3
  <2> HIDE DEF above, below, low
  <2> QED  BY <2>1, <2>2, <2>3, Z3 DEF Field
<1>5. Field(low, 32 * 64, 64) = second
  <2> DEFINE above == tenth + 16 * lowRest
             below == hour + 32 * minute
  <2>1. above \in Nat /\ below \in Nat /\ second \in Nat
    BY Z3
  <2>2. below < 32 * 64 /\ second < 64
    BY Z3
  <2>3. low = above * ((32 * 64) * 64) + second * (32 * 64) + below
    BY Z3
  <2> HIDE DEF above, below, low
  <2> QED  BY <2>1, <2>2, <2>3, Z3 DEF Field
<1>6. Field(low, 32 * 64 * 64, 16) = tenth
  <2> DEFINE above == lowRest
             below == hour + 32 * minute + 32 * 64 * second
  <2>1. above \in Nat /\ below \in Nat /\ tenth \in Nat
    BY Z3
  <2>2. below < 32 * 64 * 64 /\ tenth < 16
    BY Z3
  <2>3. low = above * ((32 * 64 * 64) * 16) + tenth * (32 * 64 * 64) + below
    BY Z3
  <2> HIDE DEF above, below, low
  <2> QED  BY <2>1, <2>2, <2>3, Z3 DEF Field
<1> QED  BY <1>1, <1>2, <1>3, <1>4, <1>5, <1>6 DEF IrigConvert

(* An SMPTE timecode is read back with its SubFrame, "previously dropped   *)
(* on the floor during decoding" (SmpteTime.Convert, timecode.go:34-36).   *)
THEOREM SmpteReadBack ==
    ASSUME NEW hour \in 0 .. 31, NEW minute \in 0 .. 63, NEW second \in 0 .. 63,
           NEW frame \in 0 .. 31, NEW subFrame \in 0 .. 511, NEW rest \in Nat
    PROVE  SmpteConvert(hour + 32 * (minute + 64 * (second + 64 * (frame
                          + 32 * (subFrame + 512 * rest)))))
             = [Hour |-> hour, Minute |-> minute, Second |-> second,
                Frame |-> frame, SubFrame |-> subFrame]
<1> DEFINE low == hour + 32 * (minute + 64 * (second + 64 * (frame
                          + 32 * (subFrame + 512 * rest))))
<1>1. Field(low, 1, 32) = hour
  <2> DEFINE above == minute + 64 * (second + 64 * (frame + 32 * (subFrame + 512 * rest)))
             below == 0
  <2>1. above \in Nat /\ below \in Nat /\ hour \in Nat
    BY Z3
  <2>2. below < 1 /\ hour < 32
    BY Z3
  <2>3. low = above * (1 * 32) + hour * 1 + below
    BY Z3
  <2> HIDE DEF above, below, low
  <2> QED  BY <2>1, <2>2, <2>3, Z3 DEF Field
<1>2. Field(low, 32, 64) = minute
  <2> DEFINE above == second + 64 * (frame + 32 * (subFrame + 512 * rest))
             below == hour
  <2>1. above \in Nat /\ below \in Nat /\ minute \in Nat
    BY Z3
  <2>2. below < 32 /\ minute < 64
    BY Z3
  <2>3. low = above * (32 * 64) + minute * 32 + below
    BY Z3
  <2> HIDE DEF above, below, low
  <2> QED  BY <2>1, <2>2, <2>3, Z3 DEF Field
<1>3. Field(low, 32 * 64, 64) = second
  <2> DEFINE above == frame + 32 * (subFrame + 512 * rest)
             below == hour + 32 * minute
  <2>1. above \in Nat /\ below \in Nat /\ second \in Nat
    BY Z3
  <2>2. below < 32 * 64 /\ second < 64
    BY Z3
  <2>3. low = above * ((32 * 64) * 64) + second * (32 * 64) + below
    BY Z3
  <2> HIDE DEF above, below, low
  <2> QED  BY <2>1, <2>2, <2>3, Z3 DEF Field
<1>4. Field(low, 32 * 64 * 64, 32) = frame
  <2> DEFINE above == subFrame + 512 * rest
             below == hour + 32 * minute + 32 * 64 * second
  <2>1. above \in Nat /\ below \in Nat /\ frame \in Nat
    BY Z3
  <2>2. below < 32 * 64 * 64 /\ frame < 32
    BY Z3
  <2>3. low = above * ((32 * 64 * 64) * 32) + frame * (32 * 64 * 64) + below
    BY Z3
  <2> HIDE DEF above, below, low
  <2> QED  BY <2>1, <2>2, <2>3, Z3 DEF Field
<1>5. Field(low, 32 * 64 * 64 * 32, 512) = subFrame
  <2> DEFINE above == rest
             below == hour + 32 * minute + 32 * 64 * second + 32 * 64 * 64 * frame
  <2>1. above \in Nat /\ below \in Nat /\ subFrame \in Nat
    BY Z3
  <2>2. below < 32 * 64 * 64 * 32 /\ subFrame < 512
    BY Z3
  <2>3. low = above * ((32 * 64 * 64 * 32) * 512) + subFrame * (32 * 64 * 64 * 32) + below
    BY Z3
  <2> HIDE DEF above, below, low
  <2> QED  BY <2>1, <2>2, <2>3, Z3 DEF Field
<1> QED  BY <1>1, <1>2, <1>3, <1>4, <1>5 DEF SmpteConvert

(* Two camera times are equal only if both words are: the words are put    *)
(* together in the right order, without overlap (CameraTime.Convert).      *)
THEOREM CameraTimeInjective ==
    ASSUME NEW high \in Word, NEW low \in Word, NEW high2 \in Word, NEW low2 \in Word,
           CameraTimeConvert(high, low) = CameraTimeConvert(high2, low2)
    PROVE  high = high2 /\ low = low2
<1>1. Two32 \in Nat \ {0}
  BY Z3 DEF Two32, Two16
<1>2. /\ high \in Nat /\ high2 \in Nat
      /\ low \in Nat /\ low < Two32 /\ low2 \in Nat /\ low2 < Two32
  BY <1>1, Z3 DEF Word
<1>3. Two32 * high + low = Two32 * high2 + low2
  BY DEF CameraTimeConvert
<1>4. high = (Two32 * high + low) \div Two32 /\ high2 = (Two32 * high2 + low2) \div Two32
  BY <1>1, <1>2, Z3
<1> QED  BY <1>1, <1>2, <1>3, <1>4, Z3

(* A camera time is converted without overflow as long as its nanoseconds  *)
(* fit an int64 (CameraTime.Duration), for 292 years.                      *)
THEOREM DurationExact ==
    ASSUME NEW ticks \in Nat, 100 * ticks < Two63
    PROVE  Duration(ticks) = 100 * ticks
<1>1. Two63 \in Nat
  BY Z3 DEF Two63, Two32, Two16
<1>2. ticks % (2 * Two63) = ticks /\ (100 * ticks) % (2 * Two63) = 100 * ticks
  BY <1>1, Z3
<1>3. ticks < Two63
  BY <1>1, Z3
<1> QED  BY <1>2, <1>3, Z3 DEF Duration, Signed

(* The fraction SubFrame / SubFramesPerFrame is never a division by zero   *)
(* once the early return is passed (NormalizedSubFrame).                   *)
THEOREM NormalizedDefined ==
    ASSUME NEW captureFrequency \in Word, NEW timestampFrequency \in Word,
           captureFrequency # 0, timestampFrequency # 0,
           captureFrequency >= timestampFrequency
    PROVE  SubFramesPerFrame(captureFrequency, timestampFrequency) \in Nat \ {0}
<1>1. captureFrequency \in Nat /\ timestampFrequency \in Nat
  BY Z3 DEF Word
<1>2. captureFrequency \div timestampFrequency \in Nat \ {0}
  BY <1>1, Z3
<1>3. ~(captureFrequency < timestampFrequency)
  BY <1>1, Z3
<1> QED  BY <1>2, <1>3, Zenon DEF SubFramesPerFrame

=============================================================================
