----------------------- MODULE ComponentDecoder_proof -----------------------
(***************************************************************************)
(* Proofs about ComponentDecoder: for payloads of any size and counts of   *)
(* any value, a parser accepts exactly what the counts declare, and makes  *)
(* nothing that the payload does not back.                                 *)
(***************************************************************************)
EXTENDS ComponentDecoder, TLAPS

-----------------------------------------------------------------------------
(* The inductive invariant.  While the cursor has not failed, the bytes it *)
(* read and those that the counts still call for are the declared ones;    *)
(* once it has, more was declared than the payload holds.                  *)

(* Groups whose head is still to be read.                                  *)
Left == groups - done - (IF pc = "record" THEN 1 ELSE 0)

Parsing == pc \in {"group", "record"}

Accounted ==
    Parsing =>
        /\ Left >= 0
        /\ pc = "group" => records = 0
        /\ IF short THEN declared > size
                    ELSE declared = pos + Left * f.head + records * f.each

(* The records made so far are read, or are those of the running group.    *)
Backed ==
    type # "Analog" =>
        /\ slots * f.min <= size
        /\ made * f.each <= size
        /\ (Parsing /\ ~short) => made * f.each <= pos + records * f.each

Fresh == pc = "count" => pos = 0 /\ ~short /\ done = 0 /\ records = 0 /\ made = 0

IInv == TypeOK /\ Fresh /\ Accounted /\ Backed /\ ParsesWhatIsDeclared

-----------------------------------------------------------------------------
(* The formats.                                                            *)

FlatShape(g) == g \in Format /\ g.min = g.head /\ ~g.counted

CountedShape(g) == g \in Format /\ g.min = g.head /\ g.check = g.each /\ g.counted

LEMMA Shapes ==
    /\ \A extra, head \in Nat : FlatShape(Flat(extra, head, head))
    /\ \A extra, head, opt, each \in Nat :
          CountedShape(Counted(extra, head, head, opt, each, each))
<1>1. ASSUME NEW extra \in Nat, NEW head \in Nat PROVE FlatShape(Flat(extra, head, head))
  BY DEF FlatShape, Flat, Format
<1>2. ASSUME NEW extra \in Nat, NEW head \in Nat, NEW opt \in Nat, NEW each \in Nat
      PROVE  CountedShape(Counted(extra, head, head, opt, each, each))
  BY DEF CountedShape, Counted, Format
<1>. QED  BY <1>1, <1>2

(* The checks of the counts agree with the layouts: a group is bound by    *)
(* the bytes of its head, a record by its own.                             *)
LEMMA Formats ==
    ASSUME NEW c \in ComponentType
    PROVE  LET g == getComponentObject[c]
           IN  /\ g \in Format
               /\ g.min = g.head
               /\ (g.counted /\ c # "Analog") => g.check = g.each
               /\ c = "Analog" => g.counted
<1>. DEFINE g == getComponentObject[c]
<1>1. c = "Analog" => g = ComponentAnalog
  BY DEF getComponentObject
<1>2. c # "Analog" =>
         \/ \E a, b \in BOOLEAN : g \in {unmarshal3D(a, b), unmarshal6D(a), unmarshal6DEuler(a)}
         \/ g \in {ComponentForceSingle, ComponentTimecode}
         \/ g \in {unmarshal2D, ComponentAnalogSingle, ComponentForce,
                   ComponentImage, ComponentGazeVector, ComponentEyeTracker,
                   ComponentSkeleton}
  BY DEF getComponentObject, ComponentType
<1>3. ASSUME NEW a \in BOOLEAN, NEW b \in BOOLEAN
      PROVE  /\ FlatShape(unmarshal3D(a, b))
             /\ FlatShape(unmarshal6D(a))
             /\ FlatShape(unmarshal6DEuler(a))
  <2>. USE DEF Rates, If, Uint16, Uint32, Float32, Point
  <2>1. /\ 12 + If(a, 4) + If(b, 4) = Point + If(a, Uint32) + If(b, Float32)
        /\ 12 + If(a, 4) + If(b, 4) \in Nat
        /\ 48 + If(a, 4) = Point + 9 * Float32 + If(a, Float32)
        /\ 48 + If(a, 4) \in Nat
        /\ 24 + If(a, 4) = Point + 3 * Float32 + If(a, Float32)
        /\ 24 + If(a, 4) \in Nat
        /\ Rates \in Nat
    OBVIOUS
  <2>. QED  BY <2>1, Shapes, Zenon DEF unmarshal3D, unmarshal6D, unmarshal6DEuler
<1>4. FlatShape(ComponentForceSingle) /\ FlatShape(ComponentTimecode)
  BY Shapes DEF ComponentForceSingle, ComponentTimecode, Uint32, Point, Float32
<1>5. /\ CountedShape(unmarshal2D) /\ CountedShape(ComponentAnalogSingle)
      /\ CountedShape(ComponentForce) /\ CountedShape(ComponentImage)
      /\ CountedShape(ComponentGazeVector) /\ CountedShape(ComponentEyeTracker)
      /\ CountedShape(ComponentSkeleton)
  BY Shapes
  DEF unmarshal2D, ComponentAnalogSingle, ComponentForce, ComponentImage,
      ComponentGazeVector, ComponentEyeTracker, ComponentSkeleton,
      Rates, Uint8, Uint16, Uint32, Float32, Point
<1>6. ComponentAnalog \in Format /\ ComponentAnalog.min = ComponentAnalog.head
      /\ ComponentAnalog.counted
  BY DEF ComponentAnalog, Counted, Format, Uint32, Float32
<1>7. c # "Analog" => FlatShape(g) \/ CountedShape(g)
  BY <1>2, <1>3, <1>4, <1>5, Zenon
<1>8. CASE c = "Analog"
  BY <1>1, <1>6, <1>8
<1>. QED  BY <1>7, <1>8 DEF FlatShape, CountedShape

-----------------------------------------------------------------------------
(* Numbers.                                                                *)

LEMMA Products ==
    ASSUME NEW a \in Nat, NEW b \in Nat
    PROVE  /\ a * b \in Nat
           /\ a > 0 => a * b >= b /\ (a - 1) * b = a * b - b
  OBVIOUS

(* A count is a number, in either byte order.                              *)
LEMMA ReadNat ==
    ASSUME NEW w \in Words, NEW n
    PROVE  /\ Read(w, n) \in Nat
           /\ ~Fits(n) => Read(w, n) = 0
<1>1. w \in Nat
  BY WordsAssumption, BaseAssumption
<1>2. Swapped(w) \in Nat
  <2>1. w % Base \in 0 .. Base - 1 /\ w \div Base \in Nat
    BY <1>1, BaseAssumption
  <2>. QED  BY <2>1, BaseAssumption, Products DEF Swapped
<1>. QED  BY <1>1, <1>2 DEF Read

(* Wrapping does not enlarge a product.                                    *)
LEMMA WrappedLess ==
    ASSUME NEW n \in Nat
    PROVE  Wrapped(n) \in Nat /\ Wrapped(n) <= n
<1>. DEFINE M == Base * Base * Base * Base
<1>1. M \in Nat /\ M > 0
  BY BaseAssumption
<1>2. \A m \in Nat : m > 0 => n % m \in Nat /\ n % m <= n
  OBVIOUS
<1>. QED  BY <1>1, <1>2 DEF Wrapped

-----------------------------------------------------------------------------
(* Steps.                                                                  *)

LEMMA Initially == Init => IInv
<1>. SUFFICES ASSUME Init PROVE IInv
  OBVIOUS
<1>1. size \in Nat
  BY SizesAssumption DEF Init
<1>2. f \in Format
  BY Formats DEF Init, f
<1>3. TypeOK
  <2>1. 0 \in 0 .. size /\ 0 \in Nat
    BY <1>1
  <2>. QED  BY <2>1, Zenon DEF Init, TypeOK
<1>4. Fresh /\ Accounted /\ ParsesWhatIsDeclared
  BY DEF Init, Fresh, Accounted, Parsing, ParsesWhatIsDeclared
<1>5. 0 * f.min = 0 /\ 0 * f.each = 0
  BY <1>2 DEF Format
<1>6. Backed
  BY <1>1, <1>5 DEF Init, Backed, Parsing
<1>. QED  BY <1>3, <1>4, <1>6 DEF IInv

Numbers ==
    /\ type \in ComponentType
    /\ size \in Nat /\ pos \in Nat /\ pos <= size
    /\ groups \in Nat /\ sent \in Nat /\ done \in Nat /\ records \in Nat
    /\ slots \in Nat /\ made \in Nat /\ declared \in Nat
    /\ short \in BOOLEAN

FormatNumbers ==
    /\ f.extra \in Nat /\ f.min \in Nat /\ f.head \in Nat
    /\ f.opt \in Nat /\ f.check \in Nat /\ f.each \in Nat
    /\ f.min = f.head
    /\ (f.counted /\ type # "Analog") => f.check = f.each
    /\ type = "Analog" => f.counted

LEMMA Known == ASSUME TypeOK PROVE Numbers /\ FormatNumbers
<1>1. Numbers
  BY SizesAssumption DEF TypeOK, Numbers
<1>2. FormatNumbers
  BY <1>1, Formats DEF Numbers, FormatNumbers, Format, f
<1>. QED  BY <1>1, <1>2

(* The group count: either the payload may hold its groups, or the parser  *)
(* ends and more was declared than there is.                               *)
LEMMA CountRead == ASSUME IInv, ReadCount PROVE IInv'
<1>1. Numbers /\ FormatNumbers
  BY Known DEF IInv
<1>2. PICK w \in Words :
         LET n     == Uint32 + f.extra
             count == Read(w, Uint32)
             ok    == checkCount(count, f.min, n)
         IN  /\ Advance(n)
             /\ short' = ~ok
             /\ sent' = w
             /\ groups' = count
             /\ declared' = n + count * f.head
             /\ slots' = IF ok THEN count ELSE 0
             /\ pc' = IF ok THEN "group" ELSE "done"
  BY DEF ReadCount
<1>. DEFINE n     == Uint32 + f.extra
            count == Read(w, Uint32)
            ok    == checkCount(count, f.min, n)
<1>3. /\ pc = "count" /\ size > 0
      /\ UNCHANGED <<type, size, done, records, made>>
      /\ f' = f
  BY DEF ReadCount, f
<1>4. n \in Nat /\ count \in Nat /\ count * f.head \in Nat /\ w \in Nat
  BY <1>1, ReadNat, Products, WordsAssumption, BaseAssumption DEF FormatNumbers, Uint32
<1>5. pos = 0 /\ ~short /\ done = 0 /\ records = 0 /\ made = 0
  BY <1>3 DEF IInv, Fresh
<1>6. short' = ~ok /\ pc' = (IF ok THEN "group" ELSE "done") /\ groups' = count
      /\ declared' = n + count * f.head /\ slots' = (IF ok THEN count ELSE 0)
      /\ pos' = (IF n <= size THEN n ELSE 0)
  BY <1>1, <1>2, <1>4, <1>5 DEF Advance, Fits, Numbers
<1>7. ok <=> n <= size /\ count * f.head <= size - n
  BY <1>1, <1>4, <1>5 DEF checkCount, Fits, Numbers, FormatNumbers
<1>. HIDE DEF n, count, ok
<1>9. TypeOK'
  <2>1. pos' \in 0 .. size' /\ groups' \in Nat /\ slots' \in Nat /\ declared' \in Nat
    BY <1>1, <1>3, <1>4, <1>6 DEF Numbers
  <2>2. pc' \in {"count", "group", "record", "done"} /\ short' \in BOOLEAN /\ sent' \in Nat
    BY <1>2, <1>4, <1>6
  <2>. QED  BY <1>3, <2>1, <2>2, Zenon DEF IInv, TypeOK
<1>8. pc' = "done" => short' /\ declared' > size
  <2>1. pc' = "done" => ~ok /\ short'
    BY <1>6
  <2>2. ~ok => n + count * f.head > size
    BY <1>1, <1>4, <1>7 DEF Numbers
  <2>. QED  BY <1>6, <2>1, <2>2
<1>10. Fresh'
  BY <1>6 DEF Fresh
<1>11. Accounted'
  BY <1>1, <1>3, <1>4, <1>5, <1>6, <1>7 DEF Accounted, Parsing, Left, Numbers, FormatNumbers
<1>12. Backed'
  <2>1. 0 * f.each = 0 /\ 0 * f.head = 0
    BY <1>1 DEF FormatNumbers
  <2>2. slots' * f.min <= size
    BY <1>1, <1>4, <1>6, <1>7, <2>1 DEF Numbers, FormatNumbers
  <2>3. Parsing' => pos' \in Nat
    BY <1>4, <1>6
  <2>. QED  BY <1>1, <1>3, <1>5, <2>1, <2>2, <2>3 DEF Backed, Numbers
<1>. QED  BY <1>3, <1>8, <1>9, <1>10, <1>11, <1>12 DEF IInv, ParsesWhatIsDeclared

(* Before a group: a payload without room for its head is too short for    *)
(* what was declared.                                                      *)
LEMMA GroupBegins ==
    ASSUME IInv, pc = "group", done < groups
    PROVE  /\ records = 0 /\ groups - done \in Nat
           /\ (groups - done - 1) * f.head \in Nat
           /\ (groups - done - 1) * f.head = (groups - done) * f.head - f.head
           /\ short => declared > size
           /\ ~short => declared = pos + (groups - done) * f.head
           /\ ~Fits(f.head) => declared > size
           /\ Fits(f.head) => declared = pos + f.head + (groups - done - 1) * f.head
<1>1. Numbers /\ FormatNumbers
  BY Known DEF IInv
<1>2. groups - done \in Nat /\ groups - done > 0
  BY <1>1 DEF Numbers
<1>3. /\ (groups - done) * f.head \in Nat
      /\ (groups - done) * f.head >= f.head
      /\ (groups - done - 1) * f.head = (groups - done) * f.head - f.head
  BY <1>1, <1>2, Products DEF FormatNumbers
<1>4. 0 * f.each = 0
  BY <1>1 DEF FormatNumbers
<1>5. /\ records = 0
      /\ short => declared > size
      /\ ~short => declared = pos + (groups - done) * f.head
  BY <1>1, <1>2, <1>3, <1>4 DEF IInv, Accounted, Parsing, Left, Numbers, FormatNumbers
<1>. QED  BY <1>1, <1>2, <1>3, <1>5 DEF Fits, Numbers, FormatNumbers

LEMMA FlatGroupRead == ASSUME IInv, FlatGroup PROVE IInv'
<1>1. Numbers /\ FormatNumbers
  BY Known DEF IInv
<1>2. /\ pc = "group" /\ done < groups
      /\ done' = done + 1
      /\ UNCHANGED <<type, size, pc, groups, sent, records, slots, made, declared>>
      /\ f' = f
  BY DEF FlatGroup, f
<1>3. pos' = (IF Fits(f.head) THEN pos + f.head ELSE pos) /\ short' = ~Fits(f.head)
  BY DEF FlatGroup, need, Advance
<1>4. Fits(f.head) => ~short /\ pos + f.head <= size
  BY DEF Fits
<1>5. TypeOK'
  <2>1. pos' \in 0 .. size' /\ done' \in Nat
    BY <1>1, <1>2, <1>3, <1>4 DEF Numbers, FormatNumbers
  <2>2. short' \in BOOLEAN
    BY <1>3
  <2>. QED  BY <1>2, <2>1, <2>2, Zenon DEF IInv, TypeOK
<1>6. Accounted'
  <2>1. 0 * f.each = 0
    BY <1>1 DEF FormatNumbers
  <2>2. Left' = groups - done - 1
    BY <1>1, <1>2 DEF Left, Numbers
  <2>3. groups - done - 1 >= 0 /\ records' = 0
    BY <1>1, <1>2, GroupBegins DEF Numbers
  <2>4. IF short' THEN declared' > size'
                  ELSE declared' = pos' + (groups - done - 1) * f.head
    BY <1>1, <1>2, <1>3, GroupBegins
  <2>. QED  BY <1>1, <1>2, <2>1, <2>2, <2>3, <2>4 DEF Accounted, Parsing, Numbers, FormatNumbers
<1>7. Backed'
  <2>1. ~short' => ~short /\ pos' >= pos /\ pos' \in Nat
    BY <1>1, <1>3, <1>4 DEF Numbers, FormatNumbers
  <2>2. made * f.each \in Nat /\ records * f.each \in Nat
    BY <1>1, Products DEF Numbers, FormatNumbers
  <2>. QED  BY <1>1, <1>2, <2>1, <2>2 DEF IInv, Backed, Parsing, Numbers
<1>. QED  BY <1>2, <1>5, <1>6, <1>7 DEF IInv, Fresh, ParsesWhatIsDeclared

(* The head of a group: a check that fails ends the parser, and then more  *)
(* was declared than there is; one that holds leaves room for all records. *)
LEMMA CountedGroupRead == ASSUME IInv, CountedGroup PROVE IInv'
<1>1. Numbers /\ FormatNumbers
  BY Known DEF IInv
<1>2. PICK w \in Words :
         LET count == Read(w, f.head)
             n     == f.head + If(count > 0, f.opt)
             ok    == (f.opt > 0 /\ count = 0) \/ checkCount(count, f.check, n)
         IN  /\ Advance(n)
             /\ short' = ~(Fits(n) /\ ok)
             /\ declared' = declared + (n - f.head) + count * f.each
             /\ records' = IF ok THEN count ELSE 0
             /\ made' = IF ok THEN made + count ELSE made
             /\ pc' = IF ok THEN "record" ELSE "done"
  BY DEF CountedGroup
<1>. DEFINE count == Read(w, f.head)
            n     == f.head + If(count > 0, f.opt)
            ok    == (f.opt > 0 /\ count = 0) \/ checkCount(count, f.check, n)
<1>3. /\ pc = "group" /\ done < groups /\ f.counted /\ type # "Analog"
      /\ UNCHANGED <<type, size, groups, sent, done, slots>>
      /\ f' = f
  BY DEF CountedGroup, f
<1>4. /\ count \in Nat /\ n \in Nat /\ n >= f.head /\ (count = 0 => n = f.head)
      /\ count * f.each \in Nat
  BY <1>1, ReadNat, Products DEF FormatNumbers, If
<1>5. /\ short' = ~(Fits(n) /\ ok) /\ pc' = (IF ok THEN "record" ELSE "done")
      /\ declared' = declared + (n - f.head) + count * f.each
      /\ records' = (IF ok THEN count ELSE 0)
      /\ made' = (IF ok THEN made + count ELSE made)
      /\ pos' = (IF Fits(n) THEN pos + n ELSE pos)
  BY <1>2 DEF Advance
<1>6. Fits(n) => /\ ~short /\ pos + n <= size /\ Fits(f.head)
                 /\ ok <=> (f.opt > 0 /\ count = 0) \/ count * f.each <= size - (pos + n)
  BY <1>1, <1>3, <1>4 DEF Fits, checkCount, Numbers, FormatNumbers
<1>7. ~Fits(n) => (ok => count = 0) /\ (short \/ pos + n > size)
  <2>1. ~Fits(n) /\ ok => count = 0
    BY DEF checkCount
  <2>2. ~Fits(n) => short \/ pos + n > size
    BY <1>1, <1>4 DEF Fits, Numbers
  <2>. QED  BY <2>1, <2>2
<1>. HIDE DEF n, count, ok
<1>. DEFINE others == (groups - done - 1) * f.head
<1>8. /\ others \in Nat
      /\ short => declared > size
      /\ ~Fits(f.head) => declared > size
      /\ Fits(f.head) => declared = pos + f.head + others
  BY <1>3, GroupBegins
<1>. HIDE DEF others
<1>9. ~Fits(n) => declared' > size
  <2>1. CASE short \/ ~Fits(f.head)
    BY <1>1, <1>4, <1>5, <1>8, <2>1 DEF Numbers, FormatNumbers
  <2>2. CASE Fits(f.head) /\ pos + n > size
    BY <1>1, <1>4, <1>5, <1>8, <2>2 DEF Numbers, FormatNumbers
  <2>. QED  BY <1>7, <2>1, <2>2
<1>10. Fits(n) => declared' = pos + n + others + count * f.each
  BY <1>1, <1>4, <1>5, <1>6, <1>8 DEF Numbers, FormatNumbers
<1>11. ~ok => declared' > size
  <2>1. CASE Fits(n)
    BY <1>1, <1>4, <1>6, <1>8, <1>10, <2>1 DEF Numbers, FormatNumbers
  <2>. QED  BY <1>9, <2>1
<1>12. TypeOK'
  <2>1. pos' \in 0 .. size'
    BY <1>1, <1>3, <1>4, <1>5, <1>6 DEF Numbers
  <2>2. declared' \in Nat /\ records' \in Nat /\ made' \in Nat
    BY <1>1, <1>4, <1>5 DEF Numbers, FormatNumbers
  <2>3. short' \in BOOLEAN /\ pc' \in {"count", "group", "record", "done"}
    BY <1>5
  <2>. QED  BY <1>3, <2>1, <2>2, <2>3, Zenon DEF IInv, TypeOK
<1>13. Accounted'
  <2>1. CASE ok
    <3>1. Left' = groups - done - 1 /\ Left' >= 0
      BY <1>1, <1>3, <1>5, <2>1 DEF Left, Numbers
    <3>2. ~short' => declared' = pos' + others + records' * f.each
      BY <1>1, <1>4, <1>5, <1>8, <1>10, <2>1 DEF Numbers
    <3>3. short' => declared' > size'
      BY <1>3, <1>5, <1>9, <2>1
    <3>. QED  BY <1>3, <1>5, <2>1, <3>1, <3>2, <3>3 DEF Accounted, others
  <2>. QED  BY <1>5, <2>1 DEF Accounted, Parsing
<1>14. Backed'
  <2>1. CASE Fits(n) /\ ok
    <3>1. made * f.each <= pos /\ made * f.each \in Nat
      <4>1. records = 0 /\ 0 * f.each = 0 /\ ~short
        BY <1>1, <1>3, <1>6, <2>1, GroupBegins DEF FormatNumbers
      <4>. QED  BY <1>1, <1>3, <4>1, Products DEF IInv, Backed, Parsing, Numbers, FormatNumbers
    <3>2. made' * f.each = made * f.each + count * f.each
      BY <1>1, <1>4, <1>5, <2>1 DEF Numbers, FormatNumbers
    <3>3. count = 0 \/ count * f.each <= size - (pos + n)
      BY <1>6, <2>1
    <3>4. 0 * f.each = 0
      BY <1>1 DEF FormatNumbers
    <3>5. pos' = pos + n /\ records' = count /\ pos + n <= size
      BY <1>5, <1>6, <2>1
    <3>6. made' * f.each <= size /\ made' * f.each <= pos' + records' * f.each
      BY <1>1, <1>4, <3>1, <3>2, <3>3, <3>4, <3>5 DEF Numbers
    <3>. QED  BY <1>3, <3>6 DEF IInv, Backed
  <2>2. CASE ~(Fits(n) /\ ok)
    <3>1. short'
      BY <1>5, <2>2, Zenon
    <3>2. ok => made + count = made
      BY <1>1, <1>7, <2>2 DEF Numbers
    <3>3. made' = made
      BY <1>5, <3>2
    <3>. QED  BY <1>3, <3>1, <3>3 DEF IInv, Backed
  <2>. QED  BY <2>1, <2>2
<1>15. Fresh' /\ ParsesWhatIsDeclared'
  <2>1. ~ok => short'
    BY <1>5
  <2>. QED  BY <1>3, <1>5, <1>11, <2>1 DEF Fresh, ParsesWhatIsDeclared
<1>. QED  BY <1>12, <1>13, <1>14, <1>15 DEF IInv

(* The analog component checks a product that may have wrapped, or nothing *)
(* at all when its head is short: what it declared is the product itself,  *)
(* and every sample that is missing is noticed when it is read.            *)
LEMMA AnalogGroupRead == ASSUME IInv, AnalogGroup PROVE IInv'
<1>1. Numbers /\ FormatNumbers
  BY Known DEF IInv
<1>2. PICK v \in Words, w \in Words :
         LET channels == Read(v, 2 * Uint32)
             samples  == Read(w, 3 * Uint32)
             refused  == /\ Fits(f.head)
                         /\ Wrapped(channels * samples * f.each) > size - (pos + f.head)
         IN  /\ short' = (~Fits(f.head) \/ refused)
             /\ declared' = declared + channels * samples * f.each
             /\ records' = IF refused THEN 0 ELSE channels * samples
             /\ made' = IF refused THEN made ELSE made + channels + channels * samples
             /\ pc' = IF refused THEN "done" ELSE "record"
  BY DEF AnalogGroup
<1>. DEFINE channels == Read(v, 2 * Uint32)
            samples  == Read(w, 3 * Uint32)
            all      == channels * samples
            refused  == /\ Fits(f.head)
                        /\ Wrapped(all * f.each) > size - (pos + f.head)
            others   == (groups - done - 1) * f.head
<1>3. /\ pc = "group" /\ done < groups /\ type = "Analog"
      /\ UNCHANGED <<type, size, groups, sent, done, slots>>
      /\ f' = f
      /\ pos' = (IF Fits(f.head) THEN pos + f.head ELSE pos)
  BY DEF AnalogGroup, Advance, f
<1>4. channels \in Nat /\ samples \in Nat
  BY ReadNat
<1>5. /\ short' = (~Fits(f.head) \/ refused) /\ pc' = (IF refused THEN "done" ELSE "record")
      /\ declared' = declared + all * f.each
      /\ records' = (IF refused THEN 0 ELSE all)
      /\ made' = (IF refused THEN made ELSE made + channels + all)
  BY <1>2
<1>. HIDE DEF channels, samples
<1>6. all \in Nat
  BY <1>4, Products
<1>. HIDE DEF all
<1>7. /\ all * f.each \in Nat
      /\ Wrapped(all * f.each) \in Nat /\ Wrapped(all * f.each) <= all * f.each
  BY <1>1, <1>6, Products, WrappedLess DEF FormatNumbers
<1>8. /\ others \in Nat
      /\ short => declared > size
      /\ ~Fits(f.head) => declared > size
      /\ Fits(f.head) => declared = pos + f.head + others
  BY <1>3, GroupBegins
<1>9. Fits(f.head) => ~short /\ pos + f.head <= size
  BY DEF Fits
<1>. HIDE DEF others
<1>10. refused => declared' > size
  BY <1>1, <1>5, <1>7, <1>8, <1>9 DEF Numbers, FormatNumbers
<1>. HIDE DEF refused
<1>11. ~Fits(f.head) => declared' > size
  BY <1>1, <1>5, <1>7, <1>8 DEF Numbers
<1>12. TypeOK'
  <2>1. pos' \in 0 .. size'
    BY <1>1, <1>3, <1>9 DEF Numbers, FormatNumbers
  <2>2. declared' \in Nat /\ records' \in Nat /\ made' \in Nat
    BY <1>1, <1>4, <1>5, <1>6, <1>7 DEF Numbers
  <2>3. short' \in BOOLEAN /\ pc' \in {"count", "group", "record", "done"}
    BY <1>5
  <2>. QED  BY <1>3, <2>1, <2>2, <2>3, Zenon DEF IInv, TypeOK
<1>13. Accounted'
  <2>1. CASE ~refused
    <3>1. Left' = groups - done - 1 /\ Left' >= 0
      BY <1>1, <1>3, <1>5, <2>1 DEF Left, Numbers
    <3>2. short' = ~Fits(f.head)
      BY <1>5, <2>1
    <3>3. Fits(f.head) => declared' = pos' + others + records' * f.each
      BY <1>1, <1>3, <1>5, <1>7, <1>8, <2>1 DEF Numbers, FormatNumbers
    <3>. QED  BY <1>3, <1>5, <1>11, <2>1, <3>1, <3>2, <3>3 DEF Accounted, others
  <2>. QED  BY <1>5, <2>1 DEF Accounted, Parsing
<1>14. Backed' /\ Fresh'
  BY <1>3, <1>5 DEF Backed, Fresh
<1>15. ParsesWhatIsDeclared'
  <2>1. refused => short'
    BY <1>5
  <2>. QED  BY <1>3, <1>5, <1>10, <2>1 DEF ParsesWhatIsDeclared
<1>. QED  BY <1>12, <1>13, <1>14, <1>15 DEF IInv

LEMMA RecordRead == ASSUME IInv, Record PROVE IInv'
<1>1. Numbers /\ FormatNumbers
  BY Known DEF IInv
<1>2. /\ pc = "record" /\ records > 0
      /\ records' = records - 1
      /\ UNCHANGED <<type, size, pc, groups, sent, done, slots, made, declared>>
      /\ f' = f /\ Left' = Left
  BY DEF Record, f, Left
<1>3. pos' = (IF Fits(f.each) THEN pos + f.each ELSE pos) /\ short' = ~Fits(f.each)
  BY DEF Record, need, Advance
<1>4. Fits(f.each) => ~short /\ pos + f.each <= size
  BY DEF Fits
<1>5. /\ records * f.each >= f.each
      /\ (records - 1) * f.each = records * f.each - f.each
      /\ records * f.each \in Nat
  BY <1>1, <1>2, Products DEF Numbers, FormatNumbers
<1>6. Left >= 0 /\ Left \in Nat /\ Left * f.head \in Nat
  <2>1. Left \in Nat
    BY <1>1, <1>2 DEF IInv, Accounted, Parsing, Left, Numbers
  <2>. QED  BY <1>1, <2>1, Products DEF FormatNumbers
<1>7. /\ short => declared > size
      /\ ~short => declared = pos + Left * f.head + records * f.each
  BY <1>2 DEF IInv, Accounted, Parsing
<1>8. ~Fits(f.each) => declared > size
  BY <1>1, <1>5, <1>6, <1>7 DEF Fits, Numbers, FormatNumbers
<1>9. TypeOK'
  <2>1. pos' \in 0 .. size' /\ records' \in Nat
    BY <1>1, <1>2, <1>3, <1>4 DEF Numbers, FormatNumbers
  <2>2. short' \in BOOLEAN
    BY <1>3
  <2>. QED  BY <1>2, <2>1, <2>2, Zenon DEF IInv, TypeOK
<1>10. Accounted'
  <2>1. Fits(f.each) => declared' = pos' + Left * f.head + records' * f.each
    BY <1>1, <1>2, <1>3, <1>4, <1>5, <1>6, <1>7 DEF Numbers, FormatNumbers
  <2>. QED  BY <1>2, <1>3, <1>6, <1>8, <2>1 DEF Accounted
<1>11. Backed'
  <2>1. Fits(f.each) => pos' + records' * f.each = pos + records * f.each
    BY <1>1, <1>2, <1>3, <1>5 DEF Numbers, FormatNumbers
  <2>. QED  BY <1>2, <1>3, <1>4, <2>1 DEF IInv, Backed, Parsing
<1>. QED  BY <1>2, <1>9, <1>10, <1>11 DEF IInv, Fresh, ParsesWhatIsDeclared

LEMMA GroupEnds == ASSUME IInv, EndOfGroup PROVE IInv'
<1>1. Numbers /\ FormatNumbers
  BY Known DEF IInv
<1>2. /\ pc = "record" /\ records = 0 /\ pc' = "group" /\ done' = done + 1
      /\ UNCHANGED <<type, size, pos, short, groups, sent, records, slots, made, declared>>
      /\ f' = f
  BY DEF EndOfGroup, f
<1>3. Left' = Left /\ done' \in Nat
  BY <1>1, <1>2 DEF Left, Numbers
<1>4. TypeOK'
  BY <1>2, <1>3, Zenon DEF IInv, TypeOK
<1>5. Accounted' /\ Backed'
  BY <1>2, <1>3 DEF IInv, Accounted, Backed, Parsing
<1>. QED  BY <1>2, <1>4, <1>5 DEF IInv, Fresh, ParsesWhatIsDeclared

LEMMA ComponentEnds == ASSUME IInv, EndOfComponent \/ Empty PROVE IInv'
<1>1. Numbers /\ FormatNumbers
  BY Known DEF IInv
<1>2. /\ pc' = "done"
      /\ UNCHANGED <<type, size, pos, short, groups, sent, done, records, slots, made, declared>>
      /\ f' = f
  BY DEF EndOfComponent, Empty, f
<1>3. TypeOK'
  BY <1>2, Zenon DEF IInv, TypeOK
<1>4. Fresh' /\ Accounted' /\ Backed'
  BY <1>2 DEF IInv, Fresh, Accounted, Backed, Parsing
<1>5. ParsesWhatIsDeclared'
  <2>1. CASE EndOfComponent
    <3>1. pc = "group" /\ done = groups /\ Left = 0 /\ records = 0
      BY <1>1, <2>1 DEF EndOfComponent, IInv, Accounted, Parsing, Left, Numbers
    <3>2. 0 * f.head = 0 /\ 0 * f.each = 0
      BY <1>1 DEF FormatNumbers
    <3>3. IF short THEN declared > size ELSE declared = pos
      BY <1>1, <3>1, <3>2 DEF IInv, Accounted, Parsing, Numbers
    <3>. QED  BY <1>2, <3>1, <3>3 DEF ParsesWhatIsDeclared
  <2>2. CASE Empty
    BY <1>2, <2>2 DEF Empty, ParsesWhatIsDeclared
  <2>. QED  BY <2>1, <2>2
<1>. QED  BY <1>3, <1>4, <1>5 DEF IInv

(* For every component and every payload.                                  *)
THEOREM Invariance == Spec => []IInv
<1>1. ASSUME IInv, UNCHANGED vars PROVE IInv'
  <2>1. f' = f /\ Left' = Left
    BY <1>1 DEF vars, f, Left
  <2>2. TypeOK'
    BY <1>1, Zenon DEF vars, IInv, TypeOK
  <2>. QED
    BY <1>1, <2>1, <2>2
    DEF vars, IInv, Fresh, Accounted, Backed, Parsing, ParsesWhatIsDeclared
<1>2. IInv /\ [Next]_vars => IInv'
  BY <1>1, CountRead, FlatGroupRead, CountedGroupRead, AnalogGroupRead, RecordRead,
     GroupEnds, ComponentEnds
  DEF Next, Finished
<1>. QED  BY <1>2, Initially, PTL DEF Spec

(* Every variable keeps its type; the cursor never leaves the payload      *)
(* (cursor.need, cursor.go:60-72).                                         *)
THEOREM TypeCorrect == Spec => []TypeOK
<1>1. IInv => TypeOK
  BY DEF IInv
<1>. QED  BY <1>1, Invariance, PTL

(* A parser accepts exactly the payloads that hold what their counts       *)
(* declare, whatever the width of a count, and reads all of them.          *)
THEOREM DeclaredParsed == Spec => []ParsesWhatIsDeclared
<1>1. IInv => ParsesWhatIsDeclared
  BY DEF IInv
<1>. QED  BY <1>1, Invariance, PTL

(* The payload backs what is made of it, but for the analog component      *)
(* (checkCount, cursor.go:139-152).                                        *)
THEOREM MadeIsBacked == Spec => []AllocationBacked
<1>1. IInv => AllocationBacked
  BY DEF IInv, Backed, AllocationBacked
<1>. QED  BY <1>1, Invariance, PTL

=============================================================================
