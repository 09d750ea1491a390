---------------------------- MODULE ComponentDecoder ----------------------------
(***************************************************************************)
(* One component's UnmarshalBinary (pkg/packets) over a payload of `size`  *)
(* bytes, through the bounds-checked cursor of cursor.go.                  *)
(*                                                                         *)
(* Only the counts in a payload decide what the parser does.  The payload  *)
(* is any sequence of bytes, so that a count is any word at the moment it  *)
(* is read.  A word is written here as two digits of base Base instead of  *)
(* four bytes, which is enough for the byte order to matter and for the    *)
(* product of two counts to wrap.                                          *)
(***************************************************************************)
EXTENDS ComponentFormats

CONSTANTS
    Base,           \* a word is less than Base * Base
    Words,          \* the words that occur in payloads
    Sizes,          \* the payload sizes
    BigEndian       \* is the connection big-endian (WithBigEndian)?

ASSUME BaseAssumption == Base \in Nat /\ Base > 1

ASSUME WordsAssumption == Words \subseteq 0 .. Base * Base - 1

ASSUME SizesAssumption == Sizes \subseteq Nat

ASSUME OrderAssumption == BigEndian \in BOOLEAN

VARIABLES
    type,       \* the component's type
    size,       \* len(data)
    pc,         \* the parser's position in its code
    pos,        \* cursor.pos
    short,      \* cursor.err # nil
    groups,     \* the group count the parser read
    sent,       \* ghost: the group count QTM wrote
    done,       \* groups parsed
    records,    \* records still to read in the running group
    slots,      \* ghost: elements of the slice made for the groups
    made,       \* ghost: elements of the slices made for records
    declared    \* ghost: bytes a payload needs for all that it declared so far

vars == <<type, size, pc, pos, short, groups, sent, done, records, slots, made,
          declared>>

f == getComponentObject[type]

(* The type of every variable; the cursor never leaves the payload.        *)
TypeOK ==
    /\ type \in ComponentType
    /\ size \in Sizes
    /\ pc \in {"count", "group", "record", "done"}
    /\ pos \in 0 .. size
    /\ short \in BOOLEAN
    /\ groups \in Nat
    /\ sent \in Nat
    /\ done \in Nat
    /\ records \in Nat
    /\ slots \in Nat
    /\ made \in Nat
    /\ declared \in Nat

Init ==
    /\ type \in ComponentType
    /\ size \in Sizes
    /\ pc = "count"
    /\ pos = 0
    /\ short = FALSE
    /\ groups = 0
    /\ sent = 0
    /\ done = 0
    /\ records = 0
    /\ slots = 0
    /\ made = 0
    /\ declared = 0

-----------------------------------------------------------------------------
(* The cursor.                                                             *)

Remaining == IF short THEN 0 ELSE size - pos

(* need(n), for the fields that are read together: a cursor that failed    *)
(* stays failed.                                                           *)
Fits(n) == ~short /\ pos + n <= size

(* Mutant of Advance: the position moves without the bound check.          *)
AdvanceUnchecked(n) == pos' = pos + n

Advance(n) == pos' = IF Fits(n) THEN pos + n ELSE pos

need(n) == Advance(n) /\ short' = ~Fits(n)

(* cursor.Uint32 is little-endian whatever the connection's byte order; a  *)
(* failed cursor reads zero.                                               *)
Swapped(w) == (w % Base) * Base + w \div Base

Read(w, n) ==
    CASE ~Fits(n)              -> 0
      [] Fits(n) /\ BigEndian  -> Swapped(w)
      [] Fits(n) /\ ~BigEndian -> w

(* Mutant of checkCount: the count is trusted.                             *)
checkCountTrusting(count, minBytesEach, n) == Fits(n)

(* checkCount, when the fields before it take n bytes.                     *)
checkCount(count, minBytesEach, n) ==
    Fits(n) /\ count * minBytesEach <= size - (pos + n)

(* Products of counts are of 64 bits, twice a word.                        *)
Wrapped(n) == n % (Base * Base * Base * Base)

-----------------------------------------------------------------------------
(* A component without payload has no groups.                              *)
Empty ==
    /\ pc = "count"
    /\ size = 0
    /\ pc' = "done"
    /\ UNCHANGED <<type, size, pos, short, groups, sent, done, records, slots, made, declared>>

(* The group count and its check.                                          *)
ReadCount ==
    /\ pc = "count"
    /\ size > 0
    /\ \E w \in Words :
          LET n     == Uint32 + f.extra
              count == Read(w, Uint32)
              ok    == checkCount(count, f.min, n)
          IN  /\ Advance(n)
              /\ short' = ~ok
              /\ sent' = w
              /\ groups' = count
              /\ declared' = n + count * f.head
              /\ slots' = IF ok THEN count ELSE 0
              /\ pc' = IF ok THEN "group" ELSE "done"
    /\ UNCHANGED <<type, size, done, records, made>>

(* A group of a component whose groups are fixed records.                  *)
FlatGroup ==
    /\ pc = "group"
    /\ done < groups
    /\ ~f.counted
    /\ need(f.head)
    /\ done' = done + 1
    /\ UNCHANGED <<type, size, pc, groups, sent, records, slots, made, declared>>

(* Mutant of CountedGroup: the fields that a group without records omits   *)
(* are read all the same.                                                  *)
CountedGroupAlwaysOpt ==
    /\ pc = "group"
    /\ done < groups
    /\ f.counted /\ type # "Analog"
    /\ \E w \in Words :
          LET count == Read(w, f.head)
              n     == f.head + f.opt
              ok    == (f.opt > 0 /\ count = 0) \/ checkCount(count, f.check, n)
          IN  /\ Advance(n)
              /\ short' = ~(Fits(n) /\ ok)
              /\ declared' = declared + If(count > 0, f.opt) + count * f.each
              /\ records' = IF ok THEN count ELSE 0
              /\ made' = IF ok THEN made + count ELSE made
              /\ pc' = IF ok THEN "record" ELSE "done"
    /\ UNCHANGED <<type, size, groups, sent, done, slots>>

(* The head of a group of counted records: its fields, those it only has   *)
(* when there are records, and then the check of the count.  Components    *)
(* that omit fields only check a count that is not zero.  A failed check   *)
(* ends the parser with an error.                                          *)
CountedGroup ==
    /\ pc = "group"
    /\ done < groups
    /\ f.counted /\ type # "Analog"
    /\ \E w \in Words :
          LET count == Read(w, f.head)
              n     == f.head + If(count > 0, f.opt)
              ok    == (f.opt > 0 /\ count = 0) \/ checkCount(count, f.check, n)
          IN  /\ Advance(n)
              /\ short' = ~(Fits(n) /\ ok)
              /\ declared' = declared + (n - f.head) + count * f.each
              /\ records' = IF ok THEN count ELSE 0
              /\ made' = IF ok THEN made + count ELSE made
              /\ pc' = IF ok THEN "record" ELSE "done"
    /\ UNCHANGED <<type, size, groups, sent, done, slots>>

(* An analog device counts channels and samples per channel.  When a field *)
(* of its head is missing, the check is skipped and the channels are made  *)
(* all the same, without samples.                                          *)
AnalogGroup ==
    /\ pc = "group"
    /\ done < groups
    /\ type = "Analog"
    /\ Advance(f.head)
    /\ \E v, w \in Words :
          LET channels == Read(v, 2 * Uint32)
              samples  == Read(w, 3 * Uint32)
              refused  == /\ Fits(f.head)
                          /\ Wrapped(channels * samples * f.each) > size - (pos + f.head)
          IN  /\ short' = (~Fits(f.head) \/ refused)
              /\ declared' = declared + channels * samples * f.each
              /\ records' = IF refused THEN 0 ELSE channels * samples
              /\ made' = IF refused THEN made ELSE made + channels + channels * samples
              /\ pc' = IF refused THEN "done" ELSE "record"
    /\ UNCHANGED <<type, size, groups, sent, done, slots>>

(* One record; one that is missing is made of zeros.                       *)
Record ==
    /\ pc = "record"
    /\ records > 0
    /\ need(f.each)
    /\ records' = records - 1
    /\ UNCHANGED <<type, size, pc, groups, sent, done, slots, made, declared>>

EndOfGroup ==
    /\ pc = "record"
    /\ records = 0
    /\ pc' = "group"
    /\ done' = done + 1
    /\ UNCHANGED <<type, size, pos, short, groups, sent, records, slots, made, declared>>

EndOfComponent ==
    /\ pc = "group"
    /\ done = groups
    /\ pc' = "done"
    /\ UNCHANGED <<type, size, pos, short, groups, sent, done, records, slots, made, declared>>

Finished == pc = "done" /\ UNCHANGED vars

Next ==
    \/ Empty \/ ReadCount
    \/ FlatGroup \/ CountedGroup \/ AnalogGroup \/ Record
    \/ EndOfGroup \/ EndOfComponent
    \/ Finished

Spec == Init /\ [][Next]_vars

-----------------------------------------------------------------------------
(* A parser accepts exactly the payloads that hold all that their counts   *)
(* declare, and then has read every byte of it and no other: no check of a *)
(* count is too strict or too lax, and no field is read twice or left out  *)
(* (the defects the comments of timecode.go, image.go and gazevector.go    *)
(* report of earlier versions).                                            *)
ParsesWhatIsDeclared ==
    (pc = "done" /\ size > 0) =>
        IF short THEN declared > size ELSE pos = declared /\ done = groups

(* The payload has a byte for every byte that the elements made stand for: *)
(* those of the slice of groups together, and the records of all groups    *)
(* together, before any of them is read (cursor.go:139-141).  The analog   *)
(* component is an exception.                                              *)
AllocationBacked ==
    type # "Analog" => slots * f.min <= size /\ made * f.each <= size

-----------------------------------------------------------------------------
(* protocol.go:153: "WithBigEndian selects the big-endian port and byte    *)
(* order", so the count that is parsed is the one QTM sent.                *)
CountAsSent == (pc = "done" /\ ~short /\ size > 0) => groups = sent
=============================================================================
