----------------------------- MODULE JsonValue ------------------------------
(***************************************************************************)
(* What a JSON item holds: the typed Add, AddAsFirst, Replace and Get of   *)
(* neb::CJsonObject (CJsonObject.cpp) over the numbers of cJSON.cpp.  An   *)
(* integer is kept three times, as valueint, as valuedouble and in what    *)
(* sign says of it, and the three come from different code when a value is *)
(* stored and when its text is parsed again.                               *)
(*                                                                         *)
(* The state is one item, a member of an object or of an array, and what   *)
(* was stored in it.  JsonDocument has the trees and the caches.  Integers *)
(* wrap as they do in the code, at twice IntHalf (int32, uint32) and twice *)
(* LongHalf (int64, uint64), which are constants so that they can be small;*)
(* a floating point number is exact here, a whole number of halves (5      *)
(* stands for 2.5), so rounding is left out.                               *)
(***************************************************************************)
EXTENDS Integers

CONSTANTS
  IntHalf, LongHalf,   \* 2^31 and 2^63
  MaxDigits,           \* bounds the digits of a received number
  None                 \* no item

ASSUME WidthAssumption ==
  IntHalf \in Nat \ {0} /\ LongHalf \in Nat /\ 2 * IntHalf <= LongHalf
ASSUME DigitsAssumption == MaxDigits \in Nat

VARIABLES
  item,     \* the cJSON node: type, valueint, valuedouble (in halves), sign
  stored,   \* what the item was given: its type and, in halves, its number
  parsed,   \* TRUE when the item comes from a text
  first     \* TRUE when it was stored by an AddAsFirst

jv_vars == <<item, stored, parsed, first>>

Integer == {"int32", "uint32", "int64", "uint64"}

Values(type) ==
  CASE type = "int32"  -> -IntHalf .. IntHalf - 1
    [] type = "uint32" -> 0 .. 2 * IntHalf - 1
    [] type = "int64"  -> -LongHalf .. LongHalf - 1
    [] type = "uint64" -> 0 .. 2 * LongHalf - 1

(* Halves of the floating point numbers that do not leave int64.           *)
Reals == -(2 * LongHalf) + 1 .. 2 * LongHalf - 1

Unsigned(n, half) == n % (2 * half)
Signed(n, half) ==
  LET u == Unsigned(n, half) IN IF u >= half THEN u - 2 * half ELSE u
Abs(n) == IF n < 0 THEN -n ELSE n
Signum(n) == IF n < 0 THEN -1 ELSE 1
Truncated(halves) == IF halves < 0 THEN -(Abs(halves) \div 2) ELSE halves \div 2

-----------------------------------------------------------------------------
(* cJSON: create, print, parse *)

(* Mutant: the number goes through an int32. *)
CreateInt_OneWidth(num, sign) ==
  [type |-> "Int", valueint |-> Signed(num, IntHalf),
   valuedouble |-> 2 * Unsigned(num, LongHalf), sign |-> sign]

CreateInt(num, sign) ==
  [type |-> "Int", valueint |-> Signed(num, LongHalf),
   valuedouble |-> 2 * Unsigned(num, LongHalf), sign |-> sign]

CreateDouble(halves, sign) ==
  [type |-> "Double", valueint |-> Truncated(halves), valuedouble |-> halves, sign |-> sign]

CreateBool(b) ==
  [type |-> IF b THEN "True" ELSE "False", valueint |-> 0, valuedouble |-> 0, sign |-> 0]

CreateNull == [type |-> "NULL", valueint |-> 0, valuedouble |-> 0, sign |-> 0]

(* The text of a number: its sign, its integer digits, its fraction (in    *)
(* halves, or NoFraction) and 10 to the number behind e (1 without an e).  *)
NoFraction == -1
Number(sign, digits, fraction, power) ==
  [sign |-> sign, digits |-> digits, fraction |-> fraction, power |-> power]

Meaning(text) ==
  text.sign * (2 * text.digits + (IF text.fraction = NoFraction THEN 0 ELSE text.fraction))
    * text.power

(* Mutant: every number is printed as %d or %u. *)
print_int_Short(i) ==
  LET shown == IF i.sign = -1 THEN Signed(i.valueint, IntHalf)
                              ELSE Unsigned(i.valueint, IntHalf)
  IN Number(Signum(shown), Abs(shown), NoFraction, 1)

print_int(i) ==
  LET shown == IF i.sign = -1
               THEN IF i.valueint \in Values("int32") THEN Signed(i.valueint, IntHalf)
                                                      ELSE i.valueint
               ELSE IF Unsigned(i.valueint, LongHalf) \in Values("uint32")
                    THEN Unsigned(i.valueint, IntHalf)
                    ELSE Unsigned(i.valueint, LongHalf)
  IN Number(Signum(shown), Abs(shown), NoFraction, 1)

print_double(i) ==
  Number(Signum(i.valuedouble), Abs(i.valuedouble) \div 2, Abs(i.valuedouble) % 2, 1)

(* Mutant: the minus is noted but not applied to valuedouble. *)
parse_number_Magnitude(text) ==
  LET n == Signed(text.digits, LongHalf)
  IN [type |-> "Int", valueint |-> Signed(text.sign * n, LongHalf), valuedouble |-> 2 * n,
      sign |-> text.sign]

(* The digits are gathered in an int64, which wraps.  With an e the number *)
(* is computed from base, which only the loop over a fraction fills.       *)
parse_number(text) ==
  LET n == Signed(text.digits, LongHalf)
      fraction == IF text.fraction = NoFraction THEN 0 ELSE text.fraction
      base == IF text.fraction = NoFraction THEN 0 ELSE 2 * n + fraction
  IN IF text.fraction = NoFraction /\ text.power = 1
     THEN [type |-> "Int", valueint |-> Signed(text.sign * n, LongHalf),
           valuedouble |-> text.sign * 2 * n, sign |-> text.sign]
     ELSE [type |-> "Double", valueint |-> n,
           valuedouble |-> IF text.power # 1 THEN text.sign * base * text.power
                                             ELSE text.sign * (2 * n + fraction),
           sign |-> text.sign]

print_value(i) == IF i.type = "Int" THEN print_int(i) ELSE print_double(i)

Numeric(i) == i.type \in {"Int", "Double"}

(* Parsing what was printed: for a number its text, for the words "true",  *)
(* "false" and "null" a fresh item, in which true counts as 1.             *)
parse_value(i) ==
  IF Numeric(i) THEN parse_number(print_value(i))
  ELSE [type |-> i.type, valueint |-> IF i.type = "True" THEN 1 ELSE 0,
        valuedouble |-> 0, sign |-> 0]

-----------------------------------------------------------------------------
(* CJsonObject: Get *)

GetInteger(type, i) ==
  LET whole == IF i.type = "Int" THEN i.valueint ELSE Truncated(i.valuedouble)
  IN CASE type = "int32"  -> Signed(whole, IntHalf)
       [] type = "uint32" -> Unsigned(whole, IntHalf)
       [] type = "int64"  -> Signed(whole, LongHalf)
       [] type = "uint64" -> Unsigned(whole, LongHalf)

GetBool(i) == i.type = "True"
GetDouble(i) == i.valuedouble
GetValueType(i) == i.type
IsNull(i) == GetValueType(i) = "NULL"

-----------------------------------------------------------------------------
(* CJsonObject: Add, AddAsFirst, Replace *)

JVInit ==
  /\ item = None
  /\ stored = [type |-> "nothing", number |-> 0]
  /\ parsed = FALSE
  /\ first = FALSE

Store(i, type, number, atHead) ==
  /\ item' = i
  /\ stored' = [type |-> type, number |-> number]
  /\ parsed' = FALSE
  /\ first' = atHead

(* int32 and int64 are stored with sign -1, the others with 1.             *)
SignOf(type) == IF type \in {"int32", "int64"} THEN -1 ELSE 1
StoreInteger(type, v, sign, atHead) ==
  Store(CreateInt(Unsigned(v, LongHalf), sign), type, 2 * v, atHead)
StoreReal(halves, atHead) == Store(CreateDouble(halves, -1), "double", halves, atHead)
StoreBool(b, atHead) == Store(CreateBool(b), "bool", IF b THEN 2 ELSE 0, atHead)
StoreNull(atHead) == Store(CreateNull, "null", 0, atHead)

Absent == item = None

(* In an object, under a key that is not there.                            *)
AddInteger(type, v) == Absent /\ StoreInteger(type, v, SignOf(type), FALSE)
AddBool(b) == Absent /\ StoreBool(b, FALSE)
AddReal(halves) == Absent /\ StoreReal(halves, FALSE)
AddNull == Absent /\ StoreNull(FALSE)

ReplaceInteger(type, v) == ~Absent /\ StoreInteger(type, v, SignOf(type), FALSE)
ReplaceBool(b) == ~Absent /\ StoreBool(b, FALSE)
ReplaceReal(halves) == ~Absent /\ StoreReal(halves, FALSE)
ReplaceWithNull == ~Absent /\ StoreNull(FALSE)

(* In an array, at the end.                                                *)
AppendInteger(type, v) == Absent /\ StoreInteger(type, v, SignOf(type), FALSE)
AppendBool(b) == Absent /\ StoreBool(b, FALSE)
AppendReal(halves) == Absent /\ StoreReal(halves, FALSE)
AppendNull == Absent /\ StoreNull(FALSE)

(* At its head: all four integer types are stored with sign -1.            *)
AddIntegerAsFirst(type, v) == Absent /\ StoreInteger(type, v, -1, TRUE)
AddBoolAsFirst(b) == Absent /\ StoreBool(b, TRUE)
AddRealAsFirst(halves) == Absent /\ StoreReal(halves, TRUE)
AddNullAsFirst == Absent /\ StoreNull(TRUE)

(* At an index.                                                            *)
ReplaceIntegerAt(type, v) == ~Absent /\ StoreInteger(type, v, SignOf(type), FALSE)
ReplaceBoolAt(b) == ~Absent /\ StoreBool(b, FALSE)
ReplaceRealAt(halves) == ~Absent /\ StoreReal(halves, FALSE)
ReplaceWithNullAt == ~Absent /\ StoreNull(FALSE)

(* ToString and Parse: to a file or a peer and back, or a copy.            *)
Reload ==
  /\ ~Absent
  /\ item' = parse_value(item)
  /\ parsed' = TRUE
  /\ UNCHANGED <<stored, first>>

(* Parse of a text that somebody else wrote.                               *)
Receive(text) ==
  /\ item' = parse_number(text)
  /\ stored' = [type |-> IF text.power # 1 /\ text.fraction = NoFraction
                          THEN "bare exponent" ELSE "text",
                 number |-> Meaning(text)]
  /\ parsed' = TRUE
  /\ first' = FALSE

DeleteItem ==
  /\ ~Absent
  /\ item' = None
  /\ stored' = [type |-> "nothing", number |-> 0]
  /\ parsed' = FALSE
  /\ first' = FALSE

JVNext ==
  \/ \E type \in Integer : \E v \in Values(type) :
       \/ AddInteger(type, v) \/ ReplaceInteger(type, v) \/ AppendInteger(type, v)
       \/ AddIntegerAsFirst(type, v) \/ ReplaceIntegerAt(type, v)
  \/ \E b \in BOOLEAN :
       \/ AddBool(b) \/ ReplaceBool(b) \/ AppendBool(b)
       \/ AddBoolAsFirst(b) \/ ReplaceBoolAt(b)
  \/ \E halves \in Reals :
       \/ AddReal(halves) \/ ReplaceReal(halves) \/ AppendReal(halves)
       \/ AddRealAsFirst(halves) \/ ReplaceRealAt(halves)
  \/ AddNull \/ ReplaceWithNull \/ AppendNull \/ AddNullAsFirst \/ ReplaceWithNullAt
  \/ \E sign \in {-1, 1}, digits \in 0 .. MaxDigits, fraction \in {NoFraction, 0, 1},
        power \in {1, 10} : Receive(Number(sign, digits, fraction, power))
  \/ Reload
  \/ DeleteItem

JVSpec == JVInit /\ [][JVNext]_jv_vars

-----------------------------------------------------------------------------
(* Properties *)

TooLong(number) == Abs(number) >= 2 * LongHalf

(* However often a value is saved and loaded again, reading it by the type *)
(* it was stored as gives the value back, and its text says its number; so *)
(* does the text of a number that was received.  The exceptions: an        *)
(* unsigned number of 2^63 or more stored by AddAsFirst, which is written  *)
(* as a negative one; and of received numbers those beyond an int64, and   *)
(* those with an e but no fraction, which are taken for 0.                 *)
ValueKept ==
  item # None =>
    /\ stored.type \in Integer => 2 * GetInteger(stored.type, item) = stored.number
    /\ stored.type = "bool" => GetBool(item) = (stored.number = 2)
    /\ stored.type = "double" => GetDouble(item) = stored.number
    /\ stored.type = "null" => IsNull(item)
    /\ (stored.type = "text" /\ ~TooLong(stored.number)) => GetDouble(item) = stored.number
    /\ (stored.type \in Integer /\ ~(first /\ TooLong(stored.number)))
         => Meaning(print_value(item)) = stored.number

(* An integer is also what Get reads as a floating point number, with      *)
(* three exceptions: a negative one that was not yet parsed from a text    *)
(* (valuedouble is computed from its unsigned form), and, once parsed, an  *)
(* unsigned one of 2^63 or more and the least int64.                       *)
DoubleAgrees ==
  (item # None /\ stored.type \in Integer) =>
    \/ GetDouble(item) = stored.number
    \/ ~parsed /\ stored.number < 0
    \/ parsed /\ TooLong(stored.number)
-----------------------------------------------------------------------------
(* The inductive invariant, for ValueKept and DoubleAgrees                  *)

(* An integer is in the item as an int64.  With sign -1 that is how it is   *)
(* printed, with sign 1 it is printed unsigned.                             *)
IntegerKept ==
  \E v \in Values(stored.type) :
    /\ stored.number = 2 * v
    /\ item.type = "Int" /\ item.valueint = Signed(v, LongHalf)
    /\ (item.sign = -1 /\ (v < LongHalf \/ first)) \/ (item.sign = 1 /\ v >= 0)
    /\ \/ item.valuedouble = 2 * v
       \/ ~parsed /\ v < 0
       \/ parsed /\ Abs(v) >= LongHalf

(* A floating point number stays one; a received number is an integer when  *)
(* it has neither a fraction nor an e.                                      *)
NumberKept ==
  /\ item.valuedouble = stored.number
  /\ \/ item.type = "Double"
     \/ /\ item.type = "Int" /\ item.valueint \in Int /\ stored.number = 2 * item.valueint
        /\ item.sign = -1 \/ (item.sign = 1 /\ item.valueint >= 0)

JVInv ==
  item # None =>
    /\ stored.number \in Int
    /\ stored.type \in Integer => IntegerKept
    /\ stored.type = "bool" => item.type = (IF stored.number = 2 THEN "True" ELSE "False")
    /\ stored.type = "double" => ~TooLong(stored.number)
    /\ stored.type = "null" => item.type = "NULL"
    /\ (stored.type \in {"double", "text"} /\ ~TooLong(stored.number)) => NumberKept
=============================================================================
