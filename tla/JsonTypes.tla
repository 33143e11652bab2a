------------------------------- MODULE JsonTypes -------------------------------
(***************************************************************************)
(* The conversions of Json::Value (jsoncpp/json_value.cpp) between numbers *)
(* of different types.  The handlers test a member with isNull() and       *)
(* convert it with asString() or asInt(); a conversion that is not allowed *)
(* throws.                                                                 *)
(* A value is [type |-> t, is |-> x].  Numbers are counted in halves, so   *)
(* that a double may have a fraction; Double(x) is the double next to x.   *)
(***************************************************************************)
EXTENDS Integers, Sequences

CONSTANTS
    maxInt,         \* 2^31-1
    maxUInt,        \* 2^32-1
    maxInt64,       \* 2^63-1
    maxUInt64,      \* 2^64-1
    Precision       \* 2^53: from here on not every integer is a double

Throws == <<>>       \* a conversion gives <<what it gives>>, or throws
Half(n) == 2 * n
Whole(x) == x \div 2
minInt   == -maxInt - 1
minInt64 == -maxInt64 - 1

(* The distance of the doubles of a size: the least power of two with      *)
(* which Precision of them reach it.                                       *)
IsPowerOfTwo(u) == \A d \in 2..u : u % d = 0 => d % 2 = 0
Unit(size) ==
    CHOOSE u \in {1} \cup {w \in 2..size : IsPowerOfTwo(w)} :
        /\ size < Precision * u
        /\ u = 1 \/ size >= Precision * (u \div 2)

(* Round to nearest, a tie to the even multiple of the unit. *)
Double(n) ==
    LET size == IF n < 0 THEN -n ELSE n
        unit == Unit(size)
        down == size \div unit
        rest == 2 * (size % unit)
        near == IF rest > unit \/ (rest = unit /\ down % 2 = 1) THEN down + 1 ELSE down
    IN  (IF n < 0 THEN -1 ELSE 1) * near * unit

(* static_cast to an integer type: towards zero. *)
Truncated(x) == IF x < 0 THEN -((-x) \div 2) ELSE x \div 2
IsIntegral(x) == x % 2 = 0

(* The limits become doubles before they are compared. *)
InRange(x, min, max) == x >= Half(Double(min)) /\ x <= Half(Double(max))

-----------------------------------------------------------------------------
(* What a value says of itself *)

isInt(v) ==
    \/ v.type = "int"  /\ v.is \in minInt..maxInt
    \/ v.type = "uint" /\ v.is <= maxInt
    \/ v.type = "real" /\ v.is \in Half(minInt)..Half(maxInt) /\ IsIntegral(v.is)
isUInt(v) ==
    \/ v.type = "int"  /\ v.is \in 0..maxUInt
    \/ v.type = "uint" /\ v.is <= maxUInt
    \/ v.type = "real" /\ v.is \in 0..Half(maxUInt) /\ IsIntegral(v.is)
(* The limit of a 64-bit type is not a double: the next one is left out. *)
isInt64(v) ==
    \/ v.type = "int"
    \/ v.type = "uint" /\ v.is <= maxInt64
    \/ v.type = "real" /\ IsIntegral(v.is)
       /\ v.is >= Half(Double(minInt64)) /\ v.is < Half(Double(maxInt64))
isUInt64(v) ==
    \/ v.type = "int" /\ v.is >= 0
    \/ v.type = "uint"
    \/ v.type = "real" /\ IsIntegral(v.is) /\ v.is >= 0 /\ v.is < Half(Double(maxUInt64))
isIntegral(v) == isInt64(v) \/ isUInt64(v)
isDouble(v)   == v.type = "real" \/ isIntegral(v)
isNumeric(v)  == isIntegral(v) \/ isDouble(v)

-----------------------------------------------------------------------------
(* Conversions: the number, or Throws *)

(* The integer conversions differ in which integers and doubles they take. *)
AsInteger(v, integerFits, min, max) ==
    CASE v.type \in {"int", "uint"} -> IF integerFits THEN <<v.is>> ELSE Throws
      [] v.type = "real" -> IF InRange(v.is, min, max) THEN <<Truncated(v.is)>> ELSE Throws
      [] v.type = "null" -> <<0>>
      [] v.type = "boolean" -> <<IF v.is THEN 1 ELSE 0>>
      [] OTHER -> Throws
asInt(v)    == AsInteger(v, isInt(v), minInt, maxInt)
asUInt(v)   == AsInteger(v, isUInt(v), 0, maxUInt)
asInt64(v)  == AsInteger(v, v.type = "int" \/ isInt64(v), minInt64, maxInt64)
asUInt64(v) == AsInteger(v, v.type = "uint" \/ isUInt64(v), 0, maxUInt64)

asDouble(v) ==
    CASE v.type \in {"int", "uint"} -> <<Half(Double(v.is))>>
      [] v.type = "real" -> <<v.is>>
      [] v.type = "null" -> <<0>>
      [] v.type = "boolean" -> <<IF v.is THEN Half(1) ELSE 0>>
      [] OTHER -> Throws
asBool(v) ==
    CASE v.type = "boolean" -> <<v.is>>
      [] v.type = "null" -> <<FALSE>>
      [] v.type \in {"int", "uint", "real"} -> <<v.is # 0>>
      [] OTHER -> Throws
(* valueToString is in Json; here only whether there is a string. *)
asString(v) ==
    IF v.type \in {"array", "object"} THEN Throws ELSE <<v>>

isConvertibleTo(v, other) ==
    LET simple == v.type \in {"boolean", "null"}
    IN  CASE other = "null" ->
                \/ isNumeric(v) /\ asDouble(v) = <<0>>
                \/ v.type = "boolean" /\ ~v.is
                \/ v.type \in {"string", "array", "object"} /\ v.is = <<>>
                \/ v.type = "null"
          [] other = "int"  ->
                isInt(v) \/ simple \/ (v.type = "real" /\ InRange(v.is, minInt, maxInt))
          [] other = "uint" ->
                isUInt(v) \/ simple \/ (v.type = "real" /\ InRange(v.is, 0, maxUInt))
          [] other \in {"real", "boolean"} -> isNumeric(v) \/ simple
          [] other = "string" -> isNumeric(v) \/ simple \/ v.type = "string"
          [] other \in {"array", "object"} -> v.type \in {other, "null"}

-----------------------------------------------------------------------------
(* The values: of a double, every half stands for itself. *)
Numbers == [type : {"int"}, is : minInt64..maxInt64] \cup [type : {"uint"}, is : 0..maxUInt64]
           \cup [type : {"real"}, is : Int]
Others  == [type : {"boolean"}, is : BOOLEAN] \cup [type : {"null"}]
           \cup [type : {"string", "array", "object"}, is : Seq(STRING)]

(* What is known of the types: those of 32 bits fit into a double; of the  *)
(* limits of those of 64 bits the smallest is a double, and the double     *)
(* next to a largest one is one more, the next power of two.               *)
TypesAssumption ==
    /\ maxInt \in Nat /\ maxUInt \in Nat /\ maxInt64 \in Nat /\ maxUInt64 \in Nat
    /\ Precision \in Nat /\ maxInt + 1 < Precision /\ maxUInt < Precision
    /\ maxInt <= maxInt64 /\ maxUInt <= maxInt64 /\ maxInt64 <= maxUInt64
    /\ Double(minInt64) = minInt64
    /\ Double(maxInt64) = maxInt64 + 1 /\ Double(maxUInt64) = maxUInt64 + 1

-----------------------------------------------------------------------------
(* The asserts of the conversions cannot fail for a value that says it is  *)
(* convertible, and fail for every other (json_value.cpp:797).             *)
ConvertsAsSaid(v) ==
    /\ isConvertibleTo(v, "int")     <=> asInt(v) # Throws
    /\ isConvertibleTo(v, "uint")    <=> asUInt(v) # Throws
    /\ isConvertibleTo(v, "real")    <=> asDouble(v) # Throws
    /\ isConvertibleTo(v, "boolean") <=> asBool(v) # Throws
    /\ isConvertibleTo(v, "string")  <=> asString(v) # Throws

(* A value that says it is an integer of some type is converted to that    *)
(* type without a loss: none of the casts of a double is out of range      *)
(* (json_value.cpp:1192-1230), though asInt64 alone would let 2^63 pass.   *)
ExactWhenSaid(v) ==
    LET number == IF v.type = "real" THEN Whole(v.is) ELSE v.is
    IN  /\ isInt(v)    => asInt(v) = <<number>> /\ number \in minInt..maxInt
        /\ isUInt(v)   => asUInt(v) = <<number>> /\ number \in 0..maxUInt
        /\ isInt64(v)  => asInt64(v) = <<number>> /\ number \in minInt64..maxInt64
        /\ isUInt64(v) => asUInt64(v) = <<number>> /\ number \in 0..maxUInt64
================================================================================
