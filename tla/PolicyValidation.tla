-------------------------- MODULE PolicyValidation ---------------------------
(***************************************************************************)
(* The values of a policy change on their way into a policy: the checks of  *)
(* policy/validation.py, the DynamoDB item of the change                   *)
(* (change_requests.py) and the item of the policy the change is applied   *)
(* to (store.py).  Each step has its own idea of a number: JSON's int,     *)
(* float, NaN and bool; DynamoDB's one number type, of 38 digits and       *)
(* without NaN, for which boto3 takes no Python float; the 28 digits of    *)
(* Python's own decimals; and int() or float() on the way back.            *)
(*                                                                         *)
(* A number is counted in fractions of 1, a float by the decimal that       *)
(* str() gives of it.                                                      *)
(***************************************************************************)
EXTENDS Integers

CONSTANT
    KindOf          \* field -> how it is checked; a nested leaf (slo, application_budgets)
                    \* is a field of its own, with the kind of its check

\* The numbers at which the steps part.
CONSTANTS
    One,            \* 1
    SmallestStored, \* 10^-130: DynamoDB holds no smaller number
    FloatLimit,     \* 2^53: up to here every integer is a float
    ContextLimit,   \* 10^28: from here on Python's "value % 1" of a Decimal raises
    DigitsLimit,    \* 10^38: from here on an int has more digits than DynamoDB holds
    StoredLimit,    \* 10^126: from here on a number is too large for DynamoDB
    NearestFloat(_) \* float() of a number

ASSUME NumbersAssumption ==
    /\ One \in Nat \ {0} /\ SmallestStored \in 1..One
    /\ {FloatLimit, ContextLimit, DigitsLimit, StoredLimit} \subseteq Nat
    /\ One <= FloatLimit /\ FloatLimit <= ContextLimit
    /\ ContextLimit <= DigitsLimit /\ DigitsLimit <= StoredLimit

(* count: an integer >= 1.  amount: a positive number.  fraction: a number in *)
(* (0, 1].  flag: a bool.  name: a text.  word: one of a list of texts.      *)
(* texts: a list of texts (models).  group: an object whose leaves are       *)
(* fields; by itself it is empty, and changes nothing (slo).  refused: a    *)
(* field that is immutable, or that nobody knows.                          *)
Kinds == {"count", "amount", "fraction", "flag", "name", "word", "texts", "group", "refused"}
Fields == DOMAIN KindOf

ASSUME ValidationAssumption == \A f \in Fields : KindOf[f] \in Kinds

Numbers == {"int", "float"}

\* A value of a JSON body.  A bool is 0 or One, as in a comparison; a text is
\* 0 when it is empty and 1 when it is in the list of its field (as
\* data_classification's is whatever its case); a list is 1 when all in it are
\* texts that are not empty; an object is the empty one.
JsonTypes == Numbers \cup {"nan", "infinity", "bool", "text", "list", "object", "null"}
JsonValues == {v \in [type: JsonTypes, value: Int] : v.type = "int" => v.value % One = 0}

\* A value of an item.
ItemValues == [type: {"number", "bool", "text", "list", "object"}, value: Int]

-----------------------------------------------------------------------------
(* validation.py *)

(* Mutant of IsCount: a check that is also true of a float. *)
IsCountOrFloat(v) == v.type \in Numbers /\ v.value >= One

IsCount(v) == v.type = "int" /\ v.value >= One

(* "value <= 0" is false of NaN: an amount may be NaN.  It may be any size. *)
IsAmount(v) == v.type \in {"nan", "infinity"} \/ (v.type \in Numbers /\ v.value > 0)
IsFraction(v) == v.type \in Numbers /\ v.value > 0 /\ v.value <= One

(* The check of one field. *)
Accepts(kind, v) ==
    \/ kind = "count" /\ IsCount(v)
    \/ kind = "amount" /\ IsAmount(v)
    \/ kind = "fraction" /\ IsFraction(v)
    \/ kind = "flag" /\ v.type = "bool"
    \/ kind = "name" /\ v.type = "text" /\ v.value # 0
    \/ kind = "word" /\ v.type = "text" /\ v.value = 1
    \/ kind = "texts" /\ v.type = "list" /\ v.value = 1
    \/ kind = "group" /\ v.type = "object"

ValidatePolicyChanges(changes) ==
    /\ DOMAIN changes # {}
    /\ \A f \in DOMAIN changes : f \in Fields /\ Accepts(KindOf[f], changes[f])

-----------------------------------------------------------------------------
(* change_requests.py: the item of a change request, and back. *)

(* The number of an int, or of a float made a Decimal, can be in an item. *)
Fits(v) ==
    /\ v.type = "int" => v.value < DigitsLimit
    /\ v.type = "float" => SmallestStored <= v.value /\ v.value < StoredLimit

(* boto3 or DynamoDB refuses what does not fit, a NaN or an infinity: the   *)
(* put, and the request, end there.                                        *)
Storable(changes) ==
    \A f \in DOMAIN changes : changes[f].type \notin {"nan", "infinity"} /\ Fits(changes[f])

(* Mutant of Decimalize: the values are handed to boto3 as they are. *)
DecimalizeNothing(changes) == changes

Decimalize(changes) ==
    [f \in DOMAIN changes |->
        [changes[f] EXCEPT !.type = IF @ \in Numbers THEN "number" ELSE @]]

Truncated(n) == n - (n % One)

(* Mutant of Undecimalize: every number comes back as an int. *)
UndecimalizeToInt(item) ==
    [f \in DOMAIN item |->
        IF item[f].type # "number" THEN item[f]
        ELSE [type |-> "int", value |-> Truncated(item[f].value)]]

(* "value % 1" raises decimal.InvalidOperation when the whole part of the   *)
(* Decimal has more digits than the context: no read of the item returns.   *)
CanBeRead(item) == \A f \in DOMAIN item : item[f].type = "number" => item[f].value < ContextLimit

(* ... of an item that can be read.  float() of a fraction is the float it  *)
(* was, int() is exact.                                                    *)
Undecimalize(item) ==
    [f \in DOMAIN item |->
        IF item[f].type # "number" THEN item[f]
        ELSE [type |-> IF item[f].value % One = 0 THEN "int" ELSE "float", value |-> item[f].value]]

-----------------------------------------------------------------------------
(* store.py: one field of the policy item, and back. *)

(* _policy_to_item raises, or put_item does: Decimal(str(v)) of no number,  *)
(* a float that is handed to boto3 as it is, a number that does not fit.    *)
CanBePut(kind, v) ==
    /\ IF kind \in {"amount", "fraction"} THEN v.type \in Numbers
       ELSE v.type \notin {"float", "nan", "infinity"}
    /\ Fits(v)

(* _item_to_policy: int(), float() or bool() of what the item holds. *)
ReadBack(kind, v) ==
    IF kind = "count" THEN [type |-> "int", value |-> Truncated(v.value)]
    ELSE IF kind \in {"amount", "fraction"}
    THEN [type |-> "float", value |-> NearestFloat(v.value)]
    ELSE v

(* apply_change can put the policy with these fields changed. *)
CanBeApplied(changes) == \A f \in DOMAIN changes : CanBePut(KindOf[f], changes[f])

(* What get() returns of the changed fields afterwards. *)
AppliedValues(changes) == [f \in DOMAIN changes |-> ReadBack(KindOf[f], changes[f])]
=============================================================================
