---------------------------- MODULE Elements ----------------------------
(* Element types and the codec (types/element_type.rs, codec.rs), and how  *)
(* the Python extension reads a list of Python values into them            *)
(* (infrastore-py lib.rs).  A composite value per time step is packed into *)
(* one row of floats; ragged rows carry their own point count in front and *)
(* are padded to the widest, so a count is told from a value only by its   *)
(* position.  Floats are small naturals.                                   *)
EXTENDS Integers, Sequences, SequencesExt

Scalar            == [kind |-> "scalar", arity |-> 0]
TupleType(n)        == [kind |-> "tuple", arity |-> n]
LinearFunction    == [kind |-> "linear_function", arity |-> 0]
QuadraticFunction == [kind |-> "quadratic_function", arity |-> 0]
PiecewiseLinear   == [kind |-> "piecewise_linear", arity |-> 0]
PiecewiseStep     == [kind |-> "piecewise_step", arity |-> 0]

NoElement == [ok |-> FALSE]

\* tuple(0,..) has no spelling, so it is never declared.
ElementTypes(maxArity) ==
  {Scalar, LinearFunction, QuadraticFunction, PiecewiseLinear, PiecewiseStep}
  \cup {TupleType(n) : n \in 1..maxArity}

is_ragged(et) == et \in {PiecewiseLinear, PiecewiseStep}

\* fixed_element_dims of the types that have one.
FixedWidth(et) ==
  CASE et = LinearFunction -> 2 [] et = QuadraticFunction -> 3 [] OTHER -> et.arity

validate_element_dims(et, width) ==
  CASE et = PiecewiseLinear -> width >= 1 /\ width % 2 = 1
    [] et = PiecewiseStep   -> width = 1 \/ (width >= 1 /\ width % 2 = 0)
    [] OTHER                -> width = FixedWidth(et)

\* The slots a ragged row of n points takes, its count included.
Slots(et, n) == IF et = PiecewiseLinear THEN 2 * n + 1 ELSE IF n = 0 THEN 1 ELSE 2 * n

validate_ragged_rows(et, array) ==
  \A i \in DOMAIN array.rows : Slots(et, array.rows[i][1]) <= array.width

\* validate_array for an array of packed rows.
validate_array(et, array) ==
  /\ et # Scalar
  /\ validate_element_dims(et, array.width)
  /\ is_ragged(et) => validate_ragged_rows(et, array)

-----------------------------------------------------------------------------
(* codec.rs *)

Pad(s, width) == s \o [i \in 1..(width - Len(s)) |-> 0]

\* One step of each kind as its row, before padding.
Packed(et, v) ==
  CASE et.kind = "tuple"       -> v
    [] et = LinearFunction    -> <<v.proportional, v.constant>>
    [] et = QuadraticFunction -> <<v.quadratic, v.proportional, v.constant>>
    [] et = PiecewiseLinear   -> FoldLeft(LAMBDA a, p : a \o <<p.x, p.y>>, <<Len(v)>>, v)
    [] et = PiecewiseStep     -> <<Len(v.x)>> \o v.x \o v.y

\* A step function has one y fewer than its x, and tuples agree on an arity.
Packable(et, values) ==
  /\ et.kind = "tuple" =>
       /\ values # <<>> /\ values[1] # <<>>
       /\ \A i \in DOMAIN values : Len(values[i]) = Len(values[1])
  /\ et = PiecewiseStep =>
       \A i \in DOMAIN values :
         Len(values[i].y) = IF values[i].x = <<>> THEN 0 ELSE Len(values[i].x) - 1

\* The width every row is padded to: that of the widest, at least the count's own.
Width(et, values) ==
  IF is_ragged(et)
  THEN Max({1} \cup {Len(Packed(et, values[i])) : i \in DOMAIN values})
  ELSE IF et.kind = "tuple" THEN Len(values[1]) ELSE FixedWidth(et)

encode(et, values, rows) ==
  IF ~Packable(et, values) \/ Len(values) # rows THEN NoElement
  ELSE [ok |-> TRUE, width |-> Width(et, values),
        rows |-> [i \in DOMAIN values |-> Pad(Packed(et, values[i]), Width(et, values))]]

\* Fault: a step function is read with a y for every x.
StepWithAYPerX(r) ==
  [x |-> SubSeq(r, 2, 1 + r[1]), y |-> SubSeq(r, 2 + r[1], Min({1 + 2 * r[1], Len(r)}))]

Step(r) ==
  LET n    == r[1]
      used == IF n = 0 THEN 1 ELSE 2 * n
  IN [x |-> SubSeq(r, 2, 1 + n), y |-> SubSeq(r, 2 + n, used)]

Unpacked(et, r) ==
  CASE et.kind = "tuple"      -> r
    [] et = LinearFunction    -> [proportional |-> r[1], constant |-> r[2]]
    [] et = QuadraticFunction -> [quadratic |-> r[1], proportional |-> r[2], constant |-> r[3]]
    [] et = PiecewiseLinear   -> [k \in 1..r[1] |-> [x |-> r[2 * k], y |-> r[2 * k + 1]]]
    [] et = PiecewiseStep     -> Step(r)

decode(et, array) ==
  IF ~validate_array(et, array) THEN NoElement
  ELSE [ok |-> TRUE, values |-> [i \in DOMAIN array.rows |-> Unpacked(et, array.rows[i])]]

\* The type the values themselves say they are.
element_type_of(et, values) ==
  IF et.kind # "tuple" THEN et
  ELSE IF values = <<>> THEN TupleType(0) ELSE TupleType(Len(values[1]))

-----------------------------------------------------------------------------
(* Python values: a number, a mapping of named fields, a list of numbers or *)
(* a list of points; an empty list is neither kind of list.                 *)

Number     == [shape |-> "number"]
Mapping(f) == [shape |-> "mapping", fields |-> f]
NoItems    == [shape |-> "empty"]
ListOf(s)  == IF s = <<>> THEN NoItems ELSE [shape |-> "list", numbers |-> s]
Curve(s)   == IF s = <<>> THEN NoItems ELSE [shape |-> "points", points |-> s]

has(row, key) == row.shape = "mapping" /\ key \in DOMAIN row.fields

Content(row) ==
  CASE row.shape = "list"    -> row.numbers
    [] row.shape = "points"  -> row.points
    [] row.shape = "mapping" -> row.fields
    [] OTHER                 -> <<>>

\* decoded_to_py of one step.
decoded_to_py(et, v) ==
  CASE et.kind = "tuple"    -> ListOf(v)
    [] et = PiecewiseLinear -> Curve(v)
    [] OTHER                -> Mapping(v)

\* What one row says the element type is, if anything.
Says(row) ==
  IF has(row, "quadratic") THEN QuadraticFunction
  ELSE IF has(row, "proportional") THEN LinearFunction
  ELSE IF has(row, "x") /\ has(row, "y") THEN PiecewiseStep
  ELSE IF row.shape = "points" THEN PiecewiseLinear ELSE TupleType(0)

Empty            == [kind |-> "empty", arity |-> 0]
Ambiguous        == [kind |-> "ambiguous", arity |-> 0]
Inferred(answer) == [ok |-> TRUE, answer |-> answer]

\* infer_element_type: the first row that is not an empty list settles it.
infer_element_type(rows) ==
  LET telling == {i \in DOMAIN rows : rows[i].shape # "empty"} IN
  IF telling = {} THEN Inferred(IF rows = <<>> THEN Empty ELSE Ambiguous)
  ELSE LET first == rows[Min(telling)] IN
       IF first.shape = "number" \/ (first.shape = "mapping" /\ Says(first) = TupleType(0))
       THEN NoElement ELSE Inferred(Says(first))

\* The fields py_to_decoded takes from a row of each type.
Fields(et) ==
  CASE et = LinearFunction    -> {"proportional", "constant"}
    [] et = QuadraticFunction -> {"quadratic", "proportional", "constant"}
    [] et = PiecewiseStep     -> {"x", "y"}
    [] OTHER                  -> {}

Readable(et, row) ==
  CASE et.kind = "tuple"    -> row.shape \in {"list", "empty"}
    [] et = PiecewiseLinear -> row.shape \in {"points", "empty"}
    [] OTHER                -> row.shape = "mapping" /\ Fields(et) \subseteq DOMAIN row.fields

py_to_decoded(et, rows) ==
  IF \E i \in DOMAIN rows : ~Readable(et, rows[i]) THEN NoElement
  ELSE [ok |-> TRUE,
        values |-> [i \in DOMAIN rows |->
                      IF Fields(et) = {} THEN Content(rows[i])
                      ELSE [f \in Fields(et) |-> rows[i].fields[f]]]]

Undeclared == [kind |-> "undeclared", arity |-> 0]

\* The type the rows are read as: theirs when they have one, else the declared one
\* where empty rows or no rows at all can be of it.
ReadAs(rows, declared) ==
  LET inferred == infer_element_type(rows) IN
  IF declared = Scalar \/ ~inferred.ok THEN NoElement
  ELSE IF inferred.answer \notin {Empty, Ambiguous} THEN inferred
  ELSE IF declared = Undeclared THEN NoElement
  ELSE IF inferred.answer = Ambiguous
       THEN IF declared.kind \in {"tuple", "piecewise_linear"} THEN Inferred(declared) ELSE NoElement
  ELSE IF declared.kind = "tuple" THEN NoElement ELSE Inferred(declared)

\* from_values_payload, then the core's encode_with_type over a series of `rows` steps.
from_values(rows, declared, steps) ==
  LET as      == ReadAs(rows, declared)
      decoded == py_to_decoded(as.answer, rows)
      implied == element_type_of(as.answer, decoded.values)
      array   == encode(implied, decoded.values, steps)
  IN IF ~as.ok THEN NoElement
     ELSE IF ~decoded.ok THEN NoElement
     ELSE IF declared # Undeclared /\ declared # implied THEN NoElement
     ELSE IF ~array.ok THEN NoElement
     ELSE [ok |-> TRUE, element_type |-> implied, array |-> array]
=============================================================================
