--------------------------- MODULE CalculatorCore ---------------------------
(***************************************************************************)
(* The calculator core: Checker::check_arguments, Abacus::calculate_result *)
(* and the arithmetic they call, on C ints of a width given by MinInt and  *)
(* MaxInt.  Exceptions are the error code they carry, ERROR_NONE meaning   *)
(* that nothing is thrown.                                                 *)
(***************************************************************************)
EXTENDS Integers

CONSTANTS MinInt, MaxInt    \* std::numeric_limits<int>

ASSUME IntAssumption ==
  MinInt \in Int /\ MaxInt \in Int /\ MinInt <= 0 /\ 0 <= MaxInt

CInt == MinInt .. MaxInt

OperationCodes == {"OPERATION_ADDITION", "OPERATION_SUBTRACTION", "OPERATION_MULTIPLICATION",
                   "OPERATION_DIVISION", "OPERATION_EXPONENTIATION", "OPERATION_FACTORIAL"}

\* Types::CalculatorData.  need_help is 0 in every request (to_calculator_data),
\* result and error_code are what Calculate returns.
CalculatorData ==
  [operation : OperationCodes \cup {"OPERATION_NONE"},
   first_number : CInt, has_first_number : BOOLEAN,
   second_number : CInt, has_second_number : BOOLEAN]

-----------------------------------------------------------------------------
(* CalculatorMath, the arithmetic library: the exact result when it is an  *)
(* int, a status otherwise.                                                *)

Abs(n) == IF n < 0 THEN -n ELSE n

\* C division truncates towards zero.
Quotient(a, b) == IF (a < 0) <=> (b < 0) THEN Abs(a) \div Abs(b) ELSE -(Abs(a) \div Abs(b))

Power(base, exponent) ==
  LET power[n \in Nat] == IF n = 0 THEN 1 ELSE base * power[n - 1] IN power[exponent]

Factorial(number) ==
  LET factorial[n \in Nat] == IF n = 0 THEN 1 ELSE n * factorial[n - 1] IN factorial[number]

Status(status) == [status |-> status, result |-> 0]

InRange(exact) ==
  IF exact \in CInt THEN [status |-> "MATH_NONE", result |-> exact]
  ELSE Status("MATH_OVERFLOW")

Math(operation, a, b) ==
  CASE operation = "OPERATION_ADDITION"       -> InRange(a + b)
    [] operation = "OPERATION_SUBTRACTION"    -> InRange(a - b)
    [] operation = "OPERATION_MULTIPLICATION" -> InRange(a * b)
    [] operation = "OPERATION_DIVISION"       ->
         IF b = 0 THEN Status("MATH_DIVISION_BY_ZERO") ELSE InRange(Quotient(a, b))
    [] operation = "OPERATION_EXPONENTIATION" ->
         IF b < 0 THEN Status("MATH_INVALID_ARGUMENTS") ELSE InRange(Power(a, b))
    [] operation = "OPERATION_FACTORIAL"      ->
         IF a < 0 THEN Status("MATH_INVALID_ARGUMENTS") ELSE InRange(Factorial(a))

-----------------------------------------------------------------------------
(* Checker and Abacus.                                                     *)

\* The error check_arguments throws; its order of tests is the order here.
CheckArguments(data) ==
  IF data.operation = "OPERATION_NONE" THEN "ERROR_MISSING_OPERATION"
  ELSE IF ~data.has_first_number THEN "ERROR_MISSING_FIRST_NUMBER"
  ELSE IF data.operation = "OPERATION_FACTORIAL"
       THEN IF data.first_number < 0 THEN "ERROR_NEGATIVE_FACTORIAL" ELSE "ERROR_NONE"
  ELSE IF ~data.has_second_number THEN "ERROR_MISSING_SECOND_NUMBER"
  ELSE IF data.operation = "OPERATION_EXPONENTIATION" /\ data.second_number < 0
       THEN "ERROR_NEGATIVE_POWER" ELSE "ERROR_NONE"

\* Mutant: the codes of overflow and of division by zero are exchanged.
MapMathError_Exchanged ==
  [MATH_NONE              |-> "ERROR_NONE",
   MATH_OVERFLOW          |-> "ERROR_DIVISION_BY_ZERO",
   MATH_DIVISION_BY_ZERO  |-> "ERROR_OVERFLOW",
   MATH_INVALID_ARGUMENTS |-> "ERROR_INVALID_OPERATION"]

MapMathError ==
  [MATH_NONE              |-> "ERROR_NONE",
   MATH_OVERFLOW          |-> "ERROR_OVERFLOW",
   MATH_DIVISION_BY_ZERO  |-> "ERROR_DIVISION_BY_ZERO",
   MATH_INVALID_ARGUMENTS |-> "ERROR_INVALID_OPERATION"]

\* calculate_result: the error it throws, or data.result.
Calculate(data) ==
  LET math == Math(data.operation, data.first_number, data.second_number)
  IN  IF data.operation \in OperationCodes
      THEN [error |-> MapMathError[math.status], result |-> math.result]
      ELSE [error |-> "ERROR_INVALID_OPERATION", result |-> 0]
=============================================================================
