----------------------- MODULE RequestHandlerAnswers ------------------------
(***************************************************************************)
(* What the request handler answers, for every request and every width of  *)
(* int: what its conversions give, why a stored record is the right answer *)
(* to whoever finds it, and that every step of a thread answers right or   *)
(* calls the storage for its request.                                      *)
(***************************************************************************)
EXTENDS RequestHandler, StorageServiceProofs

(* Where the records come from.                                            *)

\* A request that to_calculator_data accepts.
Accepted(q) == q \in Request /\ Rejection(q) = "OK"

\* The handler files status e for q: the outcome of the calculation, or the
\* failure of the database that saving the outcome ran into.
Files(q, e) ==
  /\ q \in Requests /\ Accepted(q)
  /\ CheckArguments(DataOf(q)) = "ERROR_NONE"
  /\ e = Calculate(DataOf(q)).error \/ (e = "ERROR_STORAGE" /\ faults > 0)

\* Where a record comes from.
Filed(record) == \E q \in Requests, e \in ErrorCodes : Files(q, e) /\ record = MakeRecord(q, e)

-----------------------------------------------------------------------------
(* What the conversions of the handler and the calculator give.            *)

\* The numbers of an accepted request are ints, and its operation has a code
\* and a storage name (to_calculator_data).
LEMMA AcceptedData ==
  ASSUME NEW q, Accepted(q)
  PROVE  /\ q # Malformed /\ q.operation \in ProtocolOperations
         /\ q.operands \in Seq(Int) /\ Len(q.operands) \in Nat
         /\ DataOf(q).operation \in OperationCodes
         /\ DataOf(q).first_number \in CInt /\ DataOf(q).second_number \in CInt
<1>1. q \in Request /\ q # Malformed /\ q.operation \in ProtocolOperations
  BY RequestsAssumption, Zenon DEF Accepted, Rejection
<1>2. q.operands \in Seq(Int) /\ Len(q.operands) \in Nat
  BY <1>1 DEF Request
<1>3. \A i \in 1 .. Len(q.operands) : i <= 2 => q.operands[i] \in CInt
  BY <1>1, Zenon DEF Accepted, Rejection, FitsInt
<1>4. 0 \in CInt
  BY IntAssumption DEF CInt
<1>5. DataOf(q).first_number \in CInt /\ DataOf(q).second_number \in CInt
  BY <1>2, <1>3, <1>4 DEF DataOf
<1>6. DataOf(q).operation \in OperationCodes
  BY <1>1 DEF DataOf, ToInternalOperation, ProtocolOperations, OperationCodes
<1> QED BY <1>1, <1>2, <1>5, <1>6, Zenon

\* What check_arguments looks at (to_calculator_data).
LEMMA DataFields ==
  ASSUME NEW q, Accepted(q)
  PROVE  LET d == DataOf(q)
         IN  /\ d.operation # "OPERATION_NONE"
             /\ d.operation = "OPERATION_FACTORIAL" <=> q.operation = "FACTORIAL"
             /\ d.operation = "OPERATION_EXPONENTIATION" <=> q.operation = "EXPONENTIATION"
             /\ d.has_first_number <=> Len(q.operands) # 0
             /\ d.has_second_number <=> ~(Len(q.operands) < 2)
<1> DEFINE d == DataOf(q)
<1>1. d.operation = ToInternalOperation[q.operation]
  BY Zenon DEF DataOf
<1>2. d.has_first_number = (Len(q.operands) > 0) /\ d.has_second_number = (Len(q.operands) > 1)
  BY Zenon DEF DataOf
<1>3. q.operation \in ProtocolOperations /\ Len(q.operands) \in Nat
  BY AcceptedData, Zenon
<1> HIDE DEF d
<1>4. /\ d.operation # "OPERATION_NONE"
      /\ d.operation = "OPERATION_FACTORIAL" <=> q.operation = "FACTORIAL"
      /\ d.operation = "OPERATION_EXPONENTIATION" <=> q.operation = "EXPONENTIATION"
  BY <1>1, <1>3 DEF ToInternalOperation, ProtocolOperations
<1>5. (Len(q.operands) > 0 <=> Len(q.operands) # 0) /\ (Len(q.operands) > 1 <=> ~(Len(q.operands) < 2))
  BY <1>3
<1> QED BY <1>2, <1>4, <1>5, Zenon DEF d

\* The ints of the calculator are integers.
LEMMA CIntIsInt == CInt \subseteq Int
BY IntAssumption DEF CInt

\* The arguments of find() for an accepted request.
LEMMA LookupType == ASSUME NEW q, Accepted(q) PROVE LookupOf(q) \in Lookup
<1>1. OperationToStorageName[q.operation] \in OperationName
  <2>1. OperationToStorageName[q.operation] \in {"add", "sub", "mul", "div", "pow", "fact"}
    BY AcceptedData DEF OperationToStorageName, ProtocolOperations
  <2>2. \A name \in {"add", "sub", "mul", "div", "pow", "fact"} : \E p \in Symbols : p[1] = name
    BY Zenon DEF Symbols
  <2> QED BY <2>1, <2>2, Zenon DEF OperationName
<1>2. SecondNumberForStorage(DataOf(q)) \in Int \cup {None}
  BY AcceptedData, CIntIsInt, Zenon DEF SecondNumberForStorage
<1>3. DataOf(q).first_number \in Int
  BY AcceptedData, CIntIsInt, Zenon
<1> QED BY <1>1, <1>2, <1>3, Zenon DEF LookupOf, Lookup

\* The switch of calculate_result, branch by branch.
LEMMA MathOf ==
  ASSUME NEW a, NEW b
  PROVE  /\ Math("OPERATION_ADDITION", a, b) = InRange(a + b)
         /\ Math("OPERATION_SUBTRACTION", a, b) = InRange(a - b)
         /\ Math("OPERATION_MULTIPLICATION", a, b) = InRange(a * b)
         /\ Math("OPERATION_DIVISION", a, b) =
              IF b = 0 THEN Status("MATH_DIVISION_BY_ZERO") ELSE InRange(Quotient(a, b))
         /\ Math("OPERATION_EXPONENTIATION", a, b) =
              IF b < 0 THEN Status("MATH_INVALID_ARGUMENTS") ELSE InRange(Power(a, b))
         /\ Math("OPERATION_FACTORIAL", a, b) =
              IF a < 0 THEN Status("MATH_INVALID_ARGUMENTS") ELSE InRange(Factorial(a))
BY Zenon DEF Math

\* What the arithmetic library is asked for, operation by operation.
LEMMA ExactOf ==
  ASSUME NEW a, NEW b
  PROVE  /\ Exact("ADDITION", a, b) = a + b
         /\ Exact("SUBTRACTION", a, b) = a - b
         /\ Exact("MULTIPLICATION", a, b) = a * b
         /\ Exact("DIVISION", a, b) = Quotient(a, b)
         /\ Exact("EXPONENTIATION", a, b) = Power(a, b)
         /\ Exact("FACTORIAL", a, b) = Factorial(a)
BY Zenon DEF Exact

\* Checked arguments give the exact result, or the error of a division by
\* zero or of an overflow (calculate_result after check_arguments).
LEMMA CalculateIsExact ==
  ASSUME NEW q, Accepted(q), CheckArguments(DataOf(q)) = "ERROR_NONE"
  PROVE  LET a == DataOf(q).first_number
             b == DataOf(q).second_number
             c == Calculate(DataOf(q))
         IN  IF q.operation = "DIVISION" /\ b = 0 THEN c.error = "ERROR_DIVISION_BY_ZERO"
             ELSE IF FitsInt(Exact(q.operation, a, b))
             THEN c.error = "ERROR_NONE" /\ c.result = Exact(q.operation, a, b)
             ELSE c.error = "ERROR_OVERFLOW"
<1> DEFINE d == DataOf(q)
           a == d.first_number
           b == d.second_number
           m == Math(d.operation, a, b)
           x == Exact(q.operation, a, b)
<1>1. /\ d.operation = ToInternalOperation[q.operation]
      /\ q.operation \in ProtocolOperations
  BY AcceptedData, Zenon DEF DataOf
<1>2. /\ Calculate(d).error = MapMathError[m.status]
      /\ Calculate(d).result = m.result
  BY AcceptedData, Zenon DEF Calculate
<1>3. /\ q.operation = "FACTORIAL" => ~(a < 0)
      /\ q.operation = "EXPONENTIATION" => ~(b < 0)
  BY <1>1 DEF CheckArguments, ToInternalOperation
<1> HIDE DEF d, a, b
<1>4. m = IF q.operation = "DIVISION" /\ b = 0 THEN Status("MATH_DIVISION_BY_ZERO")
          ELSE InRange(x)
  <2>1. CASE q.operation = "ADDITION"
    BY <2>1, <1>1, MathOf, ExactOf DEF ToInternalOperation
  <2>2. CASE q.operation = "SUBTRACTION"
    BY <2>2, <1>1, MathOf, ExactOf DEF ToInternalOperation
  <2>3. CASE q.operation = "MULTIPLICATION"
    BY <2>3, <1>1, MathOf, ExactOf DEF ToInternalOperation
  <2>4. CASE q.operation = "DIVISION"
    BY <2>4, <1>1, MathOf, ExactOf DEF ToInternalOperation
  <2>5. CASE q.operation = "EXPONENTIATION"
    BY <2>5, <1>1, <1>3, MathOf, ExactOf DEF ToInternalOperation
  <2>6. CASE q.operation = "FACTORIAL"
    BY <2>6, <1>1, <1>3, MathOf, ExactOf DEF ToInternalOperation
  <2> QED BY <1>1, <2>1, <2>2, <2>3, <2>4, <2>5, <2>6, Zenon DEF ProtocolOperations
<1> HIDE DEF m, x
<1>5. /\ q.operation = "DIVISION" /\ b = 0 => Calculate(d).error = "ERROR_DIVISION_BY_ZERO"
      /\ ~(q.operation = "DIVISION" /\ b = 0) /\ FitsInt(x)
           => Calculate(d).error = "ERROR_NONE" /\ Calculate(d).result = x
      /\ ~(q.operation = "DIVISION" /\ b = 0) /\ ~FitsInt(x) => Calculate(d).error = "ERROR_OVERFLOW"
  BY <1>2, <1>4, Zenon DEF InRange, Status, MapMathError, FitsInt
<1> QED BY <1>5, Zenon DEF a, b, d, x

\* Abacus and Checker throw codes an ErrorCode has, and a result is an int.
LEMMA CalculateType ==
  ASSUME NEW q, Accepted(q), CheckArguments(DataOf(q)) = "ERROR_NONE"
  PROVE  LET c == Calculate(DataOf(q))
         IN  /\ c.error \in {"ERROR_NONE", "ERROR_OVERFLOW", "ERROR_DIVISION_BY_ZERO"}
             /\ c.error = "ERROR_NONE" => c.result \in Int
BY CalculateIsExact, CIntIsInt, Zenon DEF FitsInt

\* The symbol of each operation of the protocol.
Glyph == [ADDITION |-> "+", SUBTRACTION |-> "-", MULTIPLICATION |-> "*",
          DIVISION |-> "/", EXPONENTIATION |-> "^"]

Commutes(q) == q.operation \in {"ADDITION", "MULTIPLICATION"}

\* What OperationKey::make does with the arguments of an accepted request.
LEMMA KeyOf ==
  ASSUME NEW q, Accepted(q)
  PROVE  LET a == DataOf(q).first_number
             b == DataOf(q).second_number
             l == LookupOf(q)
         IN  /\ q.operation = "FACTORIAL" =>
                  /\ MakeError(l) = "ERROR_NONE"
                  /\ Make(l) = [symbol |-> "fact", left |-> a, right |-> None]
             /\ q.operation # "FACTORIAL" /\ Len(q.operands) < 2 =>
                  MakeError(l) = "ERROR_MISSING_SECOND_NUMBER"
             /\ q.operation # "FACTORIAL" /\ ~(Len(q.operands) < 2) =>
                  /\ MakeError(l) = "ERROR_NONE"
                  /\ Make(l) = [symbol |-> Glyph[q.operation],
                                left   |-> IF Commutes(q) /\ a > b THEN b ELSE a,
                                right  |-> IF Commutes(q) /\ a > b THEN a ELSE b]
<1> DEFINE d == DataOf(q)
           l == LookupOf(q)
<1>1. /\ q.operation \in ProtocolOperations /\ Len(q.operands) \in Nat
      /\ d.first_number \in Int /\ d.second_number \in Int
  BY AcceptedData, CIntIsInt, Zenon
<1>2. /\ d.operation = "OPERATION_FACTORIAL" <=> q.operation = "FACTORIAL"
      /\ d.has_second_number <=> ~(Len(q.operands) < 2)
  BY DataFields, Zenon
<1>3. /\ l.first_number = d.first_number
      /\ l.operation = OperationToStorageName[q.operation]
      /\ l.second_number = IF q.operation = "FACTORIAL" \/ Len(q.operands) < 2
                           THEN None ELSE d.second_number
  BY <1>2, Zenon DEF LookupOf, SecondNumberForStorage
<1> HIDE DEF d, l
<1>4. CASE q.operation = "FACTORIAL"
  BY <1>3, <1>4 DEF MakeError, Make, IsFactorial, OperationToStorageName, d, l
<1>5. CASE q.operation # "FACTORIAL"
  <2>1. /\ ~IsFactorial(l.operation)
        /\ IsCommutative(l.operation) <=> Commutes(q)
        /\ <<l.operation, Glyph[q.operation]>> \in Symbols
    BY <1>1, <1>3, <1>5
    DEF IsFactorial, IsCommutative, Commutes, OperationToStorageName, ProtocolOperations,
        Glyph, Symbols
  <2>2. SymbolFor(l.operation) = Glyph[q.operation]
    BY <2>1, SymbolOf, Zenon
  <2>3. CASE Len(q.operands) < 2
    BY <1>3, <1>5, <2>1, <2>3, Zenon DEF MakeError, l
  <2>4. CASE ~(Len(q.operands) < 2)
    <3>1. l.second_number = d.second_number /\ l.second_number # None
      BY <1>1, <1>3, <1>5, <2>4, NoneAssumption, Zenon
    <3>2. MakeError(l) = "ERROR_NONE"
      BY <2>1, <3>1, Zenon DEF MakeError
    <3>3. Make(l) = [symbol |-> Glyph[q.operation],
                     left   |-> IF Swapped(l) THEN l.second_number ELSE l.first_number,
                     right  |-> IF Swapped(l) THEN l.first_number ELSE l.second_number]
      BY <2>1, <2>2, Zenon DEF Make
    <3>4. Swapped(l) <=> Commutes(q) /\ d.first_number > d.second_number
      BY <1>3, <2>1, <3>1, Zenon DEF Swapped
    <3> QED BY <1>3, <1>5, <2>4, <3>1, <3>2, <3>3, <3>4, Zenon DEF d, l
  <2> QED BY <2>3, <2>4, Zenon
<1> QED BY <1>4, <1>5, Zenon

\* What is stored for a request is an OperationRecord, with the request's key.
LEMMA MakeRecordType ==
  ASSUME NEW q, NEW e \in ErrorCodes, Files(q, e)
  PROVE  /\ MakeRecord(q, e) \in OperationRecord
         /\ MakeRecord(q, e).cache_key = Make(LookupOf(q))
         /\ MakeError(LookupOf(q)) = "ERROR_NONE"
<1> DEFINE d == DataOf(q)
           r == MakeRecord(q, e)
<1>1. Accepted(q) /\ CheckArguments(d) = "ERROR_NONE"
  BY Zenon DEF Files
<1>2. q.operation = "FACTORIAL" \/ ~(Len(q.operands) < 2)
  BY <1>1, DataFields, Zenon DEF CheckArguments
<1>3. Make(LookupOf(q)) \in Key /\ MakeError(LookupOf(q)) = "ERROR_NONE"
  <2>1. d.first_number \in Int /\ d.second_number \in Int
    BY <1>1, AcceptedData, CIntIsInt, Zenon
  <2>2. \E p \in Symbols : p[2] = "fact"
    BY Zenon DEF Symbols
  <2>3. q.operation # "FACTORIAL" => \E p \in Symbols : p[2] = Glyph[q.operation]
    BY <1>1, AcceptedData DEF Symbols, Glyph, ProtocolOperations
  <2> HIDE DEF d
  <2> QED BY <1>1, <1>2, <2>1, <2>2, <2>3, KeyOf DEF Key, d
<1>4. LookupOf(q) \in Lookup
  BY <1>1, LookupType, Zenon
<1>5. e = "ERROR_NONE" => Calculate(d).result \in Int
  BY <1>1, CalculateType, Zenon DEF Files
<1> QED BY <1>3, <1>4, <1>5, NoneAssumption, Zenon DEF MakeRecord, OperationRecord, Lookup

-----------------------------------------------------------------------------
(* The right answers.                                                      *)

\* A request has all operands of its operation.
Complete(q) == ~(Len(q.operands) < Arity(q.operation))

\* The right answer, from the operation and its two numbers.
Outcome(operation, a, b) ==
  IF operation = "FACTORIAL" /\ a < 0 THEN Failure("FACTORIAL_OF_NEGATIVE_NUMBER", None)
  ELSE IF operation = "EXPONENTIATION" /\ b < 0 THEN Failure("INVALID_OPERANDS", None)
  ELSE IF operation = "DIVISION" /\ b = 0 THEN Failure("DIVISION_BY_ZERO", None)
  ELSE IF FitsInt(Exact(operation, a, b)) THEN Success(Exact(operation, a, b), None)
  ELSE Failure("NUMERIC_OVERFLOW", None)

\* Only the numbers to_calculator_data extracts matter.
LEMMA ExpectedOfComplete ==
  ASSUME NEW q, Accepted(q), Complete(q)
  PROVE  Expected(q) = Outcome(q.operation, DataOf(q).first_number, DataOf(q).second_number)
<1>1. Len(q.operands) \in Nat /\ q.operation \in ProtocolOperations /\ Rejection(q) = "OK"
  BY AcceptedData, Zenon DEF Accepted
<1>2. DataOf(q).first_number = q.operands[1]
  BY <1>1 DEF Complete, Arity, DataOf
<1>3. q.operation # "FACTORIAL" => DataOf(q).second_number = q.operands[2]
  BY <1>1 DEF Complete, Arity, DataOf
<1>4. CASE q.operation = "FACTORIAL"
  <2>1. Exact(q.operation, q.operands[1], 0)
          = Exact(q.operation, q.operands[1], DataOf(q).second_number)
    BY <1>4, ExactOf
  <2> QED BY <1>1, <1>2, <1>4, <2>1, Zenon DEF Expected, Outcome, Complete
<1>5. CASE q.operation # "FACTORIAL"
  BY <1>1, <1>2, <1>3, <1>5, Zenon DEF Expected, Outcome, Complete
<1> QED BY <1>4, <1>5, Zenon

\* What check_arguments throws is the right answer.
LEMMA ExpectedOfChecked ==
  ASSUME NEW q, Accepted(q), CheckArguments(DataOf(q)) # "ERROR_NONE"
  PROVE  Expected(q) = Failure(MapInternalError[CheckArguments(DataOf(q))], None)
<1> DEFINE d == DataOf(q)
<1>1. Len(q.operands) \in Nat /\ q.operation \in ProtocolOperations /\ Rejection(q) = "OK"
  BY AcceptedData, Zenon DEF Accepted
<1>2. CheckArguments(d) =
        IF Len(q.operands) = 0 THEN "ERROR_MISSING_FIRST_NUMBER"
        ELSE IF q.operation = "FACTORIAL"
             THEN IF d.first_number < 0 THEN "ERROR_NEGATIVE_FACTORIAL" ELSE "ERROR_NONE"
        ELSE IF Len(q.operands) < 2 THEN "ERROR_MISSING_SECOND_NUMBER"
        ELSE IF q.operation = "EXPONENTIATION" /\ d.second_number < 0
             THEN "ERROR_NEGATIVE_POWER" ELSE "ERROR_NONE"
  BY DataFields, Zenon DEF CheckArguments
<1> HIDE DEF d
<1>3. CASE Complete(q)
  <2>1. Expected(q) = Outcome(q.operation, d.first_number, d.second_number)
    BY <1>3, ExpectedOfComplete, Zenon DEF d
  <2>2. Len(q.operands) # 0 /\ (q.operation = "FACTORIAL" \/ ~(Len(q.operands) < 2))
    BY <1>1, <1>3 DEF Complete, Arity
  <2> QED BY <1>2, <2>1, <2>2 DEF Outcome, MapInternalError, d
<1>4. CASE ~Complete(q)
  <2>1. Expected(q) = Failure("OPERANDS_COUNT_MISMATCH", None)
    BY <1>1, <1>4, Zenon DEF Expected, Complete
  <2>2. CheckArguments(d) \in {"ERROR_MISSING_FIRST_NUMBER", "ERROR_MISSING_SECOND_NUMBER"}
    BY <1>1, <1>2, <1>4 DEF Complete, Arity
  <2> QED BY <2>1, <2>2 DEF MapInternalError, d
<1> QED BY <1>3, <1>4, Zenon

\* What calculate_result throws or returns is the right answer.
LEMMA ExpectedOfCalculated ==
  ASSUME NEW q, Accepted(q), CheckArguments(DataOf(q)) = "ERROR_NONE"
  PROVE  LET c == Calculate(DataOf(q))
         IN  /\ Complete(q)
             /\ c.error = "ERROR_NONE" => Expected(q) = Success(c.result, None)
             /\ c.error # "ERROR_NONE" => Expected(q) = Failure(MapInternalError[c.error], None)
<1> DEFINE d == DataOf(q)
           c == Calculate(d)
<1>1. Len(q.operands) \in Nat /\ q.operation \in ProtocolOperations
  BY AcceptedData, Zenon
<1>2. /\ Len(q.operands) # 0
      /\ q.operation = "FACTORIAL" => ~(d.first_number < 0)
      /\ q.operation # "FACTORIAL" => ~(Len(q.operands) < 2)
      /\ q.operation = "EXPONENTIATION" => ~(d.second_number < 0)
  BY DataFields, Zenon DEF CheckArguments
<1>3. Complete(q)
  BY <1>1, <1>2 DEF Complete, Arity
<1>4. Expected(q) = Outcome(q.operation, d.first_number, d.second_number)
  BY <1>3, ExpectedOfComplete, Zenon
<1>5. IF q.operation = "DIVISION" /\ d.second_number = 0 THEN c.error = "ERROR_DIVISION_BY_ZERO"
      ELSE IF FitsInt(Exact(q.operation, d.first_number, d.second_number))
      THEN c.error = "ERROR_NONE" /\ c.result = Exact(q.operation, d.first_number, d.second_number)
      ELSE c.error = "ERROR_OVERFLOW"
  BY CalculateIsExact, Zenon
<1> HIDE DEF d, c
<1>6. /\ c.error = "ERROR_NONE" => Expected(q) = Success(c.result, None)
      /\ c.error # "ERROR_NONE" => Expected(q) = Failure(MapInternalError[c.error], None)
  BY <1>2, <1>4, <1>5 DEF Outcome, MapInternalError
<1> QED BY <1>3, <1>6, Zenon DEF c, d

\* What OperationKey::make throws is the right answer.
LEMMA ExpectedOfMakeError ==
  ASSUME NEW q, Accepted(q), MakeError(LookupOf(q)) # "ERROR_NONE"
  PROVE  Expected(q) = Failure(MapInternalError[MakeError(LookupOf(q))], None)
<1>1. /\ q.operation # "FACTORIAL" /\ Len(q.operands) < 2
      /\ MakeError(LookupOf(q)) = "ERROR_MISSING_SECOND_NUMBER"
  BY KeyOf, Zenon
<1>2. Rejection(q) = "OK"
  BY Zenon DEF Accepted
<1> QED BY <1>1, <1>2 DEF Expected, Arity, MapInternalError

\* Two requests with one key have one answer: the key forgets only the order
\* of operands whose order is immaterial (OperationKey::make).
LEMMA SameKeySameAnswer ==
  ASSUME NEW q, NEW r, Accepted(q), Accepted(r), Complete(q), Complete(r),
         Make(LookupOf(q)) = Make(LookupOf(r))
  PROVE  Expected(q) = Expected(r)
<1> DEFINE a == DataOf(q).first_number
           b == DataOf(q).second_number
           c == DataOf(r).first_number
           d == DataOf(r).second_number
<1>1. /\ q.operation \in ProtocolOperations /\ r.operation \in ProtocolOperations
      /\ a \in Int /\ b \in Int /\ c \in Int /\ d \in Int
      /\ Len(q.operands) \in Nat /\ Len(r.operands) \in Nat
  BY AcceptedData, CIntIsInt, Zenon
<1>2. /\ Expected(q) = Outcome(q.operation, a, b)
      /\ Expected(r) = Outcome(r.operation, c, d)
  BY ExpectedOfComplete, Zenon
<1>3. /\ q.operation = "FACTORIAL" =>
           Make(LookupOf(q)) = [symbol |-> "fact", left |-> a, right |-> None]
      /\ q.operation # "FACTORIAL" =>
           Make(LookupOf(q)) = [symbol |-> Glyph[q.operation],
                                left   |-> IF Commutes(q) /\ a > b THEN b ELSE a,
                                right  |-> IF Commutes(q) /\ a > b THEN a ELSE b]
  BY KeyOf, Zenon DEF Complete, Arity
<1>4. /\ r.operation = "FACTORIAL" =>
           Make(LookupOf(r)) = [symbol |-> "fact", left |-> c, right |-> None]
      /\ r.operation # "FACTORIAL" =>
           Make(LookupOf(r)) = [symbol |-> Glyph[r.operation],
                                left   |-> IF Commutes(r) /\ c > d THEN d ELSE c,
                                right  |-> IF Commutes(r) /\ c > d THEN c ELSE d]
  BY KeyOf, Zenon DEF Complete, Arity
<1> HIDE DEF a, b, c, d
<1>5. q.operation = r.operation
  BY <1>1, <1>3, <1>4 DEF Glyph, ProtocolOperations
<1>6. CASE q.operation = "FACTORIAL"
  <2>1. a = c
    BY <1>3, <1>4, <1>5, <1>6
  <2>2. Exact(q.operation, a, b) = Exact(r.operation, c, d)
    BY <1>5, <1>6, <2>1, ExactOf
  <2> QED BY <1>2, <1>5, <1>6, <2>1, <2>2 DEF Outcome
<1>7. CASE q.operation # "FACTORIAL" /\ ~Commutes(q)
  <2>1. a = c /\ b = d
    BY <1>3, <1>4, <1>5, <1>7 DEF Commutes
  <2> QED BY <1>2, <1>5, <2>1, Zenon
<1>8. CASE Commutes(q)
  <2>1. (a = c /\ b = d) \/ (a = d /\ b = c)
    BY <1>1, <1>3, <1>4, <1>5, <1>8 DEF Commutes
  <2>2. Exact(q.operation, a, b) = Exact(q.operation, b, a)
    BY <1>1, <1>8, ExactOf DEF Commutes
  <2> QED BY <1>2, <1>5, <1>8, <2>1, <2>2 DEF Outcome, Commutes
<1> QED BY <1>6, <1>7, <1>8, Zenon

\* A hit is the right answer to whoever looks the operation up, or carries the
\* failure of the database (the first branch of handle()).
LEMMA HitIsRight ==
  ASSUME NEW record, Filed(record), NEW q, Accepted(q),
         MakeError(LookupOf(q)) = "ERROR_NONE", record.cache_key = Make(LookupOf(q))
  PROVE  LET answer == [FromCache(record) EXCEPT !.source = None]
         IN  \/ answer = Expected(q)
             \/ answer.status = "STORAGE_ERROR" /\ faults > 0
             \/ FactorialOfNothing(q) /\ answer = Expected([q EXCEPT !.operands = <<0>>])
<1> DEFINE answer == [FromCache(record) EXCEPT !.source = None]
<1>1. PICK p \in Requests, e \in ErrorCodes : Files(p, e) /\ record = MakeRecord(p, e)
  BY Zenon DEF Filed
<1>2. /\ Accepted(p) /\ CheckArguments(DataOf(p)) = "ERROR_NONE"
      /\ record.cache_key = Make(LookupOf(p))
  BY <1>1, MakeRecordType, Zenon DEF Files
<1>3. CASE e = "ERROR_STORAGE" /\ faults > 0
  <2>1. record.status = "ERROR_STORAGE"
    BY <1>1, <1>3, Zenon DEF MakeRecord
  <2> QED BY <1>3, <2>1 DEF FromCache, Failure, MapInternalError
<1>4. CASE e = Calculate(DataOf(p)).error
  <2>1. answer = Expected(p) /\ Complete(p)
    <3>1. /\ record.status = e
          /\ e = "ERROR_NONE" => record.result = Calculate(DataOf(p)).result
      BY <1>1, Zenon DEF MakeRecord
    <3>2. answer = IF e = "ERROR_NONE" THEN Success(record.result, None)
                   ELSE Failure(MapInternalError[e], None)
      BY <3>1 DEF FromCache, Success, Failure
    <3> HIDE DEF answer
    <3> QED BY <1>2, <1>4, <3>1, <3>2, ExpectedOfCalculated, Zenon
  <2>2. CASE Complete(q)
    BY <1>2, <2>1, <2>2, SameKeySameAnswer, Zenon
  <2>3. CASE ~Complete(q)
    <3> DEFINE z == [q EXCEPT !.operands = <<0>>]
    <3>1. q.operation = "FACTORIAL" /\ q.operands = <<>>
      BY <2>3, AcceptedData, KeyOf DEF Complete, Arity
    <3>2. z = [operation |-> "FACTORIAL", operands |-> <<0>>] /\ z \in Request
      <4>1. q \in Request
        BY Zenon DEF Accepted
      <4>2. z = [operation |-> q.operation, operands |-> <<0>>]
        BY <4>1 DEF Request
      <4>3. <<0>> \in Seq(Int)
        OBVIOUS
      <4> HIDE DEF z
      <4>4. z \in Request
        BY <3>1, <4>2, <4>3, Zenon DEF Request, ProtocolOperations
      <4> QED BY <3>1, <4>2, <4>4, Zenon
    <3>3. 0 \in CInt
      BY IntAssumption DEF CInt
    <3> HIDE DEF z
    <3>4. Accepted(z) /\ Complete(z)
      <4>1. z \in Request /\ z # Malformed /\ z.operation = "FACTORIAL" /\ z.operands = <<0>>
        BY <3>2, RequestsAssumption, Zenon
      <4>2. Len(z.operands) = 1 /\ z.operands[1] = 0
        BY <4>1
      <4> QED BY <3>3, <4>1, <4>2 DEF Accepted, Complete, Arity, Rejection, FitsInt, ProtocolOperations
    <3>5. DataOf(z).first_number = 0 /\ DataOf(q).first_number = 0
      BY <3>1, <3>2 DEF DataOf
    <3>6. Make(LookupOf(z)) = Make(LookupOf(q))
      BY <3>1, <3>2, <3>4, <3>5, KeyOf, Zenon
    <3>7. Expected(p) = Expected(z)
      BY <1>2, <2>1, <3>4, <3>6, SameKeySameAnswer, Zenon
    <3> QED BY <2>1, <3>1, <3>7, AcceptedData, Zenon DEF FactorialOfNothing, z
  <2> QED BY <2>2, <2>3, Zenon
<1> QED BY <1>1, <1>3, <1>4, Zenon DEF Files

-----------------------------------------------------------------------------
(* The inductive invariant.  An answer may come from a record that another *)
(* thread, or an earlier life of the process, has stored for another       *)
(* spelling of the operation.  So the invariant says of every record where *)
(* it came from, and of every thread what its storage call is about.       *)

RecordsAreFiled ==
  /\ \A k \in DOMAIN cache : Filed(cache[k])
  /\ \A k \in DOMAIN history : Filed(history[k])

\* The thread is in find() for its request.
Finding(t) ==
  LET l == LookupOf(request[t])
  IN  /\ request[t] \in Requests /\ Accepted(request[t])
      /\ job[t] = FindJob(l)
      /\ future[t] # None =>
           \/ MakeError(l) # "ERROR_NONE" /\ future[t] = Thrown(MakeError(l))
           \/ MakeError(l) = "ERROR_NONE" /\ future[t] = Returned(None)
           \/ /\ MakeError(l) = "ERROR_NONE" /\ future[t].error = "ERROR_NONE"
              /\ future[t].record # None
              /\ Filed(future[t].record) /\ future[t].record.cache_key = Make(l)

\* The thread is in save() for the result of its request.
Saving(t) ==
  /\ Files(request[t], "ERROR_NONE")
  /\ job[t] = SaveJob(MakeRecord(request[t], "ERROR_NONE"))
  /\ future[t] # None =>
       \/ future[t] = Returned(None) /\ Make(LookupOf(request[t])) \in DOMAIN history
       \/ future[t] = Thrown("ERROR_STORAGE") /\ faults > 0

\* The thread is in save() for the error of its request.
SavingError(t) ==
  /\ Files(request[t], error[t]) /\ error[t] # "ERROR_NONE"
  /\ job[t] = SaveJob(MakeRecord(request[t], error[t]))

CallIsAbout(t) ==
  /\ pc[t] = "idle" => job[t] = None /\ future[t] = None
  /\ pc[t] = "find" => Finding(t)
  /\ pc[t] = "save" => Saving(t)
  /\ pc[t] = "saveError" => SavingError(t)

CallsAreAbout == \A t \in Callers : CallIsAbout(t)

\* A process that is down handles nothing; one that is up has lost its
\* connection only to a failure of the database.
Lives ==
  /\ ~up => ~open /\ \A t \in Callers : pc[t] = "idle" /\ response[t] = None
  /\ up /\ ~connected => faults > 0

\* An answer is an answer to something.
AnswersAreToRequests ==
  \A t \in Callers : response[t] # None => request[t] \in Requests \cup {Malformed}

IInv ==
  /\ TypeOK /\ RecordsAreFiled /\ CallsAreAbout /\ Lives /\ AnswersAreToRequests
  /\ CacheCoversHistory /\ AnswersAreRight /\ AcknowledgedIsStored

-----------------------------------------------------------------------------
(* A step of a thread either answers its request or calls save().          *)

\* A failure has one of the statuses of the protocol, and is no success.
LEMMA FailureType ==
  ASSUME NEW e \in ErrorCodes, e # "ERROR_NONE", NEW source \in {"CACHE", None}
  PROVE  Failure(MapInternalError[e], source) \in Response
<1>1. MapInternalError[e] \in Statuses
  BY Zenon DEF ErrorCodes, Statuses, MapInternalError
<1>2. MapInternalError[e] # "OK"
  BY DEF ErrorCodes, MapInternalError
<1> HIDE DEF MapInternalError
<1> QED BY <1>1, <1>2, Zenon DEF Failure, Response

\* The answer taken from a record of the cache is a response (make_response_from_cached_record).
LEMMA FromCacheType == ASSUME NEW record \in OperationRecord PROVE FromCache(record) \in Response
<1>1. CASE record.status = "ERROR_NONE"
  BY <1>1, Zenon DEF FromCache, Success, Response, OperationRecord
<1>2. CASE record.status # "ERROR_NONE"
  <2>1. record.status \in ErrorCodes
    BY Zenon DEF OperationRecord
  <2> QED BY <1>2, <2>1, FailureType, Zenon DEF FromCache
<1> QED BY <1>1, <1>2, Zenon

\* The answer to an unexpected exception in handle() is a response.
LEMMA InternalErrorType == Failure("INTERNAL_ERROR", None) \in Response
BY Zenon DEF Failure, Response, Statuses

\* The thread is out of any storage call.
Leaves(t) ==
  /\ job' = [job EXCEPT ![t] = None] /\ future' = [future EXCEPT ![t] = None]
  /\ UNCHANGED open

\* The thread answers r: right, and stored if it says CALCULATED.
Answers(t, r) ==
  /\ RightAnswer(request[t], r)
  /\ r.source = "CALCULATED" => Make(LookupOf(request[t])) \in DOMAIN history
  /\ Respond(t, r) /\ Leaves(t)
  /\ \E e \in ErrorCodes : error' = [error EXCEPT ![t] = e]

\* The thread calls save() with status e.
Stores(t, e, at) ==
  /\ Files(request[t], e)
  /\ job' = [job EXCEPT ![t] = SaveJob(MakeRecord(request[t], e))]
  /\ future' = [future EXCEPT ![t] = None]
  /\ pc' = [pc EXCEPT ![t] = at] /\ response' = [response EXCEPT ![t] = None]
  /\ at = "save" => e = "ERROR_NONE" /\ UNCHANGED error
  /\ at = "saveError" => e # "ERROR_NONE" /\ error' = [error EXCEPT ![t] = e]
  /\ UNCHANGED open

\* What the catch of CalculatorException does.
LEMMA SaveErrorStep ==
  ASSUME IInv, NEW t \in Callers, NEW e \in ErrorCodes, Files(request[t], e), e # "ERROR_NONE",
         SaveError(t, e)
  PROVE  Stores(t, e, "saveError") \/ \E r \in Response : Answers(t, r)
<1> DEFINE q == request[t]
           d == DataOf(q)
           r == Failure(MapInternalError[e], None)
<1>1. Accepted(q) /\ CheckArguments(d) = "ERROR_NONE"
  BY Zenon DEF Files
<1>2. IsStorable(d)
  BY <1>1, DataFields, Zenon DEF CheckArguments, IsStorable
<1>3. CallStorage(t, SaveJob(MakeRecord(q, e)), "saveError", r) /\ error' = [error EXCEPT ![t] = e]
  BY <1>2, Zenon DEF SaveError
<1>4. r \in Response
  BY FailureType, Zenon
<1>5. RightAnswer(q, r) /\ r.source # "CALCULATED"
  <2>1. r.source = None /\ [r EXCEPT !.source = None] = r /\ r.status = MapInternalError[e]
    BY DEF Failure
  <2>2. CASE e = "ERROR_STORAGE" /\ faults > 0
    BY <2>1, <2>2, NoneAssumption, Zenon DEF RightAnswer, MapInternalError
  <2>3. CASE e = Calculate(d).error
    BY <1>1, <2>1, <2>3, ExpectedOfCalculated, NoneAssumption, Zenon DEF RightAnswer
  <2> QED BY <2>2, <2>3, Zenon DEF Files
<1> HIDE DEF r
<1>6. CASE /\ Submit(t, SaveJob(MakeRecord(q, e)))
           /\ pc' = [pc EXCEPT ![t] = "saveError"] /\ response' = [response EXCEPT ![t] = None]
  BY <1>3, <1>6, Zenon DEF Stores, Submit
<1>7. CASE Respond(t, r) /\ Leaves(t)
  BY <1>3, <1>4, <1>5, <1>7, Zenon DEF Answers
<1> QED BY <1>3, <1>6, <1>7, Zenon DEF CallStorage, Leaves

\* The statement of the step lemmas for each way out of a storage call.
Moves(t) ==
  \/ \E r \in Response : Answers(t, r)
  \/ Stores(t, "ERROR_NONE", "save")
  \/ \E e \in ErrorCodes : Stores(t, e, "saveError")

\* handle() from the outcome of find() on.
LEMMA AfterFind ==
  ASSUME IInv, NEW t \in Callers, pc[t] = "find", Proceed(t)
  PROVE  Moves(t)
<1> DEFINE q == request[t]
           l == LookupOf(q)
           d == DataOf(q)
<1>1. Accepted(q) /\ q \in Requests /\ future[t] # None /\ Finding(t)
  BY Zenon DEF IInv, CallsAreAbout, CallIsAbout, Finding, Proceed, FindThrew, CacheHit, CheckFailed, Calculated,
         CalculationFailed, Saved, SaveFailed, ErrorSaved, CacheMiss, Completed
<1>2. future[t] \in Result
  BY <1>1, Zenon DEF IInv, TypeOK
<1>3. CASE FindThrew(t)
  <2>1. MakeError(l) # "ERROR_NONE" /\ future[t].error = MakeError(l)
    BY <1>1, <1>3 DEF FindThrew, Finding, Thrown, Returned
  <2>2. Failure(MapInternalError[MakeError(l)], None) \in Response
    BY <2>1, FailureType, MakeErrorType, Zenon
  <2>3. Answers(t, Failure(MapInternalError[MakeError(l)], None))
    <3>1. RightAnswer(q, Failure(MapInternalError[MakeError(l)], None))
      BY <1>1, <2>1, ExpectedOfMakeError DEF RightAnswer, Failure
    <3> QED BY <1>3, <2>1, <3>1, NoneAssumption, Zenon
            DEF FindThrew, RespondAfterCall, Return, Answers, Leaves, Failure, ErrorCodes
  <2> QED BY <2>2, <2>3, Zenon DEF Moves
<1>4. CASE CacheHit(t)
  <2> DEFINE record == future[t].record
             r == FromCache(record)
  <2>1. /\ MakeError(l) = "ERROR_NONE" /\ record # None
        /\ Filed(record) /\ record.cache_key = Make(l)
    BY <1>1, <1>4 DEF CacheHit, Finding, Thrown, Returned
  <2>2. record \in OperationRecord
    BY <1>2, <2>1, Zenon DEF Result
  <2>3. r \in Response /\ r.source = "CACHE"
    BY <2>2, FromCacheType, Zenon DEF FromCache, Success, Failure
  <2>4. RightAnswer(q, r)
    <3>1. [r EXCEPT !.source = None].status = r.status
      BY <2>3, Zenon DEF Response
    <3> HIDE DEF r
    <3> QED BY <1>1, <2>1, <2>3, <3>1, HitIsRight, Zenon DEF RightAnswer, r
  <2> HIDE DEF r
  <2>5. Answers(t, r)
    BY <1>4, <2>3, <2>4, Zenon
    DEF CacheHit, RespondAfterCall, Return, Answers, Leaves, ErrorCodes, r
  <2> QED BY <2>3, <2>5, Zenon DEF Moves
<1>5. CASE CheckFailed(t)
  <2> DEFINE e == CheckArguments(d)
             r == Failure(MapInternalError[e], None)
  <2>1. e # "ERROR_NONE" /\ e \in ErrorCodes
    BY <1>5, Zenon DEF CheckFailed, CheckArguments, ErrorCodes
  <2>2. r \in Response
    BY <2>1, FailureType, Zenon
  <2>3. RightAnswer(q, r) /\ r.source = None
    BY <1>1, <2>1, ExpectedOfChecked DEF RightAnswer, Failure
  <2> HIDE DEF r
  <2>4. Answers(t, r)
    BY <1>5, <2>3, NoneAssumption, Zenon
    DEF CheckFailed, RespondAfterCall, Return, Answers, Leaves, ErrorCodes, r
  <2> QED BY <2>2, <2>4, Zenon DEF Moves
<1>6. CASE Calculated(t)
  <2> DEFINE r == Failure("INTERNAL_ERROR", None)
             j == SaveJob(MakeRecord(q, "ERROR_NONE"))
  <2>1. Files(q, "ERROR_NONE") /\ CallStorage(t, j, "save", r) /\ UNCHANGED error
    BY <1>1, <1>6, Zenon DEF Calculated, Files
  <2>2. CASE /\ Submit(t, j)
             /\ pc' = [pc EXCEPT ![t] = "save"] /\ response' = [response EXCEPT ![t] = None]
    BY <2>1, <2>2, Zenon DEF Moves, Stores, Submit
  <2>3. CASE ~open /\ Respond(t, r) /\ Leaves(t)
    <3>1. RightAnswer(q, r) /\ r.source = None
      BY <2>3, Zenon DEF RightAnswer, Failure
    <3>2. error' = [error EXCEPT ![t] = error[t]] /\ error[t] \in ErrorCodes
      BY <2>1, Zenon DEF IInv, TypeOK
    <3> HIDE DEF r
    <3>3. Answers(t, r)
      BY <2>3, <3>1, <3>2, NoneAssumption, Zenon DEF Answers
    <3> QED BY <3>3, InternalErrorType, Zenon DEF Moves, r
  <2> QED BY <2>1, <2>2, <2>3, Zenon DEF CallStorage, Leaves
<1>7. CASE CalculationFailed(t)
  <2>1. /\ Calculate(d).error # "ERROR_NONE" /\ Calculate(d).error \in ErrorCodes
        /\ Files(q, Calculate(d).error) /\ SaveError(t, Calculate(d).error)
    BY <1>1, <1>7, CalculateType, Zenon DEF CalculationFailed, Files, ErrorCodes
  <2> QED BY <2>1, SaveErrorStep, Zenon DEF Moves
<1> QED BY <1>3, <1>4, <1>5, <1>6, <1>7, Zenon
        DEF Proceed, Saved, SaveFailed, ErrorSaved, Completed

\* handle() from the outcome of save() on.
LEMMA AfterSave ==
  ASSUME IInv, NEW t \in Callers, pc[t] \in {"save", "saveError"}, Proceed(t)
  PROVE  Moves(t)
<1> DEFINE q == request[t]
           d == DataOf(q)
<1>1. CASE Saved(t)
  <2> DEFINE r == Success(Calculate(d).result, "CALCULATED")
  <2>1. Saving(t) /\ future[t] # None /\ future[t].error = "ERROR_NONE"
    BY <1>1, Zenon DEF Saved, Completed, IInv, CallsAreAbout, CallIsAbout
  <2>2. Make(LookupOf(q)) \in DOMAIN history
    BY <2>1 DEF Saving, Thrown
  <2>3. Accepted(q) /\ CheckArguments(d) = "ERROR_NONE" /\ Calculate(d).error = "ERROR_NONE"
    BY <2>1, Zenon DEF Saving, Files
  <2>4. RightAnswer(q, r) /\ r \in Response
    BY <2>3, CalculateType, ExpectedOfCalculated DEF RightAnswer, Success, Response
  <2> HIDE DEF r
  <2>5. Answers(t, r)
    BY <1>1, <2>2, <2>4, Zenon DEF Saved, RespondAfterCall, Return, Answers, Leaves, ErrorCodes, r
  <2> QED BY <2>4, <2>5, Zenon DEF Moves
<1>2. CASE SaveFailed(t)
  <2>1. Saving(t) /\ future[t] # None /\ future[t].error # "ERROR_NONE"
    BY <1>2, Zenon DEF SaveFailed, Completed, IInv, CallsAreAbout, CallIsAbout
  <2>2. future[t].error = "ERROR_STORAGE" /\ faults > 0
    BY <2>1 DEF Saving, Thrown, Returned
  <2>3. Files(q, "ERROR_STORAGE") /\ SaveError(t, "ERROR_STORAGE")
    BY <1>2, <2>1, <2>2, Zenon DEF Saving, Files, SaveFailed
  <2> QED BY <2>3, SaveErrorStep, Zenon DEF Moves, ErrorCodes
<1>3. CASE ErrorSaved(t)
  <2> DEFINE e == error[t]
             r == Failure(MapInternalError[e], None)
  <2>1. Files(q, e) /\ e # "ERROR_NONE" /\ e \in ErrorCodes
    BY <1>3, Zenon DEF ErrorSaved, Completed, IInv, CallsAreAbout, CallIsAbout, SavingError, TypeOK
  <2>2. r \in Response
    BY <2>1, FailureType, Zenon
  <2>3. RightAnswer(q, r) /\ r.source = None
    <3>1. r.source = None /\ [r EXCEPT !.source = None] = r /\ r.status = MapInternalError[e]
      BY DEF Failure
    <3>2. CASE e = "ERROR_STORAGE" /\ faults > 0
      BY <3>1, <3>2 DEF RightAnswer, MapInternalError
    <3>3. CASE e = Calculate(d).error
      BY <2>1, <3>1, <3>3, ExpectedOfCalculated DEF RightAnswer, Files
    <3> QED BY <2>1, <3>2, <3>3, Zenon DEF Files
  <2> HIDE DEF r
  <2>4. Answers(t, r)
    BY <1>3, <2>3, NoneAssumption, Zenon
    DEF ErrorSaved, RespondAfterCall, Return, Answers, Leaves, ErrorCodes, r
  <2> QED BY <2>2, <2>4, Zenon DEF Moves
<1> QED BY <1>1, <1>2, <1>3, Zenon
        DEF Proceed, FindThrew, CacheHit, CheckFailed, Calculated, CalculationFailed, CacheMiss,
            Completed

\* A thread that is in a storage call, in a process that runs.
LEMMA ProceedStep ==
  ASSUME IInv, NEW t \in Callers, Proceed(t)
  PROVE  /\ Moves(t) /\ up /\ pc[t] # "idle"
         /\ UNCHANGED <<serviceVars, request, up, crashes>>
<1>1. pc[t] \in {"find", "save", "saveError"}
  BY Zenon DEF Proceed, FindThrew, CacheHit, CheckFailed, Calculated, CalculationFailed, Saved,
         SaveFailed, ErrorSaved, CacheMiss, Completed
<1>2. Moves(t)
  BY <1>1, AfterFind, AfterSave, Zenon
<1>3. up
  BY <1>1, Zenon DEF IInv, Lives
<1>4. UNCHANGED <<serviceVars, request, up, crashes>>
  BY Zenon DEF Proceed, FindThrew, CacheHit, CheckFailed, Calculated, CalculationFailed, Saved,
         SaveFailed, ErrorSaved, SaveError, RespondAfterCall
<1> QED BY <1>1, <1>2, <1>3, <1>4, Zenon

\* handle() up to find(): a refusal is the right answer.
LEMMA HandleStep ==
  ASSUME IInv, NEW t \in Callers, NEW q \in Requests \cup {Malformed}, HandleRequest(t, q)
  PROVE  /\ up /\ request' = [request EXCEPT ![t] = q]
         /\ UNCHANGED <<serviceVars, error, up, crashes, open>>
         /\ \/ /\ job' = [job EXCEPT ![t] = FindJob(LookupOf(q))]
               /\ future' = [future EXCEPT ![t] = None]
               /\ pc' = [pc EXCEPT ![t] = "find"] /\ response' = [response EXCEPT ![t] = None]
               /\ q \in Requests /\ Accepted(q)
            \/ \E r \in Response :
                 /\ Respond(t, r) /\ UNCHANGED <<job, future>>
                 /\ RightAnswer(q, r) /\ r.source # "CALCULATED"
<1>1. up /\ pc[t] = "idle" /\ request' = [request EXCEPT ![t] = q]
  BY Zenon DEF HandleRequest
<1>2. UNCHANGED <<serviceVars, error, up, crashes, open>>
  BY Zenon DEF HandleRequest, callVars, CallStorage, Submit
<1>3. CASE /\ Rejection(q) # "OK" /\ Respond(t, Failure(Rejection(q), None))
           /\ UNCHANGED callVars
  <2> DEFINE r == Failure(Rejection(q), None)
  <2>1. Rejection(q) \in {"INVALID_JSON", "INVALID_OPERATION", "OPERAND_OUT_OF_RANGE"}
    BY <1>3, Zenon DEF Rejection
  <2>2. Rejection(q) \in Statuses
    <3>1. MapInternalError["ERROR_INVALID_OPERATION"] = "INVALID_OPERATION"
          /\ "ERROR_INVALID_OPERATION" \in DOMAIN MapInternalError
      BY Zenon DEF MapInternalError
    <3> QED BY <2>1, <3>1, Zenon DEF Statuses
  <2>3. r \in Response
    BY <1>3, <2>2, Zenon DEF Failure, Response
  <2>4. RightAnswer(q, r) /\ r.source # "CALCULATED"
    BY <1>3, NoneAssumption DEF RightAnswer, Expected, Failure
  <2> HIDE DEF r
  <2> QED BY <1>1, <1>2, <1>3, <2>3, <2>4, Zenon DEF callVars, r
<1>4. CASE /\ Rejection(q) = "OK"
           /\ CallStorage(t, FindJob(LookupOf(q)), "find", Failure("INTERNAL_ERROR", None))
  <2> DEFINE r == Failure("INTERNAL_ERROR", None)
  <2>1. q \in Requests /\ Accepted(q)
    BY <1>4, RequestsAssumption, Zenon DEF Accepted, Rejection
  <2>2. CASE /\ Submit(t, FindJob(LookupOf(q)))
             /\ pc' = [pc EXCEPT ![t] = "find"] /\ response' = [response EXCEPT ![t] = None]
    BY <1>1, <1>2, <2>1, <2>2, Zenon DEF Submit
  <2>3. CASE ~open /\ Respond(t, r) /\ Leaves(t)
    <3>1. RightAnswer(q, r) /\ r.source # "CALCULATED"
      BY <2>3, NoneAssumption, Zenon DEF RightAnswer, Failure
    <3>2. UNCHANGED <<job, future>>
      BY <1>1, <2>3, Zenon DEF IInv, TypeOK, CallsAreAbout, CallIsAbout, Leaves
    <3> HIDE DEF r
    <3> QED BY <1>1, <1>2, <2>3, <3>1, <3>2, InternalErrorType, Zenon DEF r
  <2> QED BY <1>4, <2>2, <2>3, Zenon DEF CallStorage, Leaves
<1> QED BY <1>3, <1>4, Zenon DEF HandleRequest

\* The storage thread does what the request of the thread asks for; what it
\* throws, it throws only after a failure of the database.
LEMMA StorageStepOf ==
  ASSUME IInv, NEW t \in Callers, StorageStep(t)
  PROVE  /\ up /\ future[t] = None
         /\ UNCHANGED <<threadVars, up, crashes, job, open>>
         /\ \/ /\ pc[t] = "find" /\ UNCHANGED serviceVars
               /\ future' = [future EXCEPT ![t] = Find(LookupOf(request[t]))]
            \/ \E e \in ErrorCodes :
                 /\ pc[t] = "save" => e = "ERROR_NONE"
                 /\ pc[t] \in {"save", "saveError"} /\ Files(request[t], e)
                 /\ \/ /\ InsertSucceeds(MakeRecord(request[t], e))
                       /\ future' = [future EXCEPT ![t] = Returned(None)]
                    \/ /\ SaveThrows(MakeRecord(request[t], e)) /\ faults' > 0
                       /\ future' = [future EXCEPT ![t] = Thrown("ERROR_STORAGE")]
<1>1. job[t] # None /\ future[t] = None /\ UNCHANGED <<threadVars, up, crashes, job, open>>
  BY Zenon DEF StorageStep, Perform, Unanswered
<1>2. pc[t] \in {"find", "save", "saveError"}
  BY <1>1, Zenon DEF IInv, TypeOK, CallsAreAbout, CallIsAbout
<1>3. up
  BY <1>2, Zenon DEF IInv, Lives
<1>4. CASE pc[t] = "find"
  <2>1. job[t] = FindJob(LookupOf(request[t]))
    BY <1>4, Zenon DEF IInv, CallsAreAbout, CallIsAbout, Finding
  <2>2. job[t].kind = "find" /\ job[t].lookup = LookupOf(request[t])
    BY <2>1 DEF FindJob
  <2> QED BY <1>1, <1>3, <1>4, <2>2, Zenon DEF StorageStep, Perform
<1>5. CASE pc[t] \in {"save", "saveError"}
  <2>1. PICK e \in ErrorCodes : /\ pc[t] = "save" => e = "ERROR_NONE"
                                /\ Files(request[t], e)
                                /\ job[t] = SaveJob(MakeRecord(request[t], e))
    BY <1>5 DEF IInv, TypeOK, CallsAreAbout, CallIsAbout, Saving, SavingError, ErrorCodes
  <2>2. job[t].kind = "save" /\ job[t].record = MakeRecord(request[t], e)
    BY <2>1 DEF SaveJob
  <2>3. SaveThrows(MakeRecord(request[t], e)) => faults' > 0
    BY <1>3 DEF IInv, Lives, TypeOK, ServiceTypeOK, SaveThrows, InsertRejected, ConnectionBreaks,
                NotConnected
  <2> QED BY <1>1, <1>3, <1>5, <2>1, <2>2, <2>3, Zenon DEF StorageStep, Perform
<1> QED BY <1>2, <1>4, <1>5, Zenon
=============================================================================
