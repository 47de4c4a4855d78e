---------------------------- MODULE OperationKey ----------------------------
(***************************************************************************)
(* Storage::OperationKey: the key under which an operation is cached and   *)
(* stored.  Make keeps the key as its parts; Text is the string the code   *)
(* concatenates from them.  CacheRepository checks that Text identifies    *)
(* the parts, so the other modules work with the parts.                    *)
(***************************************************************************)
EXTENDS Integers, Sequences

CONSTANT None    \* std::nullopt, and "no value" in general

\* The operations symbol_for knows, with their symbols.
Symbols == {<<"add", "+">>, <<"+", "+">>, <<"sub", "-">>, <<"-", "-">>,
            <<"mul", "*">>, <<"*", "*">>, <<"div", "/">>, <<"/", "/">>,
            <<"pow", "^">>, <<"^", "^">>,
            <<"fact", "fact">>, <<"factorial", "fact">>, <<"!", "fact">>}

\* The names an operation may come under; "unknown" is every other string.
OperationName == {p[1] : p \in Symbols} \cup {"unknown"}

Key == [symbol : {p[2] : p \in Symbols}, left : Int, right : Int \cup {None}]

\* The arguments of OperationKey::make, and of every find().
Lookup == [first_number : Int, second_number : Int \cup {None}, operation : OperationName]

\* Mutant: only the symbols are normalised, not the names.
IsCommutative_SymbolsOnly(operation) == operation \in {"+", "*"}

IsCommutative(operation) == operation \in {"add", "+", "mul", "*"}

IsFactorial(operation) == operation \in {"fact", "factorial", "!"}

SymbolFor(operation) == (CHOOSE p \in Symbols : p[1] = operation)[2]

\* What make() throws for these arguments, ERROR_NONE when it returns a key.
MakeError(l) ==
  CASE IsFactorial(l.operation) -> "ERROR_NONE"
    [] ~IsFactorial(l.operation) /\ l.second_number = None
         -> "ERROR_MISSING_SECOND_NUMBER"
    [] OTHER -> IF \E p \in Symbols : p[1] = l.operation
                THEN "ERROR_NONE" ELSE "ERROR_INVALID_OPERATION"

\* std::swap of the operands of a commutative operation.
Swapped(l) == IsCommutative(l.operation) /\ l.first_number > l.second_number

Make(l) ==
  IF IsFactorial(l.operation)
  THEN [symbol |-> "fact", left |-> l.first_number, right |-> None]
  ELSE [symbol |-> SymbolFor(l.operation),
        left   |-> IF Swapped(l) THEN l.second_number ELSE l.first_number,
        right  |-> IF Swapped(l) THEN l.first_number ELSE l.second_number]

-----------------------------------------------------------------------------
(* The text of a key: a sequence of characters.                            *)

Digit == <<"0", "1", "2", "3", "4", "5", "6", "7", "8", "9">>

\* std::to_string(int)
Decimal(number) ==
  LET digits[n \in Nat] == IF n < 10 THEN <<Digit[n + 1]>>
                           ELSE Append(digits[n \div 10], Digit[(n % 10) + 1])
  IN  IF number < 0 THEN <<"-">> \o digits[-number] ELSE digits[number]

\* Mutant: the symbol is left out of the text.
Text_NoSymbol(key) ==
  IF key.right = None THEN <<"fact(">> \o Decimal(key.left) \o <<")">>
  ELSE Decimal(key.left) \o Decimal(key.right)

Text(key) ==
  IF key.right = None THEN <<"fact(">> \o Decimal(key.left) \o <<")">>
  ELSE Decimal(key.left) \o <<key.symbol>> \o Decimal(key.right)
=============================================================================
