----------------------------- MODULE MCCompiledRun -----------------------------
(* The well-formed sample functions, compiled and run.                         *)
EXTENDS CompiledRun, MCLowering

MCArguments ==
    {<<n>> : n \in {0, 1, 2, 6}}
        \cup {<<0, 0>>, <<3, 1>>, <<4, 6>>, <<6, 5>>, <<1, 7>>, <<128, 9>>, <<255, 128>>}

\* The product of the numbers up to one, as the tests compute it.
Product(number) ==
    LET upTo[n \in 0 .. number] == IF n = 0 THEN 1 ELSE WordMul(upTo[n - 1], n)
    IN  upTo[number]

\* The factorial of examples.cpp returns what the tests expect of it.
FactorialComputes ==
    Ended /\ function_ = Factorial =>
        read_physical_value(return_value, carriers) = Product(carriers[kArgumentCarrierBase])
=============================================================================
