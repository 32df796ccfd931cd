------------------------------- MODULE SortKeys -------------------------------
(***************************************************************************)
(* Sort keys that carry a time (internal/persistence/dynamodb/keys.go).    *)
(* An instant is a whole second and a fraction in hundredths.  RFC3339Nano *)
(* writes the fraction without trailing zeros and leaves it out when it is *)
(* zero; DynamoDB compares keys byte by byte.                              *)
(***************************************************************************)
EXTENDS Integers, Sequences

\* The bytes that decide a comparison.  The date and the time of day have a
\* fixed width: one number stands for them.
Dot == 46
Zero == 48
Zed == 90
Hash == 35

\* time.Format(time.RFC3339Nano)
Rendered(instant) ==
    LET tens == instant.fraction \div 10
        ones == instant.fraction % 10
    IN  <<instant.second>>
        \o (CASE instant.fraction = 0 -> <<>>
              [] instant.fraction # 0 /\ ones = 0 -> <<Dot, Zero + tens>>
              [] OTHER -> <<Dot, Zero + tens, Zero + ones>>)
        \o <<Zed>>

\* The key of an event: the time and, so that no two are equal, its identifier.
EventKey(instant, id) == Rendered(instant) \o <<Hash, id>>

\* Byte order, a prefix first.
Precedes(a, b) ==
    \E n \in 0..Len(b) :
        /\ n <= Len(a)
        /\ \A i \in 1..n : a[i] = b[i]
        /\ \/ n = Len(a) /\ n < Len(b)
           \/ n < Len(a) /\ n < Len(b) /\ a[n + 1] < b[n + 1]

\* SK BETWEEN :from AND :to
Between(key, from, to) == ~Precedes(key, from) /\ ~Precedes(to, key)
=============================================================================
