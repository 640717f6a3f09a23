------------------------------- MODULE MC_KV -------------------------------
\* Small instances of the key-value store.
EXTENDS KVRefines

CONSTANTS k1, k2

\* Both keys hash to the same bucket.
OneBucket == [k \in {k1, k2} |-> 0]
NoPrefix == {}
\* Key k1 is a proper prefix of key k2.
K1IsPrefix == {<<k1, k2>>}
=============================================================================
