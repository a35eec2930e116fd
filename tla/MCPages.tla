------------------------------ MODULE MCPages ------------------------------
EXTENDS AppPages

CONSTANT you

Holders == {[b \in Book |-> IF b = 1 THEN me ELSE h] : h \in {me, None}}
=============================================================================
