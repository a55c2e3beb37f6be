---------------------------- MODULE MCObjectStore ---------------------------
EXTENDS ObjectStore

CONSTANTS main, staging, a, b

Addresses == [s \in Stores |-> IF s = staging THEN 1 ELSE 2]

SetupTwo == [s \in Stores |-> <<1, 2>>]
KeysTwo == <<a, b>>
SetupTransfer == [s \in Stores |-> IF s = main THEN <<1>> ELSE <<2, 3>>]
KeysTransfer == <<a, a, b>>

BudgetWindow == [window |-> 1, bytes |-> 0]
BudgetBytes == [window |-> 0, bytes |-> 2]
TheBudgets == {BudgetWindow, BudgetBytes}
=============================================================================
