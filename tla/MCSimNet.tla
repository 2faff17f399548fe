------------------------------ MODULE MCSimNet ------------------------------
\* Small instances of SimNet: one machine besides the driver, which connects to the
\* driver and to itself.
EXTENDS SimNet, TLC

CONSTANTS driver, a

FromA == {<<a, driver>>, <<a, a>>}
=============================================================================
