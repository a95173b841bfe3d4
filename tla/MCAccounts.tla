------------------------------ MODULE MCAccounts ------------------------------
EXTENDS Accounts, TLC

CONSTANTS u1, u2, u3, u4, u5, a, b, c

MCUsers == {u1, u2, u3, u4, u5}
MCEmails == {a, b, c}
MCBook == {b, c}
=============================================================================
